# TLA+ models of foundation_lib's error, logging, system and crash code

This directory holds TLA+ models of the code under `src/`, the TLC configurations that check them, and TLAPS proofs about the error context stack and the log formatter.

The code under `src/` is:
- `src/src/log.c`, which holds log.c followed by system.c;
- `src/test/crash/main.c`, which holds the crash test followed by the error test;
- `src/unnamed/part_000`, which is apple.h.

`PROJECT.json` lists every component, run, mutant, mapped line range, finding, hazard and theorem.

## The system and how its parts interact

- **Error register and error context stack** (error.c, not in the tree; modelled from the design document).
  - Each thread has a read-once error register: `error_report` sets it and `error()` returns it and clears it.
  - Each thread also has a bounded stack of named frames: `error_context_push` and `error_context_pop` change it, and `error_context()` shows it.
  - When the stack is full, a push evicts the oldest frame.
  - All of this is per thread and needs no locking.
- **Error reporting facade** (log.c 102-167).
  - `debug_logf` and `info_logf` log one message line.
  - `warn_logf` and `error_logf` first log the frames of the calling thread's context (`error_log_context`), then the message.
  - `error_logf` then calls `error_report`.
  - All output goes through `_output_logf`.
- **Log formatter** (`_output_logf`, log.c 44-96).
  - It formats a header and the message into a 384-byte stack buffer.
  - If they do not fit, it recomputes the size, moves to a heap buffer and retries.
  - When the line fits, it hands the line to stdout and to the global `_log_callback`.
  - What a caller is promised is only that the whole line reaches the sinks once and the call returns; `LogLine` states that promise.
- **Log sinks** (log.c 36-37, 217-226). `_log_stdout` and `_log_callback` are process-wide globals. Any thread may set them, with no lock.
- **System queries** (system.c part of log.c):
  - `system_error_message` formats into a static buffer (`strerror_r` on POSIX, `FormatMessageA` and `string_strip` on Windows).
  - `system_hostname` and `system_username` keep lazily filled static caches.
  - The locale functions pack a configured four-character locale into a `uint32_t`; without one, Windows falls back to the user locale name from `GetLocaleInfoEx`.
- **Crash guard** (crash.c, not in the tree; modelled from the design document, §4.4).
  - `crash_guard` arms a checkpoint and runs the work.
  - On a fault, the handler disarms the guard, writes a dump, calls the dump callback and jumps back to the checkpoint.
  - `crash_guard_set` registers a callback for threads started later.
- **Tests** (main.c):
  - The error tests run the register/context script on concurrent threads.
  - The crash tests fault inside `crash_guard` and inside a new thread.

## Modules

| Module | Models | State ↔ code |
|---|---|---|
| `ErrorContext` | The register, the context stack and the log facade. | See the list below this table. |
| `ErrorContext_proofs` | TLAPS proofs about `ErrorContext`. | — |
| `ErrorTest` | `DECLARE_TEST(error, error)`, `(error, context)` and `(error, thread)`, main.c 199-383. | Each thread runs `error_test_thread` as a `Script` of steps for `Passes` passes. Steps are calls into `ErrorContext`, or EXPECTs checked against the results. The `failed` and `result` variables are the thread results that the main thread checks. |
| `ErrorTest_proofs` | TLAPS proofs about `ErrorTest`. | — |
| `LogLine` | The abstract `_output_logf` call. | `hdr`, `msg`, `line` and `done`; one action, `Emit`, hands over `hdr + msg` and returns. |
| `LogFormat` | The `_output_logf` buffer loop. | `size`, `buffer` (local/heap), `heapLive` (live heap buffers), `writes` (index and capacity of the `'\n'` and terminator writes), and `line` (the length handed to the sinks). One action, `Attempt`, is one iteration of `while(1)`, including its frees and allocation. `snprintf` and `vsnprintf` are modelled by their return values: the C99 one, or -1 on truncation for `_snprintf_s` and legacy MSVC. `LL == INSTANCE LogLine` maps the loop onto the abstract call: the same four variables, with the buffers hidden. |
| `LogFormat_proofs` | TLAPS proofs about `LogFormat`. | — |
| `LogSink` | `log_stdout`, `log_set_callback`, and the print/test/call tail of `_output_logf`. | `logStdout` and `logCallback` are the globals. Each logger has a pc over print, test and call. The call uses the value it tested or a reload. This is the data race, written as a nondeterministic choice. |
| `ErrorMessage` | `system_error_message`, POSIX and Windows builds. | `platform` is the build. `errno` per thread (`GetLastError()` on Windows). `buf` per buffer: one per thread on Linux and Windows, one shared buffer on Apple and Android. The OS copy (`strerror_r`, or `FormatMessageA` plus `string_strip`) is split into a start step in `Call`, which leaves a "torn" text, and a finish step (`Finish`, `FinishWindows`). The caller reads the text afterwards (`Read`). |
| `NameCache` | `system_hostname` and `system_username`. | `cache[n]` is the static buffer of each. It holds `""`, `"unknown"`, `"torn"` or `"real"`. There is one action per statement: the check, `strcpy`, the OS call (`gethostname` or `getlogin_r`, start and end, with the terminator) and the caller's read (`Use`). |
| `Locale` | `system_locale`, `system_locale_string`, `system_language` and `system_country`. | `cfg` is the pair of configured strings. Strings are sequences of character codes; `LOCALE_BLANK` is a model value, because the code compares the pointer. The case macros are modelled as arithmetic on bit 5. `memcpy` into a `uint32_t` is `Pack`, with byte weights set by `LittleEndian`. `user` is the LOCALE_SNAME of the Windows user; `WindowsUserLocale` is the cut at five characters, the `??-??` match and the repack, `system_user_locale` the POSIX or Windows `_system_user_locale`. |
| `Locale_proofs` | TLAPS proofs about `Locale`. | — |
| `CrashTest` | The two crash tests, with the guard engine. | `mpc` and `cpc` are the main thread and the crashing thread. `armed` is per thread. `flag` is `_crash_callback_called`. `failures` lists the failed EXPECTs. `dead` means an unguarded fault ended the process. The environment is chosen in `Init`: whether a debugger is attached, whether a dump can be written, the registration scope, and what `thread_terminate` does. |
| `CrashTest_proofs` | TLAPS proofs about `CrashTest`. | — |

`ErrorContext` in detail:
- Variables:
  - `err` is the register.
  - `alloc`, `depth` and `slot` are the context block: lazily allocated, with its depth and its frame slots.
  - `logical` is a ghost variable holding the outstanding pushes.
  - `lastCall` is the lines emitted by the last log call.
- Actions:
  - `ErrorRead` and `ErrorReport` model `error()` and `error_report`.
  - `ContextPush` and `ContextPop` model `error_context_push` and `error_context_pop`.
  - `DebugLogf`, `InfoLogf`, `WarnLogf` and `ErrorLogf` model the facade functions, including the context lines each one emits and the `error_report` that `error_logf` makes.

The map in `PROJECT.json` gives the source lines of every definition. Definitions for code that is not in the tree (error.c, crash.c) are marked `spec_modelled`.

## Runs

| Run | Result | What it shows |
|---|---|---|
| `errorcontext` | pass | Any mix of reports, reads, pushes (with overflow), pops and log calls keeps `depth` within the bound (`TypeOK`). `ContextIsNewestSuffix`: the frames shown are the newest outstanding pushes, in order. |
| `errorcontext_level` | violation | `error_logf` logs its context at `ERRORLEVEL_ERROR`, whatever level it is given (log.c:138). |
| `errortest` | pass | Three threads, two passes each, context compiled in: no EXPECT fails, and every thread returns 0. `AllThreadsReturnZero` is a liveness property. |
| `logformat` | pass | Headers of 0 and 86 characters, messages of 0..1600 characters, with both kinds of libc. All writes stay in bounds, no heap buffer leaks, and the loop refines `LogLine` (`LogLineSpec`): retries are stutters, the line handed over is whole, and under `WF` the call returns. |
| `logsink_race` | violation | A call through a null `_log_callback` after a concurrent `log_set_callback(0)`. |
| `errormessage_apple` | violation | macOS, iOS and Android build, one static buffer for the process: a second thread's `strerror_r` overwrites the text while the first caller reads it, so that caller reads a half-written message (log.c:505, the code's own `//TODO: Thread safety`). |
| `names_race` | violation | Two first calls of `system_hostname` or `system_username` race: one of them returns `"<unknown>"` or half a name. |
| `locale_big` | pass | Big-endian targets: the locale string is the normalised config, and language/country are its halves. |
| `locale_little` | violation | Little-endian targets: `system_language` returns the country letters. |
| `locale_windows` | violation | Windows with no usable config: user locale names `es-419` and `sr-Latn-RS` pass the `??-??` match after the cut and give `es41` and `srLa`. |
| `crashtest` | pass | Both tests run through the engine model under every environment answer; `crash_thread` passes in every interleaving when the thread is guarded and allowed to finish. |
| `crashtest_thread` | violation | If `thread_terminate` kills the thread, `crash_thread` fails whenever the thread has not run its callback within the 100 ms sleep. |

Every property of a passing run has a mutant in `PROJECT.json`: a plausible bug in the mapped code that makes TLC report that property violated.

Examples:
- an off-by-one or overwrite in the ring push;
- a read that does not reset the register;
- a missing `+ 1` in the new size (the loop then never returns, against `LogLineSpec`);
- an allocation without the terminator byte;
- freeing the stack buffer, or never freeing the heap buffer;
- an off-by-one in the case macro;
- the wrong half of the packed locale;
- a guard that is not armed;
- dropping the `thread_is_thread` wait.

### Bounds and why they are enough

- **`errorcontext`:**
  - `MaxDepth = 2`, so one push past the bound already evicts.
  - `MaxOutstanding = 4`, enough to push twice past the bound and then pop back through the evicted frames.
  - One thread is enough because the state is per thread.
- **`errortest`:**
  - Three threads with two passes each. The second pass starts from a state the first pass left, which is what the read-once and depth EXPECTs are about.
  - The threads interleave at every call.
- **`logformat`:**
  - The 1600-character messages need two growth steps with the -1-returning libc: 383 → 766 → 1532 → 3064.
  - Messages of every length in between hit each exact-fit boundary (`more = remain - 1`, `more = remain`).
  - The 86-character header is the longest `"[%.3f] <%llx:%d> "` prefix.
- **`locale_big`:**
  - The characters are '@', 'A', 'Z', '[' and 'a', and '`', 'a', 'z', '{' and 'A': each case range together with its neighbours on both sides.
  - Every four-character combination of them, plus blank, too-short and too-long configurations, in both the foundation and the application config.
- **`locale_windows`:** user names `en-US`, `fil-PH` (three-letter language), `sr-Latn-RS` (script subtag), `es-419` (numeric region), `de` (language only) and blank, with a usable and an unusable foundation config.
- **`errormessage_apple`:** two threads, two codes and errno 0 or a code, on the Apple build; the calls repeat, so a second call that overwrites the shared buffer while the first caller still reads it is reached in four steps. The Linux and Windows builds are not run: each thread owns its buffer there, so the property would hold by construction.
- **`crashtest`:** every combination of the four environment choices (16 initial states).
- **The race runs:** two threads, or one logger and one setter, are enough to show each race.

### Fairness

- **Error test threads** (`ErrorTest`): they are OS threads that never block on each other, and the test waits for them with `test_wait_for_threads_finish`. So each thread gets weak fairness (`WF` per thread), which is what `AllThreadsReturnZero` needs.
- **`LogFormat`:** the calling thread runs its loop without waiting, so the loop has `WF` on `Attempt`. `LogLine` has `WF` on `Emit` for the same reason; the refinement check shows the loop's fairness implies it.
- **The other modules:** only safety is checked, so no fairness is assumed.
- **`CHECK_DEADLOCK FALSE`:** set where the program really stops. `_output_logf` returns, and the crash test program ends, or dies on an unguarded fault.

## What is proved (TLAPS)

`ErrorContext_proofs` proves, for every thread set, every depth bound `MaxDepth`, every `MaxOutstanding` and both build settings:

- `TypeCorrect`: `Spec => []TypeOK`. `depth` stays in `0 .. MaxDepth`, and every slot below `depth` holds a frame.
- `NewestSuffix`: `Spec => []ContextIsNewestSuffix`. The frames that `error_context()` shows are the last `depth` outstanding pushes, in push order. This holds across evictions on overflow and across pops.

The inductive invariant is `IInv == TypeOK /\ ContextIsNewestSuffix /\ ContextShape`. Neither property is inductive on its own:
- A pop after an eviction keeps the view correct only because the view already was the newest suffix.
- Without the context compiled in, a push leaves the stack empty; this relies on `ContextShape`, which says `depth = 0` when the context is off and that `depth` never exceeds the outstanding pushes.

The lemmas `InitIInv`, `PushIInv`, `PopIInv`, `LogIInv` and `NextIInv` prove the invariant step by step: one lemma per action, and one step per conjunct the action can change. `ViewFrames` states that the view consists of frames. The temporal theorems combine these lemmas with PTL.

The proofs assume only `ConstantsAssumption`: the constants have their types, and `MaxDepth` is positive.

`LogFormat_proofs` proves, for every header length below `InitialSize`, every message length, both kinds of libc and every `InitialSize < LocalBytes`:

- `TypeCorrect`: `Spec => []TypeOK`; at most one heap buffer is live.
- `BoundsSafe`: `Spec => []WritesInBounds`. The `'\n'` and terminator writes lie inside the buffer in use.
- `FreedOnReturn`: `Spec => []ReturnsFreed`. A returned call has freed every heap buffer it allocated.
- `RetriesGrow`: `Spec => RetryGrows`, an action property. Every attempt that does not fit retries with a strictly larger size: the recomputed `more + need + 1` exceeds the old size because `vsnprintf`'s answer was at least what remained, and a doubled size exceeds it because it is positive.
- `ImplementsLogLineSafety`: `Spec => LL!SafetySpec`, under the mapping `header <- hdr`, `message <- msg`, `delivered <- Delivered` (no line before the attempt that fits, `<< line >>` after it), `returned <- done`. Initial states map to `LogLine`'s, and each `Attempt` is a stutter (it did not fit) or `Emit` of the whole line (it did).

The argument: the header always fits (`NeedIsHeader`: it is shorter than `InitialSize`, and `size` never drops below it), so `Need = hdr`; an attempt that fits has `More = msg`, so the line is whole. The inductive invariant `IInv` adds to `TypeOK` that `size >= InitialSize`, that the stack buffer is used only with the initial size (so `need + more + 1 < LocalBytes`), that `heapLive` is 1 exactly while the loop runs on a heap buffer, and that `line` is -1 until return and `hdr + msg` after. `WritesInBounds` alone is not inductive: the bound of the next write depends on `size` and `buffer`. `IInv` also holds under TLC on the `logformat` constants; it is not a property of a run. The proofs assume `FormatAssumption`.

`CrashTest_proofs` proves, for every set of debugger answers, dump outcomes, registration scopes and termination modes:

- `CooperativePasses`: `Spec => []ThreadTestPassesCooperative`. With a process-wide registration and a cooperative `thread_terminate`, `crash_thread` passes in every interleaving.

Its inductive invariant `IInv` records the control flow of both tests that the theorem rests on: the crashing thread does not exist while the main thread is in the `crash_guard` test or before `thread_create`; the main guard is armed when `instant_crash` faults; the flag is set when the guard resumes; the verdict is settled once, from `DumpResult`; and, under the cooperative process-wide setting (`CooperativeInv`), the new thread is armed until it faults, the flag is set once it is past the handler, it is never killed, and the main thread reaches the EXPECT only after the thread has exited. The flag reset of `crash_thread` is harmless only because the thread does not exist yet, which is why `BeforeThread => cpc = "none"` is needed. The proofs rely on `CrashAssumption`.

`Locale_proofs` proves, for every pair of configured strings (any byte sequences, or `LOCALE_BLANK`) and every `LOCALE_DEFAULT` in `Nat`:

- `LocaleStringNormalised`: under the hypothesis `~Windows`, `Spec => []LocaleStringIsNormalisedConfig` on either byte order. `system_locale_string` returns the foundation config if it is usable, else the application config, each normalised. With neither usable it returns the default locale's bytes.
- `LanguageCountryBigEndian`: under the hypothesis `~LittleEndian`, `Spec => []LanguageAndCountryLetters`. `~Windows` follows from `LocaleAssumption`, because Windows targets are little-endian. `system_language` returns the language pair and `system_country` the country pair, even for a default locale wider than 32 bits.

The hypotheses are the real conditions. The `locale_windows` and `locale_little` runs show each property false without its hypothesis (findings 4 and 5).

The argument has three parts:
- **Case macros.** `CaseMaps` shows that the macros agree with `RefLower` and `RefUpper` on every byte.
- **Arithmetic.** `ByteSplit` reads each byte and each 16-bit half off a number written as `a + b*256 + c*65536 + d*16777216 + e*2^32`. `FourBytes` writes every natural number that way. `RoundTrip` shows that `Unpack(Pack(<<a,b,c,d>>))` gives back the bytes on both byte orders. `HalvesBigEndian` shows that the shifts of `system_language` and `system_country` pick `Unpack`'s first and last pair on a big-endian target.
- **Invariant.** `LocaleValue` combines these lemmas for one configuration. The inductive invariant `IInv` says that every function already called returned what it computes from `cfg`. No call changes `cfg` or `user` (`Frame`).

`ErrorTest_proofs` proves, for every thread set, every number of passes `Passes` and both build settings, under the hypothesis `MaxDepth >= 2`:

- `NoFailedExpects`: `TestSpec => []NoExpectFails`. No EXPECT of `error_test_thread` fails on any thread, in any interleaving.
- `TestTypeCorrect`: `TestSpec => []TestTypeOK`. Every thread's position is a step of the script, and it never starts more than `Passes` passes.

The hypothesis is the real condition: the script nests two frames, and with `MaxDepth = 1` TLC finds `NoExpectFails` violated on the `errortest` constants.

The inductive invariant `TestIInv` is `ErrorContext`'s `IInv`, plus the two properties, plus `AtScript` for every running thread. `AtScript` says that the thread's register and logical stack are the ones its script position dictates (`ErrAt`, `LogicalAt`). It also says that `depth` equals the stack's length when the context is compiled in, and that the context block is allocated after the first push. `NoExpectFails` is not inductive alone: whether the next EXPECT holds depends on exactly this per-thread state.

The argument:
- `ScriptIs` spells out the 19 steps of `RegisterScript \o ContextScript`, using `SequenceTheorems`' `ConcatProperties`.
- `StepLocal` shows that a step of one thread leaves every other thread's state alone.
- `StepSelf` shows, step kind by step kind, that the stepping thread passes its EXPECT and is again at its script. `ContinueStep` and `Advance` cover the move to the next step or the next pass.
- `TestNextIInv` combines these lemmas with `ErrorContext`'s `NextIInv`.

**Only model-checked:**
- all liveness (`AllThreadsReturnZero`, the `WF` part of `LogLineSpec`): liveness is beyond the prover's reach;
- the race modules, the Apple `system_error_message` run and the Windows and little-endian locale runs, whose properties are violated.

## Findings

1. **log.c:138:** `error_logf` logs its context at `ERRORLEVEL_ERROR` instead of the given level. The design document (4.3) says the given severity.
2. **log.c:79:** there is an unsynchronised test-then-call of `_log_callback`. A thread can call through a null pointer.
3. **log.c:517 and 529:** the unlocked lazy caches of `system_hostname` and `system_username` can hand out `"<unknown>"` or a partial name.
4. **log.c:466:** the Windows `_system_user_locale` cuts the locale name at five characters before the `??-??` match, so `es-419` gives `es41` and `sr-Latn-RS` gives `srLa` instead of the default.
5. **log.c:670 and 676:** on little-endian targets, `system_language` and `system_country` return each other's letters.
6. **main.c:104:** `crash_thread` depends on the crashing thread finishing within 100 ms if `thread_terminate` kills it.
7. **log.c:505:** on macOS, iOS and Android `system_error_message` returns one static buffer for the process, so a concurrent call overwrites the message another thread is still reading.

Also, with a thread-scoped registration, the new thread is unguarded and its fault ends the process. The design document describes `crash_guard_set` as per thread (§2), yet the test relies on it covering a thread created afterwards. thread.c is not in the tree, so both scopes are modelled.

## Not modelled

- Platform information getters, `system_hostid`, `system_hardware_threads` and `system_pause`: they return constants or make single OS calls. `system_hardware_threads` leaves `errno = EINVAL` behind from its zero-mask `sched_setaffinity` (a hazard with a note).
- The GNU `strerror_r` of glibc with `_GNU_SOURCE`, which returns a pointer to a static string and may leave the buffer untouched: the model writes the text into the buffer, as the XSI `strerror_r` does. Nothing in the tree says which variant the build gets.
- The event stream: it forwards to a module that is not in the tree.
- Message boxes: user I/O.
- The Windows variants of the remaining functions, where they only differ in which OS call they make.
- apple.h: preprocessor only.
- The overflow of `size *= 2` for messages over 1 GiB, listed as a hazard with a note. The shared static string of `system_locale_string`: every caller stores the same bytes, since nothing changes the config after start-up.
