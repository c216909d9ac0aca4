------------------------------ MODULE NameCache ------------------------------
(***************************************************************************)
(* system_hostname() and system_username() on POSIX (src/src/log.c, the    *)
(* system.c part).  Each keeps a static buffer shared by all threads, with *)
(* no lock: a call returns the buffer when its first byte is set;          *)
(* otherwise it copies "<unknown>" in, lets the OS call (gethostname,      *)
(* getlogin_r) overwrite it, terminates it and returns it.  The caller     *)
(* reads the string after the call.                                        *)
(*                                                                         *)
(* A buffer holds "" (all zero), "unknown", "real" (the name), or "torn"   *)
(* while the OS call is half way through its copy.  The OS calls are taken *)
(* to succeed: their failure is the legitimate "<unknown>" answer.         *)
(***************************************************************************)
CONSTANTS Threads

Names == {"hostname", "username"}

VARIABLES
  cache,  \* cache[n]: the static buffer of system_<n>
  pc,     \* pc[t]: Idle, or <<n, step>> inside system_<n>
  seen    \* seen[t][n]: what the caller read from the pointer system_<n> returned

vars == <<cache, pc, seen>>

\* A thread between calls.
Idle == <<"none", "idle">>

Init ==
  /\ cache = [n \in Names |-> ""]
  /\ pc = [t \in Threads |-> Idle]
  /\ seen = [t \in Threads |-> [n \in Names |-> ""]]

At(t, n, step) == pc[t] = <<n, step>>

Goto(t, n, step) == pc' = [pc EXCEPT ![t] = <<n, step>>]

(***************************************************************************)
(* system_hostname                                                         *)
(***************************************************************************)
\* static char hostname[256] = {0}; if (hostname[0]) return hostname;
HostnameCheck(t) ==
  /\ pc[t] = Idle
  /\ Goto(t, "hostname", IF cache["hostname"] # "" THEN "use" ELSE "copy")
  /\ UNCHANGED <<cache, seen>>

\* strcpy(hostname, "<unknown>");
HostnameStrcpy(t) ==
  /\ At(t, "hostname", "copy")
  /\ cache' = [cache EXCEPT !["hostname"] = "unknown"]
  /\ Goto(t, "hostname", "os")
  /\ UNCHANGED seen

\* gethostname(hostname, 256) starts writing the name over the buffer.
GethostnameStart(t) ==
  /\ At(t, "hostname", "os")
  /\ cache' = [cache EXCEPT !["hostname"] = "torn"]
  /\ Goto(t, "hostname", "finish")
  /\ UNCHANGED seen

\* gethostname completes; hostname[255] = 0; return hostname.
GethostnameEnd(t) ==
  /\ At(t, "hostname", "finish")
  /\ cache' = [cache EXCEPT !["hostname"] = "real"]
  /\ Goto(t, "hostname", "use")
  /\ UNCHANGED seen

(***************************************************************************)
(* system_username                                                         *)
(***************************************************************************)
\* static char username[64] = {0}; if (username[0]) return username;
UsernameCheck(t) ==
  /\ pc[t] = Idle
  /\ Goto(t, "username", IF cache["username"] # "" THEN "use" ELSE "copy")
  /\ UNCHANGED <<cache, seen>>

\* strcpy(username, "<unknown>");
UsernameStrcpy(t) ==
  /\ At(t, "username", "copy")
  /\ cache' = [cache EXCEPT !["username"] = "unknown"]
  /\ Goto(t, "username", "os")
  /\ UNCHANGED seen

\* getlogin_r(username, 64) starts writing the login name.
GetloginStart(t) ==
  /\ At(t, "username", "os")
  /\ cache' = [cache EXCEPT !["username"] = "torn"]
  /\ Goto(t, "username", "finish")
  /\ UNCHANGED seen

\* getlogin_r completes; username[63] = 0; return username.
GetloginEnd(t) ==
  /\ At(t, "username", "finish")
  /\ cache' = [cache EXCEPT !["username"] = "real"]
  /\ Goto(t, "username", "use")
  /\ UNCHANGED seen

\* The caller reads the returned string.
Use(t) ==
  /\ \E n \in Names :
       /\ At(t, n, "use")
       /\ seen' = [seen EXCEPT ![t][n] = cache[n]]
  /\ pc' = [pc EXCEPT ![t] = Idle]
  /\ UNCHANGED cache

Next ==
  \E t \in Threads :
    \/ HostnameCheck(t) \/ HostnameStrcpy(t) \/ GethostnameStart(t) \/ GethostnameEnd(t)
    \/ UsernameCheck(t) \/ UsernameStrcpy(t) \/ GetloginStart(t) \/ GetloginEnd(t)
    \/ Use(t)

Spec == Init /\ [][Next]_vars

-----------------------------------------------------------------------------
\* The caches exist so that every call answers the host or login name: a
\* caller never reads "<unknown>" or a half-copied name from either function
\* when the OS call succeeds, however the calls of several threads
\* interleave.
NamesAreReal ==
  \A t \in Threads, n \in Names : seen[t][n] \in {"", "real"}
=============================================================================
