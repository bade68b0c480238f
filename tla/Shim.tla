-------------------------------- MODULE Shim --------------------------------
(***************************************************************************)
(* The shims that put mvsqlite under an unmodified application: the        *)
(* sqlite3_open_v2 and sqlite3_step of mvsqlite-preload/shim.c (loaded     *)
(* before libsqlite3) and of mvsqlite-sqlite3/shim.c (linked into the      *)
(* shell), called by several threads.                                      *)
(***************************************************************************)
EXTENDS Integers

CONSTANTS
    Thread,         \* threads of the application, each with a connection
    MaxBusy        \* SQLITE_BUSY answers to one call (bound)

VARIABLES
    build,          \* "preload" or "linked"
    enabled,        \* mvsqlite_enabled
    once,           \* Thread that runs the initialisation, "no" or "done"
    ready,          \* are the real functions known and the VFS registered?
    thr             \* the state of each thread

shvars == <<build, enabled, once, ready, thr>>

\* in_step is the thread-local in_sqlite3_step; asked is the depth of the calls of
\* sqlite3_step, 2 inside a function called by a statement; autocommit is SQLite's
\* flag, before the value read before the step; ret is what a call returned.
NewThread == [st |-> "new", in_step |-> FALSE, asked |-> 0, outer |-> FALSE, autocommit |-> TRUE,
              before |-> TRUE, tries |-> 0, hooked |-> FALSE, ret |-> "none"]

SInit == build \in {"preload", "linked"} /\ enabled = FALSE /\ once = "no" /\ ready = FALSE /\ thr = [t \in Thread |-> NewThread]

\* preload_init, when the library is loaded, or main_init of the shell: before any
\* thread opens a database, if the program is to run on mvsqlite.
mvsqlite_global_init ==
    /\ ~enabled /\ once = "no" /\ \A t \in Thread : thr[t].st = "new" /\ thr[t].ret = "none"
    /\ enabled' = TRUE
    /\ UNCHANGED <<build, once, ready, thr>>

Set(t, s) == thr' = [thr EXCEPT ![t] = s]

-----------------------------------------------------------------------------
(* sqlite3_open_v2, which sqlite3_open calls.                              *)

\* bootstrap under pthread_once, or Once::call_once inside init_mvsqlite: the first
\* caller runs it, the others wait for it to return.
MayPassStarted == once # "no"
MayPass == once = "done"
BootstrapStart(t) ==
    /\ thr[t].st = "new" /\ once = "no"
    /\ once' = t
    /\ Set(t, [thr[t] EXCEPT !.st = "boot"])
    /\ UNCHANGED <<build, enabled, ready>>
\* The linked shim registers the VFS always, the preloaded one only when enabled.
Registers == build = "linked" \/ enabled
Bootstrap(t) ==
    /\ thr[t].st = "boot"
    /\ once' = "done" /\ ready' = Registers
    /\ UNCHANGED <<build, enabled>>
    /\ Set(t, [thr[t] EXCEPT !.st = "opening"])
\* real_sqlite3_open_v2, then init_mvsqlite_connection if it succeeded.
sqlite3_open_v2(t) ==
    /\ thr[t].st = "opening" \/ (thr[t].st = "new" /\ MayPass)
    /\ \/ Set(t, [thr[t] EXCEPT !.st = "open", !.hooked = enabled, !.ret = IF ready THEN "ok" ELSE "othervfs"])
       \/ Set(t, [NewThread EXCEPT !.ret = "error"])
    /\ UNCHANGED <<build, enabled, once, ready>>

-----------------------------------------------------------------------------
(* sqlite3_step.                                                           *)

InStepProcess(t) == \E u \in Thread : thr[u].in_step
InStep(t) == thr[t].in_step

\* Inside another call of this thread the real function is called, once.
StepCall(t) ==
    LET s == thr[t] IN
    /\ s.st = "open" \/ (s.st = "real" /\ s.asked = 1)
    /\ Set(t, [s EXCEPT !.st = IF InStep(t) THEN "real" ELSE "loop",
                        !.asked = @ + 1, !.outer = @ \/ ~InStep(t), !.ret = "none",
                        !.in_step = TRUE, !.tries = IF s.asked = 0 THEN 0 ELSE @])
    /\ UNCHANGED <<build, enabled, once, ready>>
StepSample(t) ==
    /\ thr[t].st = "loop"
    /\ Set(t, [thr[t] EXCEPT !.before = thr[t].autocommit, !.st = "real"])
    /\ UNCHANGED <<build, enabled, once, ready>>

\* mvsqlite_autocommit_backoff sleeps and the loop goes round.
RetriesAlways(t, ret) == ret = "busy" /\ enabled
Retries(t, ret) == ret = "busy" /\ enabled /\ thr[t].before
\* What SQLite answers: BEGIN and COMMIT change the flag when they succeed; the
\* statements of a function do not begin or end transactions.
Answers == {"row", "done", "begin", "commit", "busy", "error"}
StepReturn(t) ==
    LET s == thr[t] IN
    /\ s.st = "real"
    /\ \E ret \in Answers :
          /\ ret = "begin" => s.autocommit /\ s.asked = 1
          /\ ret = "commit" => ~s.autocommit /\ s.asked = 1
          /\ ret = "busy" => s.tries < MaxBusy
          /\ LET ended == [s EXCEPT !.autocommit = (ret = "commit") \/ (@ /\ ret # "begin"), !.ret = ret,
                                    !.tries = IF ret = "busy" /\ s.asked = 1 THEN @ + 1 ELSE @]
             IN IF s.asked = 2 THEN Set(t, [ended EXCEPT !.asked = 1])
                ELSE IF s.outer /\ Retries(t, ret) THEN Set(t, [ended EXCEPT !.st = "loop", !.ret = "none"])
                ELSE Set(t, [ended EXCEPT !.st = "open", !.asked = 0, !.outer = FALSE, !.in_step = FALSE,
                                          !.before = TRUE])
    /\ UNCHANGED <<build, enabled, once, ready>>

SNext ==
    \/ mvsqlite_global_init
    \/ \E t \in Thread :
        \/ BootstrapStart(t) \/ Bootstrap(t) \/ sqlite3_open_v2(t)
        \/ StepCall(t) \/ StepSample(t) \/ StepReturn(t)

SSpec == SInit /\ [][SNext]_shvars

-----------------------------------------------------------------------------
\* Once mvsqlite is enabled no thread opens a database before its VFS is the default
\* one, however many open their first connection at the same time, and every
\* connection has its SQL functions.
OpenedOnMvsqlite ==
    enabled => \A t \in Thread : thr[t].ret # "othervfs" /\ (thr[t].st \notin {"new", "boot", "opening"} => thr[t].hooked)

\* With mvsqlite, outside a transaction the application never sees SQLITE_BUSY, whatever the other
\* threads do inside their own calls.
BusyIsRetried == [][\A t \in Thread :
    thr[t].asked = 1 /\ thr'[t].asked = 0 /\ thr'[t].ret = "busy" => ~enabled \/ ~thr[t].autocommit]_shvars

\* Inside a transaction a conflict reaches the application at once: a statement is
\* never repeated there, since its snapshot is the one that conflicts.
TransactionNotRepeated == \A t \in Thread : thr[t].st = "loop" /\ thr[t].tries > 0 => thr[t].autocommit
\* The shims, whole: an unchanged program runs on mvsqlite once it is enabled, sees no
\* conflict of a statement of its own, and every conflict of a transaction.
ShimTransparent == [](OpenedOnMvsqlite /\ TransactionNotRepeated) /\ BusyIsRetried
=============================================================================
