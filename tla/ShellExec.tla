----------------------------- MODULE ShellExec -----------------------------
(***************************************************************************)
(* Running SQL in the shell: shell_exec and exec_prepared_stmt, with the   *)
(* query plans that .eqp adds before a statement, the modes that .mode and *)
(* .explain choose, what shell_callback prints around the rows, and the    *)
(* object of .expert, which takes the place of the next execution.         *)
(***************************************************************************)
EXTENDS Integers, Sequences, SequencesExt, FiniteSets

CONSTANTS
    Inputs,         \* the texts run, as sequences of statements
    ExecModes,          \* the modes that .mode chooses from
    MaxDepth        \* levels of a plan that fit in EQPGraph.zPrefix (31)

\* A statement is [kind, rows, plan]: kind is "plain", "explain" or "eqp" (an
\* EXPLAIN QUERY PLAN), "none" for white space and comments, or "bad" when it does
\* not compile; rows is how many rows it returns, and plan its query plan.  A row
\* of a plan is [id, par, title]: title for the "-- TRIGGER" lines.

VARIABLES xc        \* the fields of ShellState that an execution uses

xvars == <<xc>>

AUTOEQP_off == 0
AUTOEQP_on == 1
AUTOEQP_trigger == 2
AUTOEQP_full == 3

\* in: the statements left; left: the rows left of the current one; out: what has
\* been printed since runOneSqlLine began; given, ran,
\* failed: the statements given, how many were run, and the first that failed.
XStart ==
    [st |-> "idle", mode |-> "list", cMode |-> "list", normalMode |-> "list", autoExplain |-> TRUE,
     autoEQP |-> AUTOEQP_off, showHeader |-> TRUE, triggerEQP |-> FALSE, expert |-> FALSE, cnt |-> 0, nRow |-> 0,
     graph |-> <<>>, indents |-> FALSE, pStmt |-> FALSE, in |-> <<>>, left |-> 0, rc |-> 0, out |-> <<>>,
     given |-> <<>>, ran |-> 0, failed |-> 0, was |-> FALSE]

-----------------------------------------------------------------------------
(* The graph of a query plan.                                              *)

Children(rows, id) == SelectSeq(rows, LAMBDA r : r.par = id)

RECURSIVE eqp_render_level(_, _, _)
eqp_render_level(rows, id, depth) ==
    FlattenSeq([j \in DOMAIN Children(rows, id) |->
        LET r == Children(rows, id)[j]
        IN <<[k |-> "plan", id |-> r.id, depth |-> depth]>>
           \o IF depth < MaxDepth THEN eqp_render_level(rows, r.id, depth + 1) ELSE <<>>])

\* The text of the graph: a title takes the place of "QUERY PLAN", and one with no
\* row after it is not shown.  The graph is empty afterwards.
eqp_render(graph) ==
    CASE graph = <<>> -> <<>>
      [] graph # <<>> /\ graph[1].title ->
            IF Len(graph) = 1 THEN <<>>
            ELSE <<[k |-> "title", id |-> graph[1].id]>> \o eqp_render_level(Tail(graph), 0, 0)
      [] OTHER -> <<[k |-> "title", id |-> 0]>> \o eqp_render_level(graph, 0, 0)

\* The plan of a statement, rendered in groups that each begin with a title.
RECURSIVE PlanText(_, _)
PlanText(rows, graph) ==
    CASE rows = <<>> -> eqp_render(graph)
      [] rows # <<>> /\ Head(rows).title -> eqp_render(graph) \o PlanText(Tail(rows), <<Head(rows)>>)
      [] OTHER -> PlanText(Tail(rows), Append(graph, Head(rows)))

-----------------------------------------------------------------------------
(* shell_callback: what a row adds to the output.                          *)

Headed == {"list", "html", "tcl", "csv", "quote", "ascii"}
Columnar == {"column", "table", "box", "markdown"}
Silent == {"count", "off"}
\* The program that .eqp full lists is told apart from the rows of the statement.
Shown(s) == [k |-> IF s.st = "plan" THEN "prog" ELSE "row", mode |-> s.cMode, stmt |-> Len(s.given) - Len(s.in)]

CallbackRecounts(s, eqprow) ==
    IF s.cMode \in Headed THEN [s EXCEPT !.out = @ \o (IF s.showHeader THEN <<[k |-> "head"]>> ELSE <<>>) \o <<Shown(s)>>] ELSE s
shell_callback(s, eqprow) ==
    CASE s.cMode \in Silent -> s
      [] s.cMode \in Headed ->
            [s EXCEPT !.cnt = @ + 1, !.out = @ \o (IF s.cnt = 0 /\ s.showHeader THEN <<[k |-> "head"]>> ELSE <<>>)
                                              \o <<Shown(s)>>]
      [] s.cMode = "line" ->
            [s EXCEPT !.cnt = @ + 1, !.out = @ \o (IF s.cnt > 0 THEN <<[k |-> "blank"]>> ELSE <<>>) \o <<Shown(s)>>]
      [] s.cMode = "insert" -> [s EXCEPT !.cnt = @ + 1, !.out = Append(@, Shown(s))]
      [] s.cMode = "json" ->
            [s EXCEPT !.cnt = @ + 1, !.out = @ \o <<[k |-> IF s.cnt = 0 THEN "open" ELSE "comma"], Shown(s)>>]
      [] s.cMode = "explain" ->
            [s EXCEPT !.cnt = @ + 1, !.out = @ \o (IF s.cnt = 0 THEN <<[k |-> "head"]>> ELSE <<>>) \o <<Shown(s)>>]
      [] s.cMode = "eqp" -> [s EXCEPT !.graph = Append(@, eqprow)]
      [] OTHER -> s

\* The end of exec_prepared_stmt, after the last row: the bracket of an array, the
\* number of rows, or the whole table.
ExecEnd(s) ==
    CASE s.nRow = 0 -> s
      [] s.nRow > 0 /\ s.cMode = "json" -> [s EXCEPT !.out = Append(@, [k |-> "close"])]
      [] s.nRow > 0 /\ s.cMode = "count" -> [s EXCEPT !.out = Append(@, [k |-> "count"])]
      [] s.nRow > 0 /\ s.cMode \in Columnar -> [s EXCEPT !.out = Append(@, [k |-> "table", n |-> s.nRow])]
      [] OTHER -> s

\* The instructions that an EXPLAIN lists: their number does not matter here.
ExplainRows == 2
RECURSIVE ExplainAll(_, _)
ExplainAll(s, n) == IF n = 0 THEN s ELSE ExplainAll(shell_callback([s EXCEPT !.cMode = "explain"], <<>>), n - 1)

-----------------------------------------------------------------------------
(* shell_exec.                                                             *)

Stmt == xc.in[1]

\* runOneSqlLine; with .expert pending the text goes to the expert instead.
runOneSqlLine(input) ==
    /\ xc.st = "idle"
    /\ xc' = [xc EXCEPT !.st = IF xc.expert THEN "expert" ELSE "next", !.in = input, !.rc = 0, !.out = <<>>,
                        !.given = input, !.ran = 0, !.failed = 0, !.was = xc.triggerEQP]
\* expertHandleSQL and expertFinish, which destroys the object whether or not the
\* text could be analysed.
ExpertSql ==
    /\ xc.st = "expert"
    /\ xc' = [xc EXCEPT !.st = "idle", !.expert = FALSE, !.in = <<>>, !.given = <<>>]

Prepare ==
    /\ xc.st = "next" /\ xc.in # <<>> /\ xc.rc = 0
    /\ xc' = CASE Stmt.kind = "bad" -> [xc EXCEPT !.rc = 1, !.ran = @ + 1, !.failed = xc.ran + 1]
               [] Stmt.kind = "none" -> [xc EXCEPT !.in = Tail(@), !.ran = @ + 1]
               [] OTHER -> [xc EXCEPT !.st = IF xc.autoEQP # AUTOEQP_off /\ Stmt.kind = "plain" THEN "plan" ELSE "run",
                                      !.pStmt = TRUE, !.cnt = 0, !.ran = @ + 1]

ShowPlanTriggers ==
    /\ xc.st = "plan"
    /\ LET s == [xc EXCEPT !.out = @ \o PlanText(Stmt.plan, <<>>)]
       IN xc' = [(IF xc.autoEQP >= AUTOEQP_full THEN ExplainAll(s, ExplainRows) ELSE s) EXCEPT
                    !.st = "run", !.triggerEQP = @ \/ xc.autoEQP >= AUTOEQP_trigger]
\* .eqp: the plan of the statement, then with "full" its program, in MODE_Explain.
\* The plans of the triggers need a setting of the connection, put back after.
ShowPlan ==
    /\ xc.st = "plan"
    /\ LET s == [xc EXCEPT !.out = @ \o PlanText(Stmt.plan, <<>>)]
       IN xc' = [(IF xc.autoEQP >= AUTOEQP_full THEN ExplainAll(s, ExplainRows) ELSE s) EXCEPT !.st = "run"]

ModeOfSticky(s) == IF s.cMode = "explain" THEN s.cMode ELSE s.mode
\* The mode of this statement; explain_data_prepare undoes MODE_Explain for what is
\* no EXPLAIN.
ModeOf(s) ==
    LET c == CASE s.autoExplain /\ s.in[1].kind = "explain" -> "explain"
               [] s.autoExplain /\ s.in[1].kind = "eqp" -> "eqp"
               [] OTHER -> s.mode
    IN IF c = "explain" /\ s.in[1].kind # "explain" THEN s.mode ELSE c
Run ==
    /\ xc.st = "run"
    /\ xc' = [xc EXCEPT !.st = "step", !.cMode = ModeOf(xc), !.left = Stmt.rows, !.nRow = 0,
                        !.indents = Stmt.kind = "explain"]

\* exec_prepared_stmt: one row.
StepRow ==
    /\ xc.st = "step" /\ xc.left > 0
    /\ LET row == IF Stmt.kind = "eqp" THEN Stmt.plan[Stmt.rows - xc.left + 1] ELSE <<>>
       IN xc' = [shell_callback(xc, row) EXCEPT !.left = @ - 1, !.nRow = @ + 1]
StepEndKeeps(ok) ==
    /\ xc.st = "step" /\ (ok => xc.left = 0)
    /\ LET s == ExecEnd(xc)
       IN xc' = [s EXCEPT !.st = "next", !.out = IF ok THEN @ \o eqp_render(s.graph) ELSE @,
                          !.graph = IF ok THEN <<>> ELSE @, !.indents = FALSE, !.pStmt = FALSE,
                          !.rc = IF ok THEN 0 ELSE 1, !.in = IF ok THEN Tail(@) ELSE @,
                          !.failed = IF ok THEN @ ELSE xc.ran]
StepEndGoesOn(ok) ==
    /\ xc.st = "step" /\ (ok => xc.left = 0)
    /\ LET s == ExecEnd(xc)
       IN xc' = [s EXCEPT !.st = "next", !.out = @ \o eqp_render(s.graph), !.graph = <<>>, !.indents = FALSE,
                          !.pStmt = FALSE, !.in = Tail(@), !.failed = IF ok THEN @ ELSE xc.ran]
\* The last step, done or failed; then explain_data_delete, eqp_render and the end
\* of the statement.
StepEnd(ok) ==
    /\ xc.st = "step" /\ (ok => xc.left = 0)
    /\ LET s == ExecEnd(xc)
       IN xc' = [s EXCEPT !.st = "next", !.out = @ \o eqp_render(s.graph), !.graph = <<>>, !.indents = FALSE,
                          !.pStmt = FALSE, !.rc = IF ok THEN 0 ELSE 1, !.in = IF ok THEN Tail(@) ELSE @,
                          !.failed = IF ok THEN @ ELSE xc.ran]
ExecDone ==
    /\ xc.st = "next" /\ (xc.in = <<>> \/ xc.rc # 0)
    /\ xc' = [xc EXCEPT !.st = "done"]
\* What was printed is not needed any more, nor is cMode, which Run sets.
Forget ==
    /\ xc.st = "done"
    /\ xc' = [xc EXCEPT !.st = "idle", !.cMode = xc.mode, !.in = <<>>, !.out = <<>>, !.given = <<>>, !.ran = 0, !.failed = 0, !.rc = 0, !.cnt = 0, !.nRow = 0]

-----------------------------------------------------------------------------
(* The commands.                                                           *)

\* Any dot command first cancels a pending .expert.
Cancelled == [xc EXCEPT !.expert = FALSE]
ModeCommand(m) == xc.st = "idle" /\ xc' = [Cancelled EXCEPT !.mode = m, !.cMode = m, !.normalMode = "list"]
Headers(b) == xc.st = "idle" /\ xc' = [Cancelled EXCEPT !.showHeader = b]
Eqp(v) == xc.st = "idle" /\ xc' = [Cancelled EXCEPT !.autoEQP = v]
ExplainOn ==
    /\ xc.st = "idle"
    /\ xc' = IF xc.mode = "explain" THEN Cancelled
             ELSE [Cancelled EXCEPT !.normalMode = xc.mode, !.mode = "explain", !.autoExplain = FALSE]
\* (normalMode is only read while the mode is MODE_Explain.)
ExplainOff(auto) ==
    /\ xc.st = "idle"
    /\ xc' = [Cancelled EXCEPT !.mode = IF @ = "explain" THEN xc.normalMode ELSE @, !.autoExplain = auto,
                               !.normalMode = "list"]
\* expertDotCommand, with an option it knows or not.
ExpertCmd(ok) == xc.st = "idle" /\ xc' = [Cancelled EXCEPT !.expert = ok]
\* .dbconfig trigger_eqp.
TriggerEqp(b) == xc.st = "idle" /\ xc' = [Cancelled EXCEPT !.triggerEQP = b]

XInit == xc = XStart
XNext ==
    \/ xc.st = "idle" /\ \E input \in Inputs : runOneSqlLine(input)
    \/ ExpertSql \/ Prepare \/ ShowPlan \/ Run \/ StepRow \/ ExecDone \/ Forget
    \/ \E ok \in BOOLEAN : StepEnd(ok)
    \/ xc.st = "idle" /\ \E m \in ExecModes : ModeCommand(m)
    \/ xc.st = "idle" /\ \E b \in BOOLEAN : Headers(b) \/ TriggerEqp(b) \/ ExpertCmd(b) \/ ExplainOff(b)
    \/ xc.st = "idle" /\ \E v \in AUTOEQP_off .. AUTOEQP_full : Eqp(v)
    \/ ExplainOn

XSpec == XInit /\ [][XNext]_xvars

-----------------------------------------------------------------------------
Done == xc.st = "done"

\* The statements run are the first ones given, in order: all of them when the
\* execution succeeds, and none after the one that fails.
StopsAtError ==
    Done => IF xc.failed = 0 THEN xc.rc = 0 /\ xc.ran = Len(xc.given) ELSE xc.rc # 0 /\ xc.ran = xc.failed

\* What was printed for statement j, from its first row to its last.
Of(j, out) == {i \in DOMAIN out : out[i].k = "row" /\ out[i].stmt = j}
RowsBefore(i, out) == IF i = 1 THEN "start" ELSE out[i - 1].k

\* The rows of a statement come out as one unit of the mode: in JSON an array whose
\* first row is opened and whose others follow a comma, in the modes with a header
\* the header before the first row and only there.  (.eqp full is left out.)
RowsFramed ==
    Done /\ xc.autoEQP # AUTOEQP_full =>
        \A j \in 0 .. Len(xc.given) :
            LET rows == Of(j, xc.out)
            IN \A i \in rows :
                LET first == \A k \in rows : i <= k
                    mode == xc.out[i].mode
                IN /\ mode = "json" => (RowsBefore(i, xc.out) = "open") = first
                   /\ mode \in Headed /\ xc.showHeader => (RowsBefore(i, xc.out) = "head") = first

\* A statement that is no EXPLAIN has its rows printed in the mode of .mode, though
\* .eqp full has just printed its program in MODE_Explain.
ModeKept ==
    Done => \A i \in DOMAIN xc.out :
        LET r == xc.out[i]
        IN r.k = "row" /\ r.mode # xc.mode =>
              xc.given[r.stmt + 1].kind = "explain" /\ r.mode = "explain"

\* The ids of the rows of a plan that are less than MaxDepth levels deep.
RECURSIVE Level(_, _, _)
Level(rows, id, depth) ==
    UNION {{r.id} \cup (IF depth < MaxDepth THEN Level(rows, r.id, depth + 1) ELSE {}) :
           r \in {q \in ToSet(rows) : q.par = id /\ ~q.title}}

\* A plan belongs to its own statement: what EXPLAIN QUERY PLAN has gathered is
\* printed with the statement, whole and once, whether or not it failed, and no row
\* of it is left for a later plan.
PlansComplete ==
    /\ xc.st \in {"idle", "next", "done"} => xc.graph = <<>>
    /\ Done /\ xc.rc = 0 /\ xc.autoExplain /\ Len(xc.given) = 1 /\ xc.given[1].kind = "eqp" =>
          LET lines == SelectSeq(xc.out, LAMBDA x : x.k = "plan")
          IN /\ {lines[i].id : i \in DOMAIN lines} = Level(xc.given[1].plan, 0, 0)
             /\ Cardinality({lines[i].id : i \in DOMAIN lines}) = Len(lines)

\* .eqp trigger and .eqp full leave SQLITE_DBCONFIG_TRIGGER_EQP as they found it.
TriggerEqpRestored == Done => xc.triggerEQP = xc.was

-----------------------------------------------------------------------------
(***************************************************************************)
(* What the shell attaches to the statements it runs: the parameters that  *)
(* .parameter keeps in temp.sqlite_parameters, and the progress handler    *)
(* that .progress installs to interrupt long statements.                   *)
(***************************************************************************)

CONSTANTS
    ParamNames,          \* the names of parameters
    Values,         \* the values, as .parameter set is given them
    TickLimits,         \* the arguments of --limit: 0 for none
    MaxTicks        \* bound on the callbacks that are counted

VARIABLES bnd       \* the settings, the statement that runs, and what was asked

bvars == <<bnd>>

Null == "null"
NoParams == [n \in ParamNames |-> Null]
\* How the text of a value compiles: as an expression, only as a quoted string, or
\* as an expression that fails when it is evaluated.
Forms == {"expression", "word", "failing"}

BStart ==
    [st |-> "idle", exists |-> FALSE, table |-> NoParams, asked |-> NoParams, bound |-> NoParams,
     defensive |-> FALSE, writable |-> FALSE, config |-> [defensive |-> FALSE, writable |-> FALSE],
     once |-> FALSE, reset |-> FALSE, limit |-> 0, mxProgress |-> 0, nProgress |-> 0, handler |-> FALSE,
     ticks |-> 0, hits |-> 0, early |-> FALSE]

-----------------------------------------------------------------------------
(* .parameter.                                                             *)

TableInitForgets(s) == [s EXCEPT !.defensive = FALSE, !.exists = TRUE]
\* The name begins with sqlite_, so DEFENSIVE is put off and WRITABLE_SCHEMA on
\* while the table is created; both are put back.
bind_table_init(s) ==
    LET inside == [s EXCEPT !.defensive = FALSE, !.writable = TRUE, !.exists = TRUE]
    IN [inside EXCEPT !.writable = s.writable, !.defensive = s.defensive]

ParameterInit == bnd.st = "idle" /\ bnd' = bind_table_init(bnd)
ParameterClear ==
    /\ bnd.st = "idle"
    /\ bnd' = [bnd EXCEPT !.exists = FALSE, !.table = NoParams, !.asked = NoParams]
\* The value is tried as it stands and else quoted; what fails only when it is
\* evaluated changes nothing.
ParameterSet(name, value, form) ==
    /\ bnd.st = "idle"
    /\ LET s == bind_table_init(bnd)
       IN bnd' = IF form = "failing" THEN s ELSE [s EXCEPT !.table[name] = value, !.asked[name] = value]
ParameterUnset(name) ==
    /\ bnd.st = "idle"
    /\ bnd' = [bnd EXCEPT !.table[name] = Null, !.asked[name] = Null]

\* .dbconfig on the two settings; and .open: the table and the handler belong to
\* the connection that is closed.
Config(d, w) ==
    /\ bnd.st = "idle"
    /\ bnd' = [bnd EXCEPT !.defensive = d, !.writable = w, !.config = [defensive |-> d, writable |-> w]]
Reopen ==
    /\ bnd.st = "idle"
    /\ bnd' = [bnd EXCEPT !.exists = FALSE, !.table = NoParams, !.asked = NoParams, !.handler = FALSE,
                          !.defensive = FALSE, !.writable = FALSE,
                          !.config = [defensive |-> FALSE, writable |-> FALSE]]

-----------------------------------------------------------------------------
(* .progress.                                                              *)

Progress(limit, once, reset, on) ==
    /\ bnd.st = "idle"
    /\ bnd' = [bnd EXCEPT !.once = once, !.reset = reset, !.limit = limit, !.mxProgress = limit, !.nProgress = 0,
                          !.handler = on, !.hits = 0]
\* A wrong option: what came before it is set, and the handler stays as it was.
ProgressUsage(limit, once, reset) ==
    /\ bnd.st = "idle"
    /\ bnd' = [bnd EXCEPT !.once = once, !.reset = reset, !.limit = limit, !.mxProgress = limit, !.nProgress = 0,
                          !.hits = 0]

-----------------------------------------------------------------------------
(* A statement: runOneSqlLine, bind_prepared_stmt, and the callbacks.      *)

bind_prepared_stmt(s) == IF s.exists THEN s.table ELSE NoParams
BindAndRun ==
    /\ bnd.st = "idle"
    /\ bnd' = [bnd EXCEPT !.st = "running", !.bound = bind_prepared_stmt(bnd), !.ticks = 0, !.early = FALSE,
                          !.nProgress = IF bnd.reset THEN 0 ELSE @]

\* A callback that reaches the limit interrupts the statement.
Reached(s) == s.nProgress + 1 >= s.mxProgress /\ s.mxProgress > 0
progress_handler_keeps(s) ==
    IF Reached(s)
    THEN [s EXCEPT !.nProgress = IF s.reset THEN 0 ELSE @ + 1, !.hits = @ + 1, !.st = "idle",
                   !.ticks = 0, !.early = s.reset /\ s.ticks + 1 < s.limit]
    ELSE [s EXCEPT !.nProgress = @ + 1, !.ticks = @ + 1]
progress_handler(s) ==
    IF Reached(s)
    THEN [s EXCEPT !.nProgress = IF s.reset THEN 0 ELSE @ + 1, !.mxProgress = IF s.once THEN 0 ELSE @,
                   !.hits = @ + 1, !.st = "idle", !.ticks = 0, !.early = s.reset /\ s.ticks + 1 < s.limit]
    ELSE [s EXCEPT !.nProgress = @ + 1, !.ticks = @ + 1]
Tick ==
    /\ bnd.st = "running" /\ bnd.handler /\ bnd.nProgress < MaxTicks /\ bnd.hits < 2
    /\ bnd' = progress_handler(bnd)
Finish == bnd.st = "running" /\ bnd' = [bnd EXCEPT !.st = "idle", !.bound = NoParams, !.ticks = 0]

BInit == bnd = BStart
BNext ==
    \/ ParameterInit \/ ParameterClear \/ Reopen \/ BindAndRun \/ Tick \/ Finish
    \/ bnd.st = "idle" /\ \E n \in ParamNames : ParameterUnset(n)
    \/ bnd.st = "idle" /\ \E n \in ParamNames : \E v \in Values : \E f \in Forms : ParameterSet(n, v, f)
    \/ bnd.st = "idle" /\ \E d, w \in BOOLEAN : Config(d, w)
    \/ bnd.st = "idle" /\ \E l \in TickLimits : \E o, r, on \in BOOLEAN : Progress(l, o, r, on)
    \/ bnd.st = "idle" /\ \E l \in TickLimits : \E o, r \in BOOLEAN : ProgressUsage(l, o, r)

BSpec == BInit /\ [][BNext]_bvars

-----------------------------------------------------------------------------
\* A statement runs with the values that were set last on this connection, NULL for
\* what was never set, unset or cleared; and no .parameter command leaves the
\* connection with other safety settings than the user gave it.
ParametersCurrent ==
    /\ bnd.st = "running" => bnd.bound = bnd.asked
    /\ bnd.defensive = bnd.config.defensive /\ bnd.writable = bnd.config.writable

\* --once: no more than one interrupt until the next .progress; --reset: an input
\* is not interrupted before it has had all its callbacks, whatever ran before.
ProgressLimits ==
    /\ bnd.once => bnd.hits <= 1
    /\ ~bnd.early
=============================================================================
