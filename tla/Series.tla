------------------------------- MODULE Series -------------------------------
(***************************************************************************)
(* The generate_series table-valued function of                            *)
(* mvsqlite-pgtypes-ext/series.c: the planner's seriesBestIndex, the       *)
(* cursor's seriesFilter and seriesNext, and the SQLite core as far as     *)
(* series.c relies on it (it checks what the plan does not consume, skips  *)
(* OFFSET rows the plan does not skip, and stops after LIMIT rows).        *)
(*                                                                         *)
(* A query is a sequence of constraints [col, op, usable, rhs].  The value *)
(* of rhs is null, an integer, or a float given as twice its value, so     *)
(* that halves can be told from integers.  A 64-bit integer has IntBits    *)
(* bits here and keeps its wrap-around.                                    *)
(***************************************************************************)
EXTENDS Integers, Sequences, FiniteSets, SequencesExt

CONSTANTS
    IntBits,       \* 64, the width of sqlite3_int64
    DefaultStop,   \* 0xffffffff, the stop of a series that names none
    RealGap,       \* 1024, the spacing of doubles just below 2^63
    Queries        \* the constraint lists, with their ORDER BY, to plan

VARIABLES
    query,         \* the query being run: its constraints and ORDER BY
    plan,          \* what seriesBestIndex returned
    cursor,        \* the series_cursor
    rows,          \* the rows the core has passed on so far
    skipped        \* the rows the core has skipped for OFFSET

svars == <<query, plan, cursor, rows, skipped>>

------------------------------------------------------------------------------
LARGEST_INT64  == 2^(IntBits - 1) - 1
SMALLEST_INT64 == -(2^(IntBits - 1))
U64(x) == x % 2^IntBits
I64(x) == IF U64(x) > LARGEST_INT64 THEN U64(x) - 2^IntBits ELSE U64(x)

span64(a, b) == U64(a - b)
add64(a, b) == I64(a + b)
sub64(a, b) == I64(a - b)

\* Floats are doubled: 2^63, the double nearest to LARGEST_INT64, is RealMax.
RealMax == 2 * 2^(IntBits - 1)
seriesCeil(r) == 2 * ((r + 1) \div 2)
seriesFloor(r) == 2 * (r \div 2)
seriesRealToI64(r) ==
    IF r < -(RealMax - 2 * RealGap) THEN SMALLEST_INT64
    ELSE IF r > RealMax - 2 * RealGap THEN LARGEST_INT64
    ELSE r \div 2                            \* called on integral values only

------------------------------------------------------------------------------
(***************************************************************************)
(* seriesBestIndex.  The bits of idxNum are named; argv lists the          *)
(* constraints (by position) in the order seriesFilter receives their      *)
(* values; all of them are omitted from the core's own checks.             *)
(***************************************************************************)
\* The last constraint of the list that satisfies P, 0 if there is none.
LastOf(cs, P(_)) ==
    LET S == {i \in DOMAIN cs : P(cs[i])}
    IN  IF S = {} THEN 0 ELSE CHOOSE i \in S : \A j \in S : j <= i

seriesBestIndex(q) ==
    LET cs      == q.cons
        arg(c)  == LastOf(cs, LAMBDA x : x.usable /\ x.col = c /\ x.op = "EQ")
        limit   == LastOf(cs, LAMBDA x : x.usable /\ x.col = "limit")
        offset  == LastOf(cs, LAMBDA x : x.usable /\ x.col = "offset")
        val(ops) == LastOf(cs, LAMBDA x : x.usable /\ x.col = "value" /\ x.op \in ops)
        eq      == val({"EQ"})
        lo      == IF eq # 0 THEN eq ELSE val({"GE", "GT"})
        hi      == IF eq # 0 THEN 0 ELSE val({"LE", "LT"})
        seen    == \E i \in DOMAIN cs :
                      \/ cs[i].col = "start" /\ cs[i].op = "EQ"
                      \/ cs[i].col = "value" /\ cs[i].usable /\ cs[i].op \in {"EQ", "GE", "GT"}
        unused  == \E i \in DOMAIN cs :
                      /\ cs[i].col \in {"start", "stop", "step"}
                      /\ ~cs[i].usable /\ arg(cs[i].col) = 0
        bits    == {c \in {"start", "stop", "step"} : arg(c) # 0}
                   \cup (IF limit # 0 THEN {"limit"} ELSE {})
                   \cup (IF offset # 0 THEN {"offset"} ELSE {})
                   \cup (IF eq # 0 THEN {"EQ"} ELSE IF lo # 0 THEN {cs[lo].op} ELSE {})
                   \cup (IF hi # 0 THEN {cs[hi].op} ELSE {})
        ordered == {"start", "stop"} \subseteq bits /\ q.order # "none"
        used    == <<arg("start"), arg("stop"), arg("step"), limit, offset, lo, hi>>
    IN  [rc |-> IF ~seen THEN "error" ELSE IF unused THEN "constraint" ELSE "ok",
         idxNum |-> bits \cup (IF ordered THEN {q.order} ELSE {}),
         orderByConsumed |-> ordered,
         argv |-> SelectSeq(used, LAMBDA i : i # 0)]

------------------------------------------------------------------------------
(***************************************************************************)
(* seriesFilter.  argv[k] is the value of the k-th constraint passed; Arg  *)
(* reads it at the position the code's iArg has reached for that bit.      *)
(***************************************************************************)
NoRows == [iBase |-> 0, iTerm |-> 0, iStep |-> 1, bDesc |-> FALSE,
           bDone |-> TRUE, iValue |-> 0]

\* The C code increments iArg once for each bit it finds set, in this order.
Consumed(idx) ==
    SelectSeq(<<"start", "stop", "step", "limit", "offset", "EQ", "GE", "GT", "LE", "LT">>,
              LAMBDA b : b \in idx /\ (b = "offset" => "limit" \in idx))
Arg(idx, argv, b) ==
    argv[CHOOSE k \in DOMAIN Consumed(idx) : Consumed(idx)[k] = b]

\* The smallest and the largest value that the constraints on the value
\* column allow, or no value at all.
MinBound(idx, argv) ==
    LET strict == "GT" \in idx
        v      == Arg(idx, argv, IF strict THEN "GT" ELSE "GE")
        up(x, on) == IF on THEN (IF x = LARGEST_INT64 THEN <<>> ELSE <<x + 1>>)
                     ELSE <<x>>
    IN  IF {"GE", "GT"} \cap idx = {} THEN <<SMALLEST_INT64>>
        ELSE IF ~v.float THEN up(v.n, strict)
        ELSE IF v.n <= -RealMax THEN <<SMALLEST_INT64>>
        ELSE IF v.n > RealMax THEN <<>>
        ELSE up(seriesRealToI64(seriesCeil(v.n)), strict /\ v.n = seriesCeil(v.n))

MaxBound(idx, argv) ==
    LET strict == "LT" \in idx
        v      == Arg(idx, argv, IF strict THEN "LT" ELSE "LE")
        down(x, on) == IF on THEN (IF x = SMALLEST_INT64 THEN <<>> ELSE <<x - 1>>)
                       ELSE <<x>>
    IN  IF {"LE", "LT"} \cap idx = {} THEN <<LARGEST_INT64>>
        ELSE IF ~v.float THEN down(v.n, strict)
        ELSE IF v.n >= RealMax THEN <<LARGEST_INT64>>
        ELSE IF v.n <= -RealMax THEN <<>>
        ELSE down(seriesRealToI64(seriesFloor(v.n)), strict /\ v.n = seriesFloor(v.n))

EqBound(idx, argv) ==
    LET v == Arg(idx, argv, "EQ")
    IN  IF ~v.float THEN <<v.n>>
        ELSE IF v.n = seriesCeil(v.n) /\ -RealMax <= v.n /\ v.n <= RealMax
        THEN <<seriesRealToI64(v.n)>> ELSE <<>>

\* Move iBase up (or down) to the first value of the series within the
\* bounds, and iTerm to the bound; <<>> when the series has no such value.
Narrow(c, iMin, iMax) ==
    LET near == IF ~c.bDesc
                THEN IF c.iBase < iMin
                     THEN add64(c.iBase, (span64(iMin, c.iBase) \div c.iStep) * c.iStep)
                     ELSE c.iBase
                ELSE IF c.iBase > iMax
                     THEN sub64(c.iBase, (span64(c.iBase, iMax) \div c.iStep) * c.iStep)
                     ELSE c.iBase
        short == IF ~c.bDesc THEN near < iMin ELSE near > iMax
        past  == /\ short
                 /\ IF ~c.bDesc THEN near > sub64(LARGEST_INT64, c.iStep)
                    ELSE near < add64(SMALLEST_INT64, c.iStep)
        base  == IF ~short THEN near
                 ELSE IF ~c.bDesc THEN add64(near, c.iStep) ELSE sub64(near, c.iStep)
        term  == IF ~c.bDesc THEN (IF c.iTerm > iMax THEN iMax ELSE c.iTerm)
                 ELSE IF c.iTerm < iMin THEN iMin ELSE c.iTerm
    IN  IF past THEN <<>> ELSE <<[c EXCEPT !.iBase = base, !.iTerm = term]>>

\* Mutant: iTerm stays where it is.
LastValueKept(c) == c

\* Make iTerm exactly the last value of the series.
LastValue(c) ==
    [c EXCEPT !.iTerm = IF ~c.bDesc
                        THEN sub64(@, span64(@, c.iBase) % c.iStep)
                        ELSE add64(@, span64(c.iBase, @) % c.iStep)]

Reversed(c) == [c EXCEPT !.iBase = c.iTerm, !.iTerm = c.iBase, !.bDesc = ~@]

seriesSteps(c) == IF c.bDesc THEN span64(c.iBase, c.iTerm) \div c.iStep
                  ELSE span64(c.iTerm, c.iBase) \div c.iStep

\* Mutant: an offset that leaves one row leaves none.
OffsetOffByOne(c, n) ==
    IF n <= 0 THEN <<c>>
    ELSE IF seriesSteps(c) <= n THEN <<>>
    ELSE <<[c EXCEPT !.iBase = IF c.bDesc THEN sub64(@, U64(c.iStep * n)) ELSE add64(@, U64(c.iStep * n))]>>

\* Apply OFFSET, then LIMIT, to a cursor that is in its final direction.
ApplyOffset(c, n) ==
    IF n <= 0 THEN <<c>>
    ELSE IF seriesSteps(c) < n THEN <<>>
    ELSE <<[c EXCEPT !.iBase = IF c.bDesc THEN sub64(@, U64(c.iStep * n))
                               ELSE add64(@, U64(c.iStep * n))]>>

ApplyLimit(c, n) ==
    IF n >= 0 /\ seriesSteps(c) > n
    THEN [c EXCEPT !.iTerm = add64(c.iBase, U64((n - 1) * c.iStep))] ELSE c

seriesFilter(idx, argv) ==
    LET has(b) == b \in idx
        val(b) == Arg(idx, argv, b).n
        step0  == IF has("step") THEN val("step") ELSE 1
        iOStep == IF step0 = 0 THEN 1 ELSE step0
        low    == idx \cap {"EQ", "GE", "GT"} # {}
        high   == idx \cap {"EQ", "LE", "LT"} # {}
        iOBase == IF has("start") THEN val("start")
                  ELSE IF ~has("step") /\ low THEN SMALLEST_INT64 ELSE 0
        iOTerm == IF has("stop") THEN val("stop")
                  ELSE IF ~has("step") /\ high THEN LARGEST_INT64 ELSE DefaultStop
        c0     == [iBase |-> iOBase, iTerm |-> iOTerm,
                   iStep |-> IF iOStep > 0 THEN iOStep ELSE -iOStep,
                   bDesc |-> iOStep < 0, bDone |-> FALSE, iValue |-> 0]
        wrong(c) == IF c.bDesc THEN c.iBase < c.iTerm ELSE c.iBase > c.iTerm
        mn     == IF has("EQ") THEN EqBound(idx, argv) ELSE MinBound(idx, argv)
        mx     == IF has("EQ") THEN EqBound(idx, argv) ELSE MaxBound(idx, argv)
        none   == mn = <<>> \/ mx = <<>> \/ (mn # <<>> /\ mx # <<>> /\ mn[1] > mx[1])
        c1     == IF low \/ high THEN Narrow(c0, mn[1], mx[1]) ELSE <<c0>>
        c2     == LastValue(c1[1])
        c3     == IF (has("desc") /\ ~c2.bDesc) \/ (has("asc") /\ c2.bDesc)
                  THEN Reversed(c2) ELSE c2
        c4     == IF has("limit") /\ has("offset") THEN ApplyOffset(c3, val("offset"))
                  ELSE <<c3>>
        c5     == IF has("limit") THEN ApplyLimit(c4[1], val("limit")) ELSE c4[1]
    IN  CASE \/ \E k \in DOMAIN argv : argv[k].null
             \/ wrong(c0) \/ ((low \/ high) /\ none)     -> NoRows
          [] OTHER -> IF c1 = <<>> THEN NoRows
                      ELSE IF wrong(c1[1]) \/ c4 = <<>> THEN NoRows
                      ELSE [c5 EXCEPT !.iValue = c5.iBase]

------------------------------------------------------------------------------
(***************************************************************************)
(* A query: planned, filtered, then stepped by the core until the end or   *)
(* its LIMIT.                                                              *)
(***************************************************************************)
NoQuery == [cons |-> <<>>, order |-> "idle"]
NoPlan == [rc |-> "none", idxNum |-> {}, orderByConsumed |-> FALSE, argv |-> <<>>]

SeriesInit ==
    /\ query = NoQuery /\ plan = NoPlan /\ cursor = NoRows /\ rows = <<>> /\ skipped = 0

\* xBestIndex, then xOpen and xFilter with the values of the planned terms.
Prepare(q) ==
    /\ query = NoQuery
    /\ query' = q
    /\ plan' = seriesBestIndex(q)
    /\ UNCHANGED <<cursor, rows, skipped>>

Filter ==
    /\ query # NoQuery /\ plan.rc = "ok"
    /\ cursor' = seriesFilter(plan.idxNum,
                              [k \in DOMAIN plan.argv |-> query.cons[plan.argv[k]].rhs])
    /\ plan' = [plan EXCEPT !.rc = "open"]
    /\ UNCHANGED <<query, rows, skipped>>

seriesNext(c) ==
    IF c.iValue = c.iTerm THEN [c EXCEPT !.bDone = TRUE]
    ELSE [c EXCEPT !.iValue = IF c.bDesc THEN sub64(@, c.iStep) ELSE add64(@, c.iStep)]

\* Does the value v of a row satisfy constraint c (an integer against an
\* integer or a float, compared exactly)?
Satisfies(v, c) ==
    LET x == IF c.rhs.float THEN c.rhs.n ELSE 2 * c.rhs.n
    IN  /\ ~c.rhs.null
        /\ CASE c.op = "EQ" -> 2 * v = x
             [] c.op = "GE" -> 2 * v >= x
             [] c.op = "GT" -> 2 * v > x
             [] c.op = "LE" -> 2 * v <= x
             [] c.op = "LT" -> 2 * v < x

\* What the core still has to do after the plan.
Unplanned == DOMAIN query.cons \ {plan.argv[k] : k \in DOMAIN plan.argv}
CoreKeeps(v) == \A i \in Unplanned : query.cons[i].col = "value" => Satisfies(v, query.cons[i])
Bound(col) == LET S == {i \in DOMAIN query.cons : query.cons[i].col = col}
              IN  IF S = {} THEN <<>> ELSE <<query.cons[CHOOSE i \in S : TRUE].rhs.n>>
CoreOffset == \E i \in Unplanned : query.cons[i].col = "offset"
Streams == query.order = "none" \/ plan.orderByConsumed
LimitReached == Streams /\ Bound("limit") # <<>> /\ Bound("limit")[1] >= 0
                /\ Len(rows) >= Bound("limit")[1]

\* One turn of the core's loop: xEof, xColumn (start, stop and step are
\* reported as given), the checks left to the core, then xNext.
Row ==
    /\ plan.rc = "open" /\ ~cursor.bDone /\ ~LimitReached
    /\ LET v    == cursor.iValue
           skip == CoreOffset /\ skipped < Bound("offset")[1]
       IN  IF ~CoreKeeps(v) THEN UNCHANGED <<rows, skipped>>
           ELSE IF skip THEN skipped' = skipped + 1 /\ UNCHANGED rows
           ELSE rows' = Append(rows, v) /\ UNCHANGED skipped
    /\ cursor' = seriesNext(cursor)
    /\ UNCHANGED <<query, plan>>

Finished == plan.rc = "open" /\ (cursor.bDone \/ LimitReached)

\* xClose, or the planner gives the plan up.
Close ==
    /\ Finished \/ plan.rc \in {"error", "constraint"}
    /\ query' = NoQuery /\ plan' = NoPlan /\ cursor' = NoRows /\ rows' = <<>> /\ skipped' = 0

SeriesNext == (query = NoQuery /\ \E q \in Queries : Prepare(q)) \/ Filter \/ Row \/ Close

SeriesSpec == SeriesInit /\ [][SeriesNext]_svars

------------------------------------------------------------------------------
(***************************************************************************)
(* What the query means: start, start + step, ... up to stop, those that   *)
(* satisfy every constraint on value, in order, OFFSET skipped, LIMIT kept. *)
(***************************************************************************)
Given(col) == LET S == {i \in DOMAIN query.cons : query.cons[i].col = col}
              IN  IF S = {} THEN <<>> ELSE <<query.cons[CHOOSE i \in S : \A j \in S : j <= i].rhs.n>>

Meant ==
    LET vals  == {i \in DOMAIN query.cons : query.cons[i].col = "value"}
        null  == \E i \in DOMAIN query.cons : query.cons[i].rhs.null
        given(ops) == \E i \in vals : query.cons[i].op \in ops
        step  == IF Given("step") = <<>> \/ Given("step") = <<0>> THEN 1 ELSE Given("step")[1]
        start == IF Given("start") # <<>> THEN Given("start")[1]
                 ELSE IF Given("step") = <<>> /\ given({"EQ", "GE", "GT"})
                 THEN SMALLEST_INT64 ELSE 0
        stop  == IF Given("stop") # <<>> THEN Given("stop")[1]
                 ELSE IF Given("step") = <<>> /\ given({"EQ", "LE", "LT"})
                 THEN LARGEST_INT64 ELSE DefaultStop
        S     == {v \in SMALLEST_INT64..LARGEST_INT64 :
                    /\ ~null
                    /\ IF step > 0 THEN start <= v /\ v <= stop /\ (v - start) % step = 0
                       ELSE stop <= v /\ v <= start /\ (start - v) % (-step) = 0
                    /\ \A i \in vals : Satisfies(v, query.cons[i])}
        down  == query.order = "desc" \/ (query.order = "none" /\ step < 0)
        all   == [i \in 1..Cardinality(S) |->
                    CHOOSE v \in S : Cardinality({w \in S : IF down THEN w > v ELSE w < v}) = i - 1]
        from  == IF Given("offset") = <<>> THEN 0 ELSE Given("offset")[1]
        to    == IF Given("limit") = <<>> \/ Given("limit")[1] < 0 THEN Len(all)
                 ELSE from + Given("limit")[1]
    IN  SubSeq(all, from + 1, IF to < Len(all) THEN to ELSE Len(all))

\* Every query returns the rows it means: the bounds, the value constraints
\* taken over from the core, ORDER BY, LIMIT and OFFSET together select
\* exactly the series' values (seriesFilter and seriesNext at the ends of the
\* integer range included), in order unless the core sorts them afterwards.
SeriesRowsExact ==
    Finished => IF Streams THEN rows = Meant ELSE ToSet(rows) = ToSet(Meant)

\* The assertions of seriesNext: the cursor never steps past its last value,
\* so it cannot wrap around the integer range and run for ever.
SeriesStaysInRange ==
    plan.rc = "open" /\ ~cursor.bDone =>
        IF cursor.bDesc THEN cursor.iValue >= cursor.iTerm
        ELSE cursor.iValue <= cursor.iTerm

-----------------------------------------------------------------------------
(***************************************************************************)
(* The older generate_series that shell.c registers on its own connection. *)
(* Its plan uses start, stop and step only; the SQLite core checks every   *)
(* other constraint of the query, so a query here has just those three.    *)
(* The arithmetic on values is C's signed arithmetic: ShellQueries has no  *)
(* query on which it overflows.                                            *)
(***************************************************************************)

CONSTANT ShellQueries      \* the queries of the shell's generate_series

VARIABLE scan              \* the statement: its plan, its cursor and its rows

NoScan == [st |-> "idle"]

\* x % y of C: the sign of the result is the sign of x.
CMod(x, y) == IF x >= 0 THEN x % y ELSE -((-x) % y)

------------------------------------------------------------------------------
\* EQ constraints are taken in the order start, stop, step; one that cannot
\* be used makes the plan unusable unless another one stands for it.
sh_seriesBestIndex(q) ==
    LET cs     == q.cons
        arg(c) == LastOf(cs, LAMBDA x : x.usable /\ x.col = c /\ x.op = "EQ")
        cols   == {"start", "stop", "step"}
        bits   == {c \in cols : arg(c) # 0}
        unused == {cs[i].col : i \in {j \in DOMAIN cs : cs[j].col \in cols /\ ~cs[j].usable}}
        both   == {"start", "stop"} \subseteq bits
    IN  [rc |-> IF \A i \in DOMAIN cs : cs[i].col # "start" THEN "error"
                ELSE IF ~(unused \subseteq bits) THEN "constraint" ELSE "ok",
         idxNum |-> bits \cup (IF both /\ q.order # "none" THEN {q.order} ELSE {}),
         argv |-> SelectSeq(<<arg("start"), arg("stop"), arg("step")>>, LAMBDA i : i # 0)]

\* Mutant: a descending series starts at its upper end.
FilterFromTop(idx, argv) ==
    LET val(b)  == argv[CHOOSE k \in DOMAIN argv :
                          SelectSeq(<<"start", "stop", "step">>, LAMBDA x : x \in idx)[k] = b].n
        step0   == IF "step" \in idx THEN val("step") ELSE 1
        null    == \E k \in DOMAIN argv : argv[k].null
        mn      == IF null THEN 1 ELSE IF "start" \in idx THEN val("start") ELSE 0
        mx      == IF null THEN 0 ELSE IF "stop" \in idx THEN val("stop") ELSE DefaultStop
        isDesc  == "desc" \in idx \/ (step0 < 0 /\ "asc" \notin idx)
    IN  [mn |-> mn, mx |-> mx, iStep |-> IF step0 = 0 THEN 1 ELSE IF step0 < 0 THEN -step0 ELSE step0,
         isDesc |-> isDesc, iValue |-> IF isDesc THEN mx ELSE mn]

\* xFilter: a negative step runs downwards unless ascending order is wanted;
\* a NULL leaves the empty range 1..0.
sh_seriesFilter(idx, argv) ==
    LET has(b)  == b \in idx
        val(b)  == argv[CHOOSE k \in DOMAIN argv :
                          SelectSeq(<<"start", "stop", "step">>, has)[k] = b].n
        step0   == IF has("step") THEN val("step") ELSE 1
        null    == \E k \in DOMAIN argv : argv[k].null
        mn      == IF null THEN 1 ELSE IF has("start") THEN val("start") ELSE 0
        mx      == IF null THEN 0 ELSE IF has("stop") THEN val("stop") ELSE DefaultStop
        iStep   == IF step0 = 0 THEN 1 ELSE IF step0 < 0 THEN -step0 ELSE step0
        isDesc  == has("desc") \/ (step0 < 0 /\ ~has("asc"))
    IN  [mn |-> mn, mx |-> mx, iStep |-> iStep, isDesc |-> isDesc,
         iValue |-> IF isDesc THEN mx - CMod(mx - mn, iStep) ELSE mn]

sh_seriesEof(c) == IF c.isDesc THEN c.iValue < c.mn ELSE c.iValue > c.mx

sh_seriesNext(c) == [c EXCEPT !.iValue = IF c.isDesc THEN @ - c.iStep ELSE @ + c.iStep]

------------------------------------------------------------------------------
ShellSeriesInit == scan = NoScan

ShPrepare(q) ==
    /\ scan = NoScan
    /\ LET p == sh_seriesBestIndex(q)
       IN  scan' = IF p.rc # "ok" THEN [st |-> p.rc, q |-> q]
                   ELSE [st |-> "open", q |-> q, rows |-> <<>>,
                         c |-> sh_seriesFilter(p.idxNum,
                                   [k \in DOMAIN p.argv |-> q.cons[p.argv[k]].rhs])]

\* A row: xEof, xColumn and xNext.
ShRow ==
    /\ scan.st = "open" /\ ~sh_seriesEof(scan.c)
    /\ scan' = [scan EXCEPT !.rows = Append(@, scan.c.iValue), !.c = sh_seriesNext(@)]

ShClose ==
    /\ scan.st # "idle" /\ (scan.st = "open" => sh_seriesEof(scan.c))
    /\ scan' = NoScan

ShellSeriesNext ==
    (scan = NoScan /\ \E q \in ShellQueries : ShPrepare(q)) \/ ShRow \/ ShClose

ShellSeriesSpec == ShellSeriesInit /\ [][ShellSeriesNext]_scan

------------------------------------------------------------------------------
\* The shell's generate_series returns start, start + |step|, ... up to stop,
\* backwards when it runs downwards, and nothing for an empty range.  Running
\* downwards, an empty range narrower than a step is left out: there the
\* remainder of a negative number takes the cursor back to start.
Narrower(c) == c.isDesc /\ c.mx < c.mn /\ c.mn - c.mx < c.iStep
ShellSeriesExact ==
    scan.st = "open" /\ sh_seriesEof(scan.c) /\ ~Narrower(scan.c) =>
        LET c == scan.c
            n == IF c.mx < c.mn THEN 0 ELSE (c.mx - c.mn) \div c.iStep + 1
        IN  scan.rows = [i \in 1..n |-> c.mn + c.iStep * (IF c.isDesc THEN n - i ELSE i - 1)]
=============================================================================
