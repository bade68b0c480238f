------------------------------- MODULE Expert -------------------------------
(***************************************************************************)
(* The index recommender behind the shell's .expert command: statements    *)
(* are prepared against virtual tables that record every scan, candidate   *)
(* indexes are made from the scans, given statistics, and the planner is   *)
(* asked which of them it would use.  What a statement does when it is     *)
(* prepared (the xBestIndex calls, the writes the authorizer sees) is part *)
(* of the statement.                                                       *)
(***************************************************************************)
EXTENDS Integers, Sequences, FiniteSets, SequencesExt

CONSTANTS
    Tables,         \* table |-> sequence of [iPk, zColl]
    Content,        \* table |-> its rows, sequences of column values
    UserIndexes,    \* indexes of the user's schema: sequence of [name, tab, cols]
    Triggers,       \* <<table, operation>> |-> statements its triggers run
    Buffers,        \* the texts handed to sqlite3_expert_sql: sequences of statements
    Names,          \* bound: size of the hash of an index name
    MaxTries,       \* collisions before it gives up (50)
    MaxStatements   \* bound: statements per analysis

VARIABLES
    ex,             \* the sqlite3expert object
    asked,          \* statements of the calls that returned SQLITE_OK
    smp             \* IdxSampleCtx, while a table is sampled

xvars == <<ex, asked, smp>>

SqlNullValue == 0   \* the value NULL of a column

\* struct IdxConstraint; pNext and pLink are the order of the lists.
Constraint(col, coll, desc) == [iCol |-> col, zColl |-> coll, bDesc |-> desc]

\* struct sqlite3expert
NoExpert == [st |-> "none", iSample |-> 0, pScan |-> <<>>, pStatement |-> <<>>, pWrite |-> <<>>,
             done |-> {}, bRun |-> FALSE, dbm |-> <<>>, hIdx |-> <<>>, rc |-> "OK",
             zIdx |-> <<>>, stat1 |-> <<>>, slots |-> <<>>]
NoSample == [on |-> FALSE, iTarget |-> 0, nRow |-> 0, nRet |-> 0]

\* `pCons->op & opmask' lets through more than the five comparisons: the
\* codes of the others are not single bits.
InMask(op) == op \notin {"MATCH", "LIKE"}

Recorded(t, c) == c.usable /\ c.iCol > 0 /\ ~Tables[t][c.iCol].iPk /\ InMask(c.op)

\* One xBestIndex call: a new IdxScan, its lists newest first.
expertBestIndex(call) ==
    LET listed(isEq) == Reverse(SelectSeq(call.cons,
                            LAMBDA c : Recorded(call.tab, c) /\ (c.op = "EQ") = isEq))
        cons(s) == [i \in 1 .. Len(s) |-> Constraint(s[i].iCol, s[i].zColl, FALSE)]
        order == SelectSeq(call.order, LAMBDA o : o.iCol > 0)
    IN [tab |-> call.tab, pEq |-> cons(listed(TRUE)), pRange |-> cons(listed(FALSE)),
        pOrder |-> [i \in 1 .. Len(order) |->
                        Constraint(order[i].iCol, Tables[call.tab][order[i].iCol].zColl, order[i].desc)]]

\* idxAuthCallback: a table and an operation are recorded once.
idxAuthCallback(writes, w) == IF Contains(writes, w) THEN writes ELSE <<w>> \o writes

\* Preparing one statement against the virtual tables.
PrepareOne(p, s) ==
    [p EXCEPT !.pScan = Reverse([i \in 1 .. Len(s.calls) |-> expertBestIndex(s.calls[i])]) \o @,
              !.pWrite = FoldLeft(idxAuthCallback, @, s.writes)]

\* sqlite3_expert_new, with the sample size sqlite3_expert_config makes of n.
sqlite3_expert_config(n) == IF n < 0 THEN 0 ELSE IF n > 100 THEN 100 ELSE n
sqlite3_expert_new(n) ==
    /\ ex.st = "none" /\ ~smp.on
    /\ ex' = [NoExpert EXCEPT !.st = "open", !.iSample = sqlite3_expert_config(n), !.dbm = UserIndexes]
    /\ asked' = 0
    /\ UNCHANGED smp

AddStatement(p, s) ==
    LET id == IF p.pStatement = <<>> THEN 0 ELSE p.pStatement[1].iId + 1
    IN [PrepareOne(p, s) EXCEPT !.pStatement = <<[iId |-> id, sql |-> s]>> \o @]

\* Mutant: the statements before the one that fails stay.
AddBufferKeeps(p, buf) ==
    FoldLeft(LAMBDA q, s : IF s.ok THEN AddStatement(q, s) ELSE q, p, buf)

\* sqlite3_expert_sql: a statement of the buffer that does not prepare takes
\* back what the ones before it added (not the writes they recorded).
AddBuffer(p, buf) ==
    LET n == IF \E i \in 1 .. Len(buf) : ~buf[i].ok
             THEN (CHOOSE i \in 1 .. Len(buf) : ~buf[i].ok /\ \A j \in 1 .. i - 1 : buf[j].ok) - 1
             ELSE Len(buf)
        q == FoldLeft(AddStatement, p, SubSeq(buf, 1, n))
    IN IF n = Len(buf) THEN q
       ELSE [q EXCEPT !.pScan = p.pScan, !.pStatement = p.pStatement]

sqlite3_expert_sql(buf) ==
    /\ ex.st = "open" /\ ~ex.bRun
    /\ Len(ex.pStatement) + Len(buf) <= MaxStatements
    /\ ex' = AddBuffer(ex, buf)
    /\ asked' = IF \A i \in 1 .. Len(buf) : buf[i].ok THEN asked + Len(buf) ELSE asked
    /\ UNCHANGED smp

\* idxProcessOneTrigger: the triggers of one write, in a copy of its table.
idxProcessOneTrigger(p, w) ==
    LET stmts == IF w \in DOMAIN Triggers THEN Triggers[w] ELSE <<>>
    IN [FoldLeft(PrepareOne, p, stmts) EXCEPT !.done = @ \cup {w}]

\* idxProcessTriggers: again and again over the writes that were added since.
RECURSIVE TriggerRounds(_, _)
TriggerRounds(p, seen) ==
    LET new == SubSeq(p.pWrite, 1, Len(p.pWrite) - seen)
    IN IF new = <<>> THEN p
       ELSE TriggerRounds(FoldLeft(idxProcessOneTrigger, p, new), Len(p.pWrite))
\* Mutant: one round.
TriggersOneRound(p) == FoldLeft(idxProcessOneTrigger, p, p.pWrite)

idxProcessTriggers(p) == TriggerRounds(p, 0)

Indexes(p, t) == SelectSeq(p.dbm, LAMBDA i : i.tab = t)
SameColumn(c, d) == c.iCol = d.iCol /\ c.zColl = d.zColl

\* idxFindCompatible: an index whose first columns are those of the ==
\* constraints in any order and whose next are the tail in its order.  A
\* DESC does not count.
IndexServes(idx, eq, tail) ==
    LET n == Len(eq)
    IN /\ Len(idx.cols) >= n + Len(tail)
       /\ \A i \in 1 .. n : \E j \in 1 .. n : SameColumn(idx.cols[j], eq[i])
       /\ \A i \in 1 .. Len(tail) : SameColumn(idx.cols[n + i], tail[i])
idxFindCompatible(p, t, eq, tail) ==
    \E i \in 1 .. Len(Indexes(p, t)) : IndexServes(Indexes(p, t)[i], eq, tail)

\* The hash of the columns names the index; a name that is taken is hashed
\* again, up to a limit.
HashedName(cols, k) ==
    FoldLeft(LAMBDA h, c : (h * 9 + c.iCol) % Names, 0,
             FlattenSeq([i \in 1 .. k |-> cols]))
Taken(p, n) == \E i \in 1 .. Len(p.dbm) : p.dbm[i].name = n

idxCreateFromCons(p, t, eq, tail) ==
    LET cols == eq \o tail
        free == {k \in 1 .. MaxTries : ~Taken(p, <<t, HashedName(cols, k)>>)}
        k == CHOOSE k \in free : \A j \in free : k <= j
        idx == [name |-> <<t, HashedName(cols, k)>>, tab |-> t, cols |-> cols]
    IN IF p.rc # "OK" \/ cols = <<>> \/ idxFindCompatible(p, t, eq, tail) THEN p
       ELSE IF free = {} THEN [p EXCEPT !.rc = "BUSY_TIMEOUT"]
       ELSE [p EXCEPT !.dbm = Append(@, idx), !.hIdx = Append(@, idx)]

idxFindConstraint(list, c) == \E i \in 1 .. Len(list) : list[i].iCol = c.iCol

\* The == constraints of a scan, each column once and none of the tail's.
Gathered(scan, tail) ==
    FoldLeft(LAMBDA l, c : IF idxFindConstraint(l, c) \/ idxFindConstraint(tail, c)
                           THEN l ELSE <<c>> \o l, <<>>, scan.pEq)

\* idxCreateFromWhere: one index for the == constraints and the tail; without
\* a tail, another for each range constraint.
RangeIndexes(p, scan, eq) ==
    FoldLeft(LAMBDA q, c : IF idxFindConstraint(eq, c) THEN q
                           ELSE idxCreateFromCons(q, scan.tab, eq, <<c>>), p, scan.pRange)
WhereIndexes(p, scan, eq, tail) ==
    IF tail = <<>> THEN RangeIndexes(idxCreateFromCons(p, scan.tab, eq, <<>>), scan, eq)
    ELSE idxCreateFromCons(p, scan.tab, eq, tail)
idxCreateFromWhere(p, scan, tail) == WhereIndexes(p, scan, Gathered(scan, tail), tail)

\* Mutant: the ORDER BY gets no index.
CandidatesUnordered(p, scan) == idxCreateFromWhere(p, scan, <<>>)

OrderIndex(q, scan) == IF scan.pOrder = <<>> THEN q ELSE idxCreateFromWhere(q, scan, scan.pOrder)
CandidatesOf(p, scan) == OrderIndex(idxCreateFromWhere(p, scan, <<>>), scan)
idxCreateCandidates(p) == FoldLeft(CandidatesOf, p, p.pScan)

\* Mutant: the slots keep their first values.
RememberedFirst(acc, row) ==
    [acc EXCEPT !.same = Append(@, [i \in 1 .. Len(row) |-> row[i] = acc.slots[i]])]

\* idxRemFunc: whether each column of a row IS the one of the row before; the
\* slots are not cleared between one index and the next.
Remembered(acc, row) ==
    [same |-> Append(acc.same, [i \in 1 .. Len(row) |-> row[i] = acc.slots[i]]),
     slots |-> [i \in DOMAIN acc.slots |-> IF i \in 1 .. Len(row) THEN row[i] ELSE acc.slots[i]]]

\* ORDER BY 1, 2, ...: rows that differ from the one before come first.
RowBefore(a, b) ==
    \E i \in 1 .. Len(a) : ~a[i] /\ b[i] /\ \A j \in 1 .. i - 1 : a[j] = b[j]
Differs(b, i) == \E j \in 1 .. i : ~b[j]

Projected(t, cols) ==
    [r \in 1 .. Len(Content[t]) |-> [i \in 1 .. Len(cols) |-> Content[t][r][cols[i].iCol]]]

\* The rounded number of rows per key, for each prefix of the columns.
Average(n, keys) == (n + (keys \div 2)) \div keys

\* idxPopulateOneStat1: the first row of the sorted output is not counted.
KeyCount(same, first, i) == 1 + Cardinality({r \in DOMAIN same \ {first} : Differs(same[r], i)})
StatLine(same, first, nCol) ==
    <<Len(same)>> \o [i \in 1 .. nCol |-> Average(Len(same), KeyCount(same, first, i))]
FirstSorted(same) == CHOOSE r \in DOMAIN same : \A q \in DOMAIN same : ~RowBefore(same[q], same[r])
WithStat(p, idx, acc) ==
    [p EXCEPT !.stat1 = Append(@, [idx |-> idx, before |-> p.slots,
                                   stat |-> StatLine(acc.same, FirstSorted(acc.same), Len(idx.cols))]),
              !.slots = acc.slots]
idxPopulateOneStat1(p, idx) ==
    IF Content[idx.tab] = <<>> THEN p
    ELSE WithStat(p, idx, FoldLeft(Remembered, [same |-> <<>>, slots |-> p.slots],
                                   Projected(idx.tab, idx.cols)))

MaxColumns == 4
idxPopulateStat1(p) ==
    IF p.iSample = 0 THEN p
    ELSE FoldLeft(idxPopulateOneStat1, [p EXCEPT !.slots = [i \in 1 .. MaxColumns |-> SqlNullValue]], p.dbm)

\* idxFindIndexes: of the indexes the planner uses, those that are candidates.
Scanned(s) == {s.calls[i].tab : i \in 1 .. Len(s.calls)}
idxFindIndexes(p, used) ==
    [p EXCEPT !.zIdx = [k \in 1 .. Len(p.pStatement) |->
        {i \in ToSet(p.hIdx) : i.name \in used /\ i.tab \in Scanned(p.pStatement[k].sql)}],
              !.bRun = TRUE]

\* sqlite3_expert_analyze, which an error may stop after any of its stages.
AfterStat1(p, bad, used) == IF bad = "explain" THEN [p EXCEPT !.rc = "ERROR"] ELSE idxFindIndexes(p, used)
AfterCandidates(p, bad, used) ==
    IF p.rc # "OK" THEN p
    ELSE IF bad = "stat1" THEN [p EXCEPT !.rc = "ERROR"]
    ELSE AfterStat1(idxPopulateStat1(p), bad, used)
sqlite3_expert_analyze(bad, used) ==
    /\ ex.st = "open"
    /\ ex' = [IF bad = "triggers" THEN [ex EXCEPT !.rc = "ERROR"]
              ELSE AfterCandidates(idxCreateCandidates(idxProcessTriggers(ex)), bad, used)
              EXCEPT !.st = "analyzed"]
    /\ UNCHANGED <<asked, smp>>

sqlite3_expert_count(p) == IF p.pStatement = <<>> THEN 0 ELSE p.pStatement[1].iId + 1

\* sqlite3_expert_report of the indexes for a statement.
sqlite3_expert_report(p, i) ==
    IF p.bRun /\ \E k \in 1 .. Len(p.pStatement) : p.pStatement[k].iId = i
    THEN p.zIdx[CHOOSE k \in 1 .. Len(p.pStatement) : p.pStatement[k].iId = i] ELSE {}

sqlite3_expert_destroy ==
    /\ ex.st # "none"
    /\ ex' = NoExpert /\ asked' = 0
    /\ UNCHANGED smp

\* idxBuildSampleTable begins, and idxSampleFunc is asked about a row: rnd is
\* the outcome of its throw of the dice.
idxBuildSampleTable(n) ==
    /\ ex.st = "none" /\ ~smp.on
    /\ smp' = [NoSample EXCEPT !.on = TRUE, !.iTarget = n]
    /\ UNCHANGED <<ex, asked>>
\* Mutant: chance alone decides.
SampleByChance(rnd, most) ==
    /\ smp.on /\ smp.nRow < most
    /\ smp' = [smp EXCEPT !.nRow = @ + 1, !.nRet = @ + (IF rnd THEN 1 ELSE 0)]
    /\ UNCHANGED <<ex, asked>>

idxSampleFunc(rnd, most) ==
    /\ smp.on /\ smp.nRow < most
    /\ LET bRet == smp.nRow = 0 \/ smp.nRet * 100 <= smp.iTarget * smp.nRow \/ rnd
       IN smp' = [smp EXCEPT !.nRow = @ + 1, !.nRet = @ + (IF bRet THEN 1 ELSE 0)]
    /\ UNCHANGED <<ex, asked>>
SampleDone == smp.on /\ smp' = NoSample /\ UNCHANGED <<ex, asked>>

XInit == ex = NoExpert /\ asked = 0 /\ smp = NoSample

XNext ==
    \/ \E n \in {-1, 0, 100, 101} : sqlite3_expert_new(n)
    \/ ex.st = "open" /\ \E b \in Buffers : sqlite3_expert_sql(b)
    \/ ex.st = "open" /\ \E bad \in {"none", "triggers", "stat1", "explain"},
                            used \in SUBSET {ex.dbm[i].name : i \in 1 .. Len(ex.dbm)} :
            sqlite3_expert_analyze(bad, used)
    \/ sqlite3_expert_destroy
    \/ \E n \in {0, 30, 50, 100} : idxBuildSampleTable(n)
    \/ \E rnd \in BOOLEAN : idxSampleFunc(rnd, MaxStatements + 3)
    \/ SampleDone

XSpec == XInit /\ [][XNext]_xvars

-----------------------------------------------------------------------------

\* sqlite3expert.h: "If an error does occur while processing one of the
\* statements in the buffer ... none of the statements in the buffer are added
\* to the analysis": the statements are those of the calls that succeeded,
\* numbered from 0, and before the analysis the scans are theirs alone.
ScansOf(p) == FoldLeft(LAMBDA n, s : n + Len(s.sql.calls), 0, p.pStatement)
ExpertAllOrNothing ==
    /\ Len(ex.pStatement) = asked /\ sqlite3_expert_count(ex) = asked
    /\ \A k \in 1 .. asked : ex.pStatement[k].iId = asked - k
    /\ ex.st = "open" => Len(ex.pScan) = ScansOf(ex)

\* After the analysis every write a trigger can reach has had its triggers
\* analysed, each exactly once (the loop of idxProcessTriggers ends when a
\* round adds nothing).
RECURSIVE TriggerClosure(_)
TriggerClosure(ws) ==
    LET next == ws \cup UNION {UNION {ToSet(Triggers[w][k].writes) : k \in 1 .. Len(Triggers[w])}
                                : w \in ws \cap DOMAIN Triggers}
    IN IF next = ws THEN ws ELSE TriggerClosure(next)
TriggerScans(w) == IF w \in DOMAIN Triggers
                   THEN FoldLeft(LAMBDA n, s : n + Len(s.calls), 0, Triggers[w]) ELSE 0
ExpertTriggersOnce ==
    ex.st = "analyzed" /\ ex.done # {} =>
        /\ ex.done = TriggerClosure(ToSet(ex.pWrite))
        /\ Len(ex.pScan) = ScansOf(ex) + FoldLeft(LAMBDA n, w : n + TriggerScans(w), 0, SetToSeq(ex.done))

\* A completed analysis has, for every scan, an index that serves its ==
\* constraints, them with each range, and them with the ORDER BY (if it did not
\* give up for want of a name), and never two indexes on the same columns; none
\* that is reported for a statement has the name of an index the user has.
Served(scan, tail) ==
    LET eq == Gathered(scan, tail)
    IN eq \o tail = <<>> \/ idxFindCompatible(ex, scan.tab, eq, tail)
ExpertCandidatesServe ==
    ex.bRun =>
        /\ \A k \in 1 .. Len(ex.pScan) :
              LET scan == ex.pScan[k] IN
              /\ Served(scan, <<>>) /\ Served(scan, scan.pOrder)
              /\ \A r \in 1 .. Len(scan.pRange) :
                    idxFindConstraint(scan.pEq, scan.pRange[r]) \/ Served(scan, <<scan.pRange[r]>>)
        /\ \A i \in 0 .. asked - 1 : \A x \in sqlite3_expert_report(ex, i) :
              \A k \in 1 .. Len(UserIndexes) : UserIndexes[k].name # x.name
        /\ \A i, j \in 1 .. Len(ex.dbm) :
              i < j /\ ex.dbm[i].tab = ex.dbm[j].tab /\ Len(ex.dbm[i].cols) = Len(ex.dbm[j].cols) =>
                \E c \in 1 .. Len(ex.dbm[i].cols) : ~SameColumn(ex.dbm[i].cols[c], ex.dbm[j].cols[c])

\* The averages are those of the distinct keys of the table.
KeysOf(rows, i) == Cardinality({SubSeq(rows[r], 1, i) : r \in 1 .. Len(rows)})
StatIsExact(x) ==
    LET rows == Projected(x.idx.tab, x.idx.cols)
    IN \A i \in 1 .. Len(x.idx.cols) : x.stat[i + 1] = Average(Len(rows), KeysOf(rows, i))

\* The statistics of an index are exact when its keys lie together in the
\* table and nothing the index before it left in the slots of rem() matches
\* the first row.
Grouped(rows) ==
    \A i \in 1 .. Len(rows[1]) : \A a, b \in 1 .. Len(rows) :
        a < b /\ SubSeq(rows[a], 1, i) = SubSeq(rows[b], 1, i) =>
            \A c \in a .. b : SubSeq(rows[c], 1, i) = SubSeq(rows[a], 1, i)
ExpertStatistics ==
    \A k \in 1 .. Len(ex.stat1) :
        LET x == ex.stat1[k]
            rows == Projected(x.idx.tab, x.idx.cols)
        IN Grouped(rows) /\ (\A i \in 1 .. Len(rows[1]) : rows[1][i] # x.before[i]) => StatIsExact(x)

\* A sample never falls more than a row behind its share of the table.
SampleKeepsUp == smp.nRow > 0 => smp.nRet * 100 >= smp.iTarget * (smp.nRow - 1)
\* The index expert, whole: a script is analysed completely or refused, every trigger
\* it fires is looked at once, each scan finds an index made for it, and statistics
\* and samples describe the tables.
ExpertSound ==
    ExpertAllOrNothing /\ ExpertTriggersOnce /\ ExpertCandidatesServe /\ ExpertStatistics /\ SampleKeepsUp
=============================================================================
