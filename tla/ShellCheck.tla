----------------------------- MODULE ShellCheck -----------------------------
(***************************************************************************)
(* What the shell checks for the user: the pattern of .check against the   *)
(* output of a test case, the SELFTEST table of .selftest, and the foreign *)
(* keys without an index that .lint fkey-indexes reports.                  *)
(***************************************************************************)
EXTENDS Integers, Sequences, SequencesExt, FiniteSets, FiniteSetsExt

CONSTANTS
    Globs,          \* patterns of .check, as sequences of items
    Outputs,        \* outputs of test cases
    UserTests,      \* rows a user may put into the SELFTEST table
    MaxChanges,     \* bound on changes of the database between the commands
    Schemas         \* schemas to lint

VARIABLE chk        \* the check and what it reports

qvars == <<chk>>

-----------------------------------------------------------------------------
(* testcase_glob: characters are strings, "end" the byte after a text.     *)

GlobSpaces == {" "}
GlobDigits == {"1", "2"}
\* The order of the characters, for ranges.
GlobOrder(c) == CHOOSE i \in 0 .. 7 : <<" ", "+", "-", "1", "2", "]", "a", "b">>[i + 1] = c

ByteAt(z, i) == IF i <= Len(z) THEN z[i] ELSE "end"
\* The first position from i on that does not hold one of cs.
SkipOver(z, i, cs) == Min({j \in i .. Len(z) + 1 : ByteAt(z, j) \notin cs})

\* [...]: does c belong to the list that begins at g?  close is its "]", if any.
RECURSIVE ListScan(_, _, _, _, _)
ListScan(zGlob, g, c, prior, seen) ==
    LET c2 == ByteAt(zGlob, g)
        to == ByteAt(zGlob, g + 1)
    IN IF c2 \in {"end", "]"} THEN [close |-> g, ok |-> c2 = "]", seen |-> seen]
       ELSE IF c2 = "-" /\ to \notin {"]", "end"} /\ prior # "end"
       THEN ListScan(zGlob, g + 2, c, "end",
                     seen \/ (GlobOrder(c) >= GlobOrder(prior) /\ GlobOrder(c) <= GlobOrder(to)))
       ELSE ListScan(zGlob, g + 1, c, c2, seen \/ c = c2)
ListMatch(zGlob, g, c) ==
    LET invert == ByteAt(zGlob, g) = "^"
        g1 == IF invert THEN g + 1 ELSE g
        first == ByteAt(zGlob, g1) = "]"
        scan == ListScan(zGlob, IF first THEN g1 + 1 ELSE g1, c, "end", first /\ c = "]")
    IN [next |-> scan.close + 1, ok |-> scan.ok /\ scan.seen # invert]

\* After "*": "?" takes a character, "[" and any other character are looked for.
StarTail(zGlob, g) == SkipOver(zGlob, g, {"*", "?"})
StarTakenNone(zGlob, g) == 0
StarTaken(zGlob, g) == Cardinality({i \in g .. StarTail(zGlob, g) - 1 : zGlob[i] = "?"})

RECURSIVE GlobFrom(_, _, _, _)
GlobFrom(zGlob, g, z, i) ==
    LET c == ByteAt(zGlob, g)
        d == ByteAt(z, i)
    IN CASE c = "end" -> SkipOver(z, i, GlobSpaces) > Len(z)
         [] c \in GlobSpaces ->
              d \in GlobSpaces /\ GlobFrom(zGlob, SkipOver(zGlob, g, GlobSpaces), z, SkipOver(z, i, GlobSpaces))
         [] c = "*" ->
              LET h == StarTail(zGlob, g + 1)
                  j == i + StarTaken(zGlob, g + 1)
              IN /\ j <= Len(z) + 1
                 /\ CASE ByteAt(zGlob, h) = "end" -> TRUE
                      [] ByteAt(zGlob, h) = "[" -> \E k \in j .. Len(z) : GlobFrom(zGlob, h, z, k)
                      [] OTHER -> \E k \in j .. Len(z) : z[k] = zGlob[h] /\ GlobFrom(zGlob, h + 1, z, k + 1)
         [] c = "?" -> d # "end" /\ GlobFrom(zGlob, g + 1, z, i + 1)
         [] c = "[" -> /\ d # "end"
                       /\ ListMatch(zGlob, g + 1, d).ok
                       /\ GlobFrom(zGlob, ListMatch(zGlob, g + 1, d).next, z, i + 1)
         [] c = "#" -> LET j == IF d \in {"-", "+"} /\ ByteAt(z, i + 1) \in GlobDigits THEN i + 1 ELSE i
                       IN ByteAt(z, j) \in GlobDigits /\ GlobFrom(zGlob, g + 1, z, SkipOver(z, j, GlobDigits))
         [] OTHER -> c = d /\ GlobFrom(zGlob, g + 1, z, i + 1)
testcase_glob(zGlob, z) == GlobFrom(zGlob, 1, z, 1)

\* .check: the text of the items is the pattern.
NoCheck == [st |-> "idle"]
CheckOutput(items, out) ==
    /\ chk.st = "idle"
    /\ chk' = [st |-> "checked", items |-> items, out |-> out,
               ret |-> testcase_glob(FlattenSeq([i \in DOMAIN items |-> items[i].z]), out)]
CheckDone == chk.st \in {"checked", "advised"} /\ chk' = NoCheck

-----------------------------------------------------------------------------
(* .selftest.  A table holds a version of its content; a hash is what it   *)
(* is the hash of.                                                         *)

\* The memo of --init has no answer, so it is never shown.
Memo(n) == [tno |-> n, op |-> "memo", cmd |-> <<"memo">>, ans |-> <<"null">>]
RunTest(n, cmd, ans) == [tno |-> n, op |-> "run", cmd |-> cmd, ans |-> ans]
SchemaOf(s) == DOMAIN s.tables \cup (IF s.exists THEN {"selftest"} ELSE {})
\* What a test command answers on the database.
Answer(s, cmd) ==
    CASE cmd[1] = "schema" -> <<"schema", SchemaOf(s)>>
      [] cmd[1] = "table" /\ cmd[2] \in DOMAIN s.tables -> <<"rows", s.tables[cmd[2]]>>
      [] cmd[1] = "integrity_check" -> <<"ok">>
      [] OTHER -> <<"error">>

SelftestNone == [st |-> "self", tables |-> [t \in {"t"} |-> 0], exists |-> FALSE, self |-> {}, temp |-> FALSE,
                 snaps |-> <<>>, inits |-> 0, asked |-> 0, user |-> FALSE, changes |-> 0,
                 ran |-> FALSE, nTest |-> 0, nErr |-> 0, rc |-> 0]
SelftestBegin == chk.st = "idle" /\ chk' = SelftestNone
\* The user's own statements between the commands.
TableChanges ==
    /\ chk.st = "self" /\ chk.changes < MaxChanges
    /\ \/ \E t \in DOMAIN chk.tables : chk' = [chk EXCEPT !.tables[t] = @ + 1, !.changes = @ + 1, !.ran = FALSE]
       \/ \E t \in {"t", "u"} \ DOMAIN chk.tables :
             chk' = [chk EXCEPT !.tables = [n \in {t} \cup DOMAIN chk.tables |-> IF n = t THEN 0 ELSE chk.tables[n]],
                                !.changes = @ + 1, !.ran = FALSE]
       \/ "u" \in DOMAIN chk.tables
          /\ chk' = [chk EXCEPT !.tables = [n \in {"t"} |-> chk.tables[n]], !.changes = @ + 1, !.ran = FALSE]
UserTestAdded(row) ==
    /\ chk.st = "self" /\ chk.changes < MaxChanges
    /\ \A r \in chk.self : r.tno # row.tno
    /\ chk' = [chk EXCEPT !.exists = TRUE, !.self = @ \cup {row}, !.user = TRUE, !.changes = @ + 1, !.ran = FALSE]

\* The generated rows, numbered on from the rows that exist.
FirstNumberNext(s) == IF s.self = {} THEN 10 ELSE Max({r.tno : r \in s.self}) \div 10
FirstNumber(s) == IF s.self = {} THEN 10 ELSE (Max({r.tno : r \in s.self}) + 100) \div 10
Generated(s) ==
    LET names == SelectSeq(<<"t", "u">>, LAMBDA t : t \in DOMAIN s.tables)
        cmds == <<<<"schema">>>> \o [i \in DOMAIN names |-> <<"table", names[i]>>] \o <<<<"integrity_check">>>>
        n == FirstNumber(s)
    IN {Memo(10 * n)} \cup {RunTest(10 * (n + i), cmds[i], Answer(s, cmds[i])) : i \in DOMAIN cmds}
CreateBeforeTable(s, upto) ==
    LET new == Generated(s) IN
    [s EXCEPT !.exists = TRUE, !.self = @ \cup new, !.snaps = Append(@, s.tables)]
\* The script runs inside a savepoint that is released whatever happens: one that is
\* interrupted keeps what it did, the temporary table as well, and that stops the next.
createSelftestTable(s, upto) ==
    LET made == [s EXCEPT !.exists = TRUE]
        new == Generated(made)
        clash == \E r \in made.self, q \in new : r.tno = q.tno
    IN IF upto = "create" \/ s.temp THEN made
       ELSE IF upto = "fill" \/ clash THEN [made EXCEPT !.temp = TRUE]
       ELSE [made EXCEPT !.self = @ \cup new, !.snaps = Append(@, s.tables), !.temp = upto = "insert"]

\* The rows in the order of tno, up to the first operation that is unknown; rows with
\* a NULL do not count, and without any row the default checks run.
Usable(r) == r.op # "null" /\ r.cmd # <<"null">> /\ r.ans # <<"null">>
TestsToRun(s) ==
    LET rows == IF s.exists THEN {r \in s.self : Usable(r)} ELSE {}
        stops == {r.tno : r \in {q \in rows : q.op \notin {"memo", "run"}}}
    IN IF rows = {} THEN {RunTest(1, <<"integrity_check">>, <<"ok">>)}
       ELSE {r \in rows : r.op = "run" /\ \A n \in stops : r.tno < n}
Unknown(s) == s.exists /\ \E r \in s.self : Usable(r) /\ r.op \notin {"memo", "run"}
Selftest(init, upto) ==
    /\ chk.st = "self" /\ (init => chk.inits < MaxChanges)
    /\ LET s == IF init THEN createSelftestTable(chk, upto) ELSE chk
           tests == TestsToRun(s)
           failed == {r \in tests : Answer(s, r.cmd) # r.ans}
           final == IF tests = {} THEN {} ELSE {r \in tests : \A q \in tests : q.tno <= r.tno}
       IN chk' = [s EXCEPT !.ran = TRUE, !.inits = IF init THEN @ + 1 ELSE @,
                           !.asked = IF init /\ ~chk.temp /\ upto \in {"insert", "end"} THEN @ + 1 ELSE @,
                           !.nTest = Cardinality(tests), !.nErr = Cardinality(failed), !.rc = IF Unknown(s) \/ final \cap failed # {} THEN 1 ELSE 0]
SelftestUsage == chk.st = "self" /\ chk' = [chk EXCEPT !.rc = 1, !.ran = FALSE]

-----------------------------------------------------------------------------
(* .lint fkey-indexes.  A schema: cols gives the collation of each column  *)
(* of a table, ipk its INTEGER PRIMARY KEY column, fks the foreign keys in *)
(* the order of their ids, indexes the indexes.                            *)

NoCollateClause(d, parent, pcol, child, ccol) == d.cols[child][ccol]
\* fkey_collate_clause: the parent's collation, if both columns exist and differ in it.
shellFkeyCollateClause(d, parent, pcol, child, ccol) ==
    IF /\ parent \in DOMAIN d.cols /\ pcol \in DOMAIN d.cols[parent]
       /\ d.cols[parent][pcol] # d.cols[child][ccol]
    THEN d.cols[parent][pcol] ELSE d.cols[child][ccol]
\* The terms of the query and the keys of the suggested index.
Terms(d, f) ==
    [i \in DOMAIN f.from |-> [col |-> f.from[i], coll |-> shellFkeyCollateClause(d, f.parent, f.to[i], f.child, f.from[i])]]

\* EXPLAIN QUERY PLAN: by rowid, else by the index whose first columns have the most terms.
TermsUsed(x, terms) ==
    Max({m \in 0 .. Len(x.keys) : \A i \in 1 .. m : \E j \in DOMAIN terms : terms[j] = x.keys[i]})
QueryPlan(d, child, terms) ==
    IF \E j \in DOMAIN terms : terms[j].col = d.ipk[child] THEN [by |-> "rowid", n |-> 1]
    ELSE [by |-> "index", n |-> Max({0} \cup {TermsUsed(x, terms) : x \in {y \in ToSet(d.indexes) : y.child = child}})]
LintMatchesAny(plan, f) == plan.by = "rowid" \/ plan.n > 0
\* The two patterns: the plan names as many terms as the key has columns, or the rowid.
LintMatches(plan, f) == plan.by = "rowid" \/ plan.n = Len(f.from)

LintOrder(d, byParent) ==
    SortSeq(d.fks, LAMBDA f, g : IF byParent /\ f.parent # g.parent THEN f.parent < g.parent
                                 ELSE f.child < g.child \/ (f.child = g.child /\ f.id < g.id))
\* One row: zPrev is the parent that was printed last, 0 for none.
LintRow(d, byParent, verbose, s, f) ==
    LET res == LintMatches(QueryPlan(d, f.child, Terms(d, f)), f)
        headed == byParent /\ (verbose \/ ~res) /\ s.zPrev # f.parent
        head == IF headed THEN <<[k |-> "parent", of |-> f.parent]>> ELSE <<>>
        line == IF ~res THEN <<[k |-> "create", of |-> f]>> ELSE IF verbose THEN <<[k |-> "served", of |-> f]>> ELSE <<>>
    IN [zPrev |-> IF headed THEN f.parent ELSE s.zPrev, out |-> s.out \o head \o line]
\* upto: a query that cannot be prepared ends the report.
lintFkeyIndexes(d, byParent, verbose, upto) ==
    FoldLeft(LAMBDA s, f : LintRow(d, byParent, verbose, s, f), [zPrev |-> 0, out |-> <<>>],
             SubSeq(LintOrder(d, byParent), 1, upto)).out
Lint(d, byParent, verbose) ==
    /\ chk.st = "idle"
    /\ \E upto \in {Len(d.fks), Len(d.fks) - 1} :
          chk' = [st |-> "linted", d |-> d, byParent |-> byParent, verbose |-> verbose, whole |-> upto = Len(d.fks),
                  out |-> lintFkeyIndexes(d, byParent, verbose, upto), took |-> <<>>]
\* The user runs one of the statements; its name is that of the table and the columns.
IndexName(f) == <<f.child, f.from>>
Advised(i) ==
    /\ chk.st = "linted"
    /\ chk.out[i].k = "create"
    /\ LET f == chk.out[i].of
           taken == \E x \in ToSet(chk.d.indexes) : x.name = IndexName(f)
           x == [name |-> IndexName(f), child |-> f.child, keys |-> Terms(chk.d, f)]
       IN chk' = [chk EXCEPT !.st = "advised", !.took = IF taken THEN <<>> ELSE <<f>>,
                             !.d.indexes = IF taken THEN @ ELSE Append(@, x)]
LintEnd == chk.st = "linted" /\ chk' = NoCheck

QInit == chk = NoCheck
QNext ==
    \/ chk.st = "idle" /\ \E items \in Globs : \E out \in Outputs : CheckOutput(items, out)
    \/ CheckDone \/ SelftestBegin \/ TableChanges \/ SelftestUsage \/ LintEnd
    \/ chk.st = "self" /\ \E row \in UserTests : UserTestAdded(row)
    \/ chk.st = "self" /\ \E init \in BOOLEAN : \E upto \in {"create", "fill", "insert", "end"} : Selftest(init, upto)
    \/ chk.st = "idle" /\ \E d \in Schemas : \E g, v \in BOOLEAN : Lint(d, g, v)
    \/ chk.st = "linted" /\ \E i \in DOMAIN chk.out : Advised(i)

QSpec == QInit /\ [][QNext]_qvars

-----------------------------------------------------------------------------
\* What the comment on testcase_glob says an item matches: the positions after it.  A
\* span of digits or of spaces is all of it if `all', else any part.
ItemEnds(item, z, all, i) ==
    LET from == IF ByteAt(z, i) \in {"-", "+"} THEN i + 1 ELSE i
        span(j, cs) == IF ByteAt(z, j) \notin cs THEN {}
                       ELSE IF all THEN {SkipOver(z, j, cs)} ELSE j + 1 .. SkipOver(z, j, cs)
    IN CASE item.k = "star" -> i .. Len(z) + 1
         [] item.k = "space" -> span(i, GlobSpaces)
         [] item.k = "number" -> span(from, GlobDigits)
         [] OTHER -> IF ByteAt(z, i) \in item.cs THEN {i + 1} ELSE {}
GlobMeans(items, z, all) ==
    \E e \in FoldLeft(LAMBDA is, item : UNION {ItemEnds(item, z, all, i) : i \in is}, {1}, items) :
        \A i \in e .. Len(z) : z[i] \in GlobSpaces

\* .check accepts every output that the pattern means when a span of spaces or digits
\* is taken whole, and none that it does not mean however spans are taken ("#" after
\* "*" excepted, which only a "#" matches).
GlobExact ==
    chk.st = "checked" =>
        LET starred == \E i, j \in DOMAIN chk.items :
                          /\ i < j /\ chk.items[i].k = "star" /\ chk.items[j].k = "number"
                          /\ \A m \in i + 1 .. j - 1 : chk.items[m].k \in {"star", "any"}
        IN /\ chk.ret => GlobMeans(chk.items, chk.out, FALSE)
           /\ GlobMeans(chk.items, chk.out, TRUE) /\ ~starred => chk.ret

\* The generated tests fail exactly when a table was changed, created or dropped since
\* a .selftest --init, however many there were and whatever was interrupted; right
\* after the first --init all of them pass.
SelftestDetects ==
    chk.st = "self" /\ chk.ran /\ ~chk.user => (chk.nErr = 0 <=> \A i \in DOMAIN chk.snaps : chk.snaps[i] = chk.tables)

\* --init never fails because of the tests that are there, and keeps them: no two rows
\* have the same number.
SelftestAddsTests ==
    chk.st = "self" => Len(chk.snaps) = chk.asked /\ \A r, q \in chk.self : r.tno = q.tno => r = q

\* An index that serves the lookup of a foreign key: its first columns are the child's
\* columns, in any order, each with the collation of the parent's column.
Serves(d, x, f) ==
    /\ x.child = f.child /\ Len(x.keys) >= Len(f.from)
    /\ LET compared(i) == IF f.parent \in DOMAIN d.cols /\ f.to[i] \in DOMAIN d.cols[f.parent]
                          THEN d.cols[f.parent][f.to[i]] ELSE d.cols[f.child][f.from[i]]
       IN {x.keys[i] : i \in DOMAIN f.from} = {[col |-> f.from[i], coll |-> compared(i)] : i \in DOMAIN f.from}
Looked(d, f) == d.ipk[f.child] \in ToSet(f.from) \/ \E x \in ToSet(d.indexes) : Serves(d, x, f)

\* The report names every foreign key whose child rows would have to be scanned for
\* and no other, each under its own parent when they are grouped.
LintReport ==
    chk.st = "linted" =>
        /\ chk.whole => \A f \in ToSet(chk.d.fks) :
              Looked(chk.d, f) <=> \A i \in DOMAIN chk.out : ~(chk.out[i].k = "create" /\ chk.out[i].of = f)
        /\ chk.byParent => \A i \in DOMAIN chk.out : chk.out[i].k # "parent" =>
              LET h == SelectLastInSubSeq(chk.out, 1, i, LAMBDA l : l.k = "parent")
              IN h > 0 /\ chk.out[h].of = chk.out[i].of.parent

\* The suggested CREATE INDEX, run, serves the foreign key it was suggested for.
LintAdvice == chk.st = "advised" => \A f \in ToSet(chk.took) : Looked(chk.d, f)
=============================================================================
