------------------------------- MODULE MCShell -------------------------------
(***************************************************************************)
(* The command line shell.  Each module is about one group of fields of    *)
(* ShellState and the commands that change them; a behaviour is one of     *)
(* those groups, `part'.                                                   *)
(***************************************************************************)
EXTENDS Import, ShellLines, ShellMain, ShellSession, ShellConnections, ShellTable, ShellExec, ShellDump, ShellCheck

VARIABLE part       \* the group of fields this behaviour is about

UpTo(S, n) == UNION {[1 .. k -> S] : k \in 0 .. n}

-----------------------------------------------------------------------------
(* Texts to quote and escape: short ones over everything that is treated   *)
(* specially, long ones over the pieces that escaping has to keep apart.   *)
Pieces == {<<BS, LowerN>>, <<BS, 48, 49, 50>>, <<NL>>, <<CR>>, <<BS, LowerR>>, <<BS, 48, 49, 53>>, <<SQ>>,
           <<LPAREN, BS, LowerN, 48, RPAREN>>}
MCTexts == UpTo({BS, LowerN, NL, CR, SQ, DQ, DIGIT0 + 1, 1, 200, LT, AMP}, 3)
           \cup {a \o b \o c \o d : a, b, c, d \in Pieces}
MCAskedTexts == {"sql", "escaped", "crnl", "c", "json", "html", "id", "hex"}

-----------------------------------------------------------------------------
(* .import commands, with the rows the file was written from.              *)
FA == <<97>>
FB == <<98>>
Awkward == {<<>>, FA, <<DQ>>, <<COMMA>>, <<CR>>, <<NL>>, <<DQ, COMMA>>, <<DQ, CR, NL>>, <<97, CR>>,
            <<DQ, DQ, NL>>, <<CR, DQ>>}
Csv == [rows |-> <<>>, mode |-> "csv", opt |-> "none", format |-> "csv", col |-> COMMA, end |-> <<CR, NL>>,
        cut |-> FALSE, skip |-> 0, table |-> NoTable, txn |-> FALSE, fault |-> "none"]
Existing(n, u) == [cols |-> SubSeq(<<FA, FB, <<99>>>>, 1, n), rows |-> <<>>, unique |-> u]
MCImports ==
    {[Csv EXCEPT !.rows = <<<<v, w>>, <<w, FA>>>>, !.table = Existing(2, FALSE), !.cut = c] :
        v, w \in Awkward, c \in BOOLEAN}
    \cup {[Csv EXCEPT !.rows = r, !.table = Existing(n, u), !.txn = t, !.end = e] :
            r \in {<<<<FA, FB>>, <<FB>>, <<FA, FB, FA, FB>>>>, <<<<FA>>, <<FA, FB, FA>>>>,
                   <<<<NULLVALUE>>, <<FB, NULLVALUE>>>>},
            n \in 1 .. 3, u, t \in BOOLEAN, e \in {<<NL>>, <<CR, NL>>}}
    \cup {[Csv EXCEPT !.rows = r, !.skip = k, !.fault = f] :
            r \in {<<<<FA, FB>>, <<FB, FA>>>>, <<<<FA, FA, <<97, 95, 49>>>>, <<FA, FB, FA>>>>,
                   <<<<FA, <<65>>, <<>>, <<>>>>>>, <<<<BOM \o FA, FB>>, <<FA, FB>>, <<FB, FA>>>>},
            k \in 0 .. 1, f \in {"none", "open", "select", "create", "insert"}}
    \cup {[Csv EXCEPT !.rows = <<<<v, FB>>, <<FB>>, <<FA, w>>>>, !.mode = "ascii", !.format = "ascii",
                      !.table = Existing(2, FALSE)] : v \in {<<>>, FA}, w \in {<<>>, <<CR>>, <<NL, COMMA>>}}
    \cup {[Csv EXCEPT !.rows = <<<<FA, FB>>>>, !.mode = "list", !.opt = o, !.format = o,
                      !.table = Existing(2, FALSE), !.end = <<NL>>] : o \in {"csv", "ascii"}}
    \cup {[Csv EXCEPT !.mode = "list", !.rows = <<<<FA>>>>, !.table = Existing(1, FALSE)]}

-----------------------------------------------------------------------------
(* Lines of input.                                                         *)
MCLines ==
    UpTo({"a", ";", "'", "-", "/", "*", " ", "["}, 1)
    \cup {<<"-", "-">>, <<"/", "*">>, <<"*", "/">>, <<"'", "'">>, <<"a", ";">>, <<"]", ";">>, <<" ", ";">>}
    \cup {<<".">>, <<"#">>, <<" ", ".">>, <<"g", "o">>, <<"/", " ", "-", "-", "a">>, <<"C", " ", "T", " ", "a">>,
          <<"E", ";">>, <<"a", ";", " ", "/", "*">>, <<"*", "/", ";">>, <<"'", ";", "'">>, <<"[", "'", "]", ";">>,
          <<"a", "'", "'", "a", "'">>, <<"a", ";", "-", "-", "'">>, <<"/", "*", "/", ";">>, <<"-", "-", ";">>}

-----------------------------------------------------------------------------
(* Command lines and initialization files.                                 *)
Option(o) == [opt |-> o, val |-> o, name |-> FALSE, dot |-> FALSE]
Operand(v, d) == [opt |-> "none", val |-> v, name |-> TRUE, dot |-> d]
Common == {Option(o) : o \in {"csv", "json", "cmd", "init", "separator", "bail", "readonly"}}
          \cup {Operand("a", FALSE), Operand("b", TRUE)}
Rare == {Option(o) : o \in {"header", "noheader", "nullvalue", "newline", "tabs", "maxsize", "pagecache",
            "append", "nofollow", "vfs", "batch", "interactive", "version", "echo", "what", "quote", "ascii", "line"}}
MCCommandLines ==
    UpTo(Common, 3) \cup [1 .. 2 -> Common \cup Rare]
    \cup {<<Option("pagecache"), Operand("a", FALSE), Operand("b", FALSE), Option("csv")>>,
          <<Option("maxsize"), Operand("b", FALSE), Operand("a", FALSE)>>}
MCInitFiles ==
    {[found |-> FALSE, sets |-> [mode |-> "list"], fails |-> 0]}
    \cup [found : {TRUE}, sets : {[mode |-> "box", colSeparator |-> "x"], [bail |-> FALSE]}, fails : 0 .. 1]

-----------------------------------------------------------------------------
(* What the files given to .open hold; cells, results and statements to    *)
(* lay out; statements to run, with their plans.                           *)
MCContent == [f |-> "database", g |-> "append", z |-> "other"]
MCCells ==
    {z \in UpTo({"a", "_", "tab", "nl", "u", "v"}, 5) :
        \A i \in DOMAIN z : z[i] = "v" <=> (i > 1 /\ z[i - 1] = "u")}
    \cup UpTo({"cr", "nl", "ctl", "a", "-"}, 3)
FewCells == {<<>>, <<"a">>, <<"a", "_", "a", "a">>, <<"a", "nl", "a">>}
MCResults == {<<>>} \cup {<<<<x>>, <<y>>>> : x, y \in FewCells} \cup {<<<<x, y>>, <<y, x>>>> : x, y \in FewCells}
MCStatements == {<<"a">> \o z : z \in UpTo({"a", "_", "nl", "(", ")", ",", "q"}, 4)}

Step(i, p) == [id |-> i, par |-> p, title |-> FALSE]
Title(i) == [id |-> i, par |-> 0, title |-> TRUE]
Statement(k, n, pl) == [kind |-> k, rows |-> n, plan |-> pl]
Explained == Statement("eqp", 2, <<Step(2, 0), Step(5, 2)>>)
SomeStatements ==
    {Statement("plain", 2, <<Step(1, 0), Title(2), Step(3, 0), Title(4)>>), Statement("plain", 0, <<Step(1, 0)>>),
     Statement("none", 0, <<>>), Statement("bad", 0, <<>>), Statement("explain", 2, <<>>), Explained,
     Statement("eqp", 6, <<Step(1, 0), Step(2, 1), Step(3, 2), Step(4, 3), Step(5, 1), Step(6, 0)>>)}
MCInputs == {<<s>> : s \in SomeStatements}
            \cup {<<s, t>> : s \in SomeStatements, t \in {Statement("plain", 2, <<Step(1, 0)>>), Explained}}

-----------------------------------------------------------------------------
(* Databases to dump: a table with and without an INTEGER PRIMARY KEY,     *)
(* with columns that hide the rowid, with damage at one of its rows.       *)
Rw(i, v) == [id |-> i, val |-> v]
TableOf(n, k, key, h, rs, bad) ==
    [name |-> n, type |-> "table", kind |-> k, key |-> key, hides |-> h, rows |-> rs, bad |-> bad, fires |-> ""]
Trigger == [TableOf("trg", "plain", "none", {}, <<>>, 0) EXCEPT !.type = "trigger", !.fires = "t"]
Subject == {TableOf("t", "plain", key, h, <<Rw(2, "a"), Rw(3, "b"), Rw(7, "c")>>, bad) :
              key \in {"none", "alias", "desc", "without"}, h \in {{}, {"rowid"}, {"rowid", "_rowid_", "oid"}},
              bad \in 0 .. 3}
MCDatabases ==
    {<<t, TableOf("log", "plain", "none", {}, <<>>, 0), Trigger>> : t \in Subject}
    \cup {<<t, TableOf("v", "virtual", "none", {}, <<>>, 0),
            TableOf("sqlite_sequence", "sequence", "none", {}, <<Rw(5, "s")>>, 0),
            TableOf("s", "auto", "alias", {}, <<Rw(4, "a")>>, 0),
            TableOf("sqlite_stat1", "stat", "none", {}, <<Rw(1, "x")>>, 0),
            TableOf("sqlite_other", "sys", "none", {}, <<>>, 0)>> : t \in Subject}

-----------------------------------------------------------------------------
(* Patterns of .check; rows of a SELFTEST table; schemas with two foreign  *)
(* keys; texts to edit and texts of databases.                             *)
Glob(k, z, cs) == [k |-> k, z |-> z, cs |-> cs]
OutputChars == {"a", "b", "1", "-", " "}
GlobItems ==
    {Glob("lit", <<"a">>, {"a"}), Glob("star", <<"*">>, {}), Glob("any", <<"?">>, OutputChars),
     Glob("list", <<"[", "a", "-", "b", "]">>, {"a", "b"}), Glob("list", <<"[", "^", "1", "a", "]">>, {"b", "-", " "}),
     Glob("list", <<"[", "]", "-", "]">>, {"-"}), Glob("space", <<" ">>, {}), Glob("number", <<"#">>, {})}
MCGlobs == {g \in UpTo(GlobItems, 3) : \A i \in 1 .. Len(g) - 1 : ~(g[i].k = "space" /\ g[i + 1].k = "space")}
MCOutputs == UpTo(OutputChars, 2) \cup [1 .. 3 -> {"a", "1", " "}]

MCUserTests ==
    {[tno |-> 115, op |-> "run", cmd |-> <<"integrity_check">>, ans |-> <<"ok">>],
     [tno |-> 7, op |-> "run", cmd |-> <<"table", "u">>, ans |-> <<"rows", 0>>],
     [tno |-> 119, op |-> "what", cmd |-> <<"memo">>, ans |-> <<"">>],
     [tno |-> 8, op |-> "run", cmd |-> <<"null">>, ans |-> <<"ok">>]}

Key(c, l) == [col |-> c, coll |-> l]
ForeignKey(i, c, from, p, to) == [id |-> i, child |-> c, from |-> from, parent |-> p, to |-> to]
SomeIndexes == {<<"x">>} \X {<<Key("a", "bin")>>, <<Key("a", "nocase")>>, <<Key("b", "bin"), Key("a", "bin")>>,
                             <<Key("a", "bin"), Key("c", "bin"), Key("b", "bin")>>, <<Key("a", "nocase"), Key("b", "bin")>>}
MCSchemas ==
    {[cols |-> [t \in 1 .. 3 |-> IF t = 1 THEN [c \in {"a", "b", "c"} |-> "bin"] ELSE [c \in {"k", "l"} |-> pc[t]]],
      ipk |-> <<ipk, "k", "none">>,
      fks |-> <<f, g>>,
      indexes |-> [i \in DOMAIN xs |-> [name |-> <<i>>, child |-> 1, keys |-> xs[i][2]]]] :
        pc \in {<<"bin", "bin", "nocase">>, <<"bin", "nocase", "bin">>}, ipk \in {"none", "b"},
        f \in {ForeignKey(0, 1, <<"a">>, 2, <<"k">>), ForeignKey(0, 1, <<"a", "b">>, 3, <<"k", "l">>),
               ForeignKey(0, 1, <<"a">>, 9, <<"k">>)},
        g \in {ForeignKey(1, 1, <<"b", "a">>, 2, <<"l", "k">>), ForeignKey(1, 1, <<"a">>, 3, <<"k">>)},
        xs \in {<<>>} \cup {<<x>> : x \in SomeIndexes} \cup {<<x, y>> : x, y \in SomeIndexes}}

MCEdited == UpTo({"a", "cr", "nl"}, 4)
HexSize(n, pg) == [k |-> "size", n |-> n, pg |-> pg]
HexData(n) == [k |-> "data", n |-> n, x |-> <<n + 10, n + 11>>]
HexLines == {[k |-> "page", n |-> 2], [k |-> "page", n |-> 1], HexData(0), HexData(1), HexData(2), HexData(-1),
             [k |-> "end", n |-> 0], [k |-> "other", n |-> 0]}
MCHexTexts == {<<>>} \cup {<<h>> \o t \o <<[k |-> "other", n |-> 1]>> :
                 h \in {HexSize(4, 2), HexSize(3, 4), HexSize(0, 2), HexSize(2, 3), HexSize(2, 16), [k |-> "other", n |-> 0],
                        [k |-> "end", n |-> 0]},
                 t \in UpTo(HexLines, 4)}

-----------------------------------------------------------------------------
(* Databases to list and to hash.                                          *)
NameOrder == <<"a", "b", "c", "d", "e", "f", "g">>
Object(i, type, len) == [id |-> NameOrder[i], type |-> type, tbl |-> NameOrder[i], rank |-> i, len |-> len, system |-> i = 4]
MCAttached ==
    {<<[name |-> "main", prefix |-> 0, rank |-> 10, objects |-> [i \in 1 .. n |-> Object(n + 1 - i, "table", IF i = 1 THEN w ELSE 1)]],
       [name |-> "aux", prefix |-> 3, rank |-> 0, objects |-> objs]>> :
        n \in 0 .. 7, w \in 1 .. 12,
        objs \in {<<>>, <<Object(2, "index", 1)>>, <<Object(1, "view", 2), Object(2, "index", 1), Object(5, "trigger", 1)>>}}
HashTable(i, r, sys, c) == [id |-> i, rank |-> r, system |-> sys, content |-> c]
SomeTables == {<<HashTable("t", 1, FALSE, c), HashTable("u", 2, FALSE, d)>> : c, d \in 0 .. 1}
              \cup {<<HashTable("u", 2, FALSE, d), HashTable("t", 1, FALSE, 0)>> : d \in 0 .. 1}
              \cup {<<>>, <<HashTable("u", 2, FALSE, 0)>>}
MCHashed == {h \o y : h \in SomeTables,
                      y \in {<<>>, <<HashTable("sqlite_stat3", 102, TRUE, 0)>>} \cup {<<HashTable("sqlite_sequence", 101, TRUE, c)>> : c \in 0 .. 1}}
MCSumOptions ==
    [schema : BOOLEAN, separate : {FALSE}, system : {FALSE}, like : {{}}]
    \cup [schema : BOOLEAN, separate : {TRUE}, system : {FALSE}, like : {{}, {"t"}, {"t", "u", "sqlite_schema", "sqlite_sequence"}}]
    \cup [schema : {FALSE}, separate : {TRUE}, system : {TRUE}, like : {{"sqlite_sequence", "sqlite_stat3"}}]

-----------------------------------------------------------------------------
Init ==
    /\ part \in {"text", "import", "lines", "main", "session", "connections", "table", "exec", "bind", "dump",
                 "files", "check", "list"}
    /\ TInit /\ IInit /\ LInit /\ MInit /\ SInit /\ KInit /\ YInit /\ XInit /\ BInit /\ DInit /\ GInit /\ QInit /\ NInit

Only(p) == part = p /\ UNCHANGED part

Next ==
    \/ Only("text") /\ TNext /\ UNCHANGED <<ivars, lns, mn, ses, con, lay, xc, bnd, dmp, fil, chk, lst>>
    \/ Only("import") /\ INext /\ UNCHANGED <<txt, lns, mn, ses, con, lay, xc, bnd, dmp, fil, chk, lst>>
    \/ Only("lines") /\ LNext /\ UNCHANGED <<txt, ivars, mn, ses, con, lay, xc, bnd, dmp, fil, chk, lst>>
    \/ Only("main") /\ MNext /\ UNCHANGED <<txt, ivars, lns, ses, con, lay, xc, bnd, dmp, fil, chk, lst>>
    \/ Only("session") /\ SNext /\ UNCHANGED <<txt, ivars, lns, mn, con, lay, xc, bnd, dmp, fil, chk, lst>>
    \/ Only("connections") /\ KNext /\ UNCHANGED <<txt, ivars, lns, mn, ses, lay, xc, bnd, dmp, fil, chk, lst>>
    \/ Only("table") /\ YNext /\ UNCHANGED <<txt, ivars, lns, mn, ses, con, xc, bnd, dmp, fil, chk, lst>>
    \/ Only("exec") /\ XNext /\ UNCHANGED <<txt, ivars, lns, mn, ses, con, lay, bnd, dmp, fil, chk, lst>>
    \/ Only("bind") /\ BNext /\ UNCHANGED <<txt, ivars, lns, mn, ses, con, lay, xc, dmp, fil, chk, lst>>
    \/ Only("dump") /\ DNext /\ UNCHANGED <<txt, ivars, lns, mn, ses, con, lay, xc, bnd, fil, chk, lst>>
    \/ Only("files") /\ GNext /\ UNCHANGED <<txt, ivars, lns, mn, ses, con, lay, xc, bnd, dmp, chk, lst>>
    \/ Only("check") /\ QNext /\ UNCHANGED <<txt, ivars, lns, mn, ses, con, lay, xc, bnd, dmp, fil, lst>>
    \/ Only("list") /\ NNext /\ UNCHANGED <<txt, ivars, lns, mn, ses, con, lay, xc, bnd, dmp, fil, chk>>

Spec == Init /\ [][Next]_<<part, txt, ivars, lns, mn, ses, con, lay, xc, bnd, dmp, fil, chk, lst>>
-----------------------------------------------------------------------------
(* What the parts of the shell promise together.                           *)

\* Text is faithful both ways: what the shell prints as SQL, quoted text or markup
\* reads back as the same value, an import puts the rows of its file into the table, a
\* new table has distinct column names, and no way out leaves a transaction open.
TextFaithful ==
    /\ SqlTextRoundTrip /\ EscapedOnOneLine /\ MarkupRoundTrip
    /\ ImportExact /\ ImportTransaction /\ ColumnNamesDistinct

\* Everything the shell is given is run, whole and in order: lines become statements,
\* options and commands of the command line take effect, parameters are current.
InputInOrder ==
    StatementsWhole /\ NothingWaits /\ OptionsTakeEffect /\ CommandsInOrder /\ ParametersCurrent

\* What a command changes for its own duration is as before when it has ended, also
\* when it ends early: output, display mode, the plans of triggers.
SettingsRestored == ModeRestored /\ OnceEnds /\ ModeKept /\ TriggerEqpRestored

\* An error, an interrupt or a limit stops exactly what it is meant to stop, at every
\* level of nested input, and never a later command.
StopsWhenAsked ==
    StopsEverywhere /\ StopsAtError /\ InterruptReaches /\ ImportInterrupted /\ ProgressLimits

\* Each connection has one owner, is closed once, and is what was asked for.
ConnectionsInOrder == ConnectionsOwned /\ OpenedAsAsked

\* All that is shown is shown whole, once and framed: text that is wrapped, tables,
\* statements laid out anew, rows of every mode, query plans, lists of names.
OutputComplete ==
    WrapKeepsText /\ TableShowsRows /\ PrettySameStatement /\ RowsFramed /\ PlansComplete /\ TablesShown

\* Copies are faithful or reported as failed: dumps, clones, backups, databases read
\* from hexadecimal text, values taken to an editor and back.
CopiesFaithful ==
    /\ DumpRestores /\ CloneKeepsReadable /\ EditFaithful
    /\ HexDbExact /\ HexDbResumes /\ BackupWhole /\ BackupFailsClean

\* What the shell checks is what it says: patterns of .check, self tests, the missing
\* indexes that .lint reports, and the hashes of .sha3sum.
ChecksDetect ==
    /\ GlobExact /\ SelftestDetects /\ SelftestAddsTests
    /\ LintReport /\ LintAdvice /\ Sha3sumExact
=============================================================================
