----------------------------- MODULE ShellDump -----------------------------
(***************************************************************************)
(* .dump and .clone: the two commands that carry a database elsewhere by   *)
(* reading its schema and its tables, from the end as well when a page is  *)
(* damaged.  Replay is what running the text of a dump on an empty         *)
(* database gives.                                                         *)
(***************************************************************************)
EXTENDS Integers, Sequences, SequencesExt, FiniteSets

CONSTANTS
    Databases,      \* the databases dumped: sequences of objects, in the order of sqlite_schema
    Damages,        \* positions in sqlite_schema that cannot be read: 0 for none
    Interrupts      \* whether ^C may arrive

\* An object is [name, type, kind, key, hides, rows, bad, fires].  type is "table",
\* "trigger" or "other"; kind tells the tables apart: "plain", "virtual", "auto"
\* (AUTOINCREMENT), "sequence" and "stat" (sqlite_sequence, sqlite_stat?), "sys".
\* key is "none", "alias" (INTEGER PRIMARY KEY), "desc" (INTEGER PRIMARY KEY DESC) or
\* "without" (WITHOUT ROWID); hides are the names of rowid that are columns; rows are
\* [id, val]; bad is the row that cannot be read, or 0; fires, of a trigger, its table.

VARIABLES dmp       \* the command that runs, and what it has written

dvars == <<dmp>>

Options == [rowids : BOOLEAN, dataOnly : BOOLEAN, noSys : BOOLEAN]
Normal == [rowids |-> FALSE, dataOnly |-> FALSE, noSys |-> FALSE]
Item(k, name, rows) == [k |-> k, name |-> name, rows |-> rows]

-----------------------------------------------------------------------------
(* dump_callback.                                                          *)

\* tableColumnList: the name under which the rowid is kept, or "" when it need not
\* or cannot be: an alias of the rowid has no index of origin pk.
RowidNames == <<"rowid", "_rowid_", "oid">>
RowidColumn(t, rowids) ==
    LET preserve == rowids /\ t.key # "alias"
        free == SelectSeq(RowidNames, LAMBDA n : n \notin t.hides)
    IN IF preserve /\ free # <<>> /\ t.key # "without" THEN free[1] ELSE ""

\* The rows that a scan gives before it meets the damage, from either end.
Forward(t) == IF t.bad = 0 THEN t.rows ELSE SubSeq(t.rows, 1, t.bad - 1)
Backward(t) == IF t.bad = 0 THEN t.rows ELSE Reverse(SubSeq(t.rows, t.bad + 1, Len(t.rows)))

\* INSERTs of the rows of a table; a damaged one is scanned again in the reverse
\* order, with reverse_unordered_selects.  ^C makes the scan fail.
TableRows(t, rowids, cut) ==
    LET k == IF RowidColumn(t, rowids) # "" THEN "insertrowid" ELSE "insert"
        rows == IF cut THEN <<>> ELSE IF t.bad = 0 THEN t.rows ELSE Forward(t) \o Backward(t)
    IN <<Item(k, t.name, rows)>>
TableFails(t, cut) == cut \/ t.bad # 0

System == {"sequence", "stat", "sys"}
\* The statement that comes before the rows.
Prologue(t, opt) ==
    CASE opt.dataOnly -> <<>>
      [] ~opt.dataOnly /\ t.kind = "sequence" -> <<Item("clearseq", t.name, <<>>)>>
      [] ~opt.dataOnly /\ t.kind = "stat" -> <<Item("analyze", t.name, <<>>)>>
      [] ~opt.dataOnly /\ t.kind = "virtual" -> <<Item("virtual", t.name, <<>>)>>
      [] OTHER -> <<Item("create", t.name, <<t>>)>>
\* sqlite_sequence and sqlite_stat? have their rows, unless --nosys; the other names
\* of SQLite's are left out; of a virtual table only the schema is written.
Skipped(t, opt) == t.kind = "sys" \/ (t.kind \in System /\ opt.noSys)
HasRows(t, opt) == t.kind # "virtual" \/ opt.dataOnly

dump_callback(s, t, cut) ==
    IF Skipped(t, s.opt) THEN s
    ELSE [s EXCEPT !.out = @ \o (IF t.kind = "virtual" /\ ~s.opt.dataOnly /\ ~s.writableSchema
                                 THEN <<Item("writable", "", <<>>)>> ELSE <<>>)
                              \o Prologue(t, s.opt)
                              \o IF HasRows(t, s.opt) THEN TableRows(t, s.opt.rowids, cut) ELSE <<>>,
                   !.writableSchema = @ \/ (t.kind = "virtual" /\ ~s.opt.dataOnly),
                   !.nErr = IF HasRows(t, s.opt) /\ TableFails(t, cut) THEN @ + 1 ELSE @]

-----------------------------------------------------------------------------
(* .dump.                                                                  *)

\* The tables in the order of the query: sqlite_sequence after the others.
Tables(db) == SelectSeq(db, LAMBDA t : t.type = "table")
\* (a slip that keeps the order of the schema)
SchemaOrder(db) == Tables(db)
DumpOrder(db) ==
    SelectSeq(Tables(db), LAMBDA t : t.kind # "sequence") \o SelectSeq(Tables(db), LAMBDA t : t.kind = "sequence")
Others(db) == SelectSeq(db, LAMBDA t : t.type # "table")

NoDump == [st |-> "idle"]
\* run_schema_dump_query: the query sorts, so that damage in sqlite_schema is met
\* before the first row; it is then run again with another ORDER BY after the one it
\* has, which does not compile.
RunSchemaQuery(db, damage) == IF damage = 0 THEN DumpOrder(db) ELSE <<>>

DumpStart(db, opt, damage) ==
    /\ dmp.st = "idle"
    /\ dmp' = [st |-> "dump", db |-> db, opt |-> opt, damage |-> damage, nErr |-> 0, writableSchema |-> FALSE,
               todo |-> RunSchemaQuery(db, damage), cut |-> FALSE,
               out |-> IF opt.dataOnly THEN <<>> ELSE <<Item("begin", "", <<>>)>>]
DumpTable ==
    /\ dmp.st = "dump" /\ dmp.todo # <<>>
    /\ dmp' = [dump_callback(dmp, Head(dmp.todo), FALSE) EXCEPT !.todo = Tail(@)]
\* ^C while a table is read, which stops the schema query as well; or between two
\* tables, where sqlite3_exec fails with SQLITE_INTERRUPT and nothing is counted.
DumpTableInterrupted ==
    /\ dmp.st = "dump" /\ dmp.todo # <<>> /\ Interrupts
    /\ ~Skipped(Head(dmp.todo), dmp.opt) /\ HasRows(Head(dmp.todo), dmp.opt)
    /\ dmp' = [dump_callback(dmp, Head(dmp.todo), TRUE) EXCEPT !.todo = <<>>]
DumpInterrupted ==
    /\ dmp.st = "dump" /\ dmp.todo # <<>> /\ Interrupts
    /\ dmp' = [dmp EXCEPT !.todo = <<>>, !.cut = TRUE]
\* run_table_dump_query writes the other objects, then the transaction ends; damage
\* met here is not counted either.
DumpEnd ==
    /\ dmp.st = "dump" /\ dmp.todo = <<>>
    /\ LET objects == Others(IF dmp.damage = 0 THEN dmp.db ELSE SubSeq(dmp.db, 1, dmp.damage - 1))
           extra == IF dmp.opt.dataOnly THEN <<>>
                    ELSE [j \in DOMAIN objects |-> Item("object", objects[j].name, <<objects[j]>>)]
                         \o (IF dmp.writableSchema THEN <<Item("unwritable", "", <<>>)>> ELSE <<>>)
                         \o <<Item(IF dmp.nErr > 0 THEN "rollback" ELSE "commit", "", <<>>)>>
       IN dmp' = [dmp EXCEPT !.st = "dumped", !.out = @ \o extra]

-----------------------------------------------------------------------------
(* .clone.                                                                 *)

\* tryToCloneData: backwards after a failure, which a WITHOUT ROWID table cannot.
CloneRowsOnce(t) == Forward(t)
CloneRows(t) ==
    IF t.bad = 0 THEN t.rows ELSE Forward(t) \o IF t.key = "without" THEN <<>> ELSE Backward(t)
\* tryToCloneSchema: the objects that can be read from either end of sqlite_schema.
CloneSchema(db, damage) ==
    IF damage = 0 THEN db ELSE SubSeq(db, 1, damage - 1) \o Reverse(SubSeq(db, damage + 1, Len(db)))

Clone(db, damage) ==
    /\ dmp.st = "idle"
    /\ LET seen == CloneSchema(db, damage)
           tables == Tables(seen)
           objects == SelectSeq(seen, LAMBDA t : t.type # "table")
       IN dmp' = [st |-> "cloned", db |-> db, damage |-> damage,
                  out |-> [j \in DOMAIN tables |-> Item("clone", tables[j].name, CloneRows(tables[j]))]
                          \o [j \in DOMAIN objects |-> Item("object", objects[j].name, <<objects[j]>>)]]
DumpDone == dmp.st \in {"dumped", "cloned"} /\ dmp' = NoDump

DInit == dmp = NoDump
DNext ==
    \/ dmp.st = "idle" /\ \E db \in Databases : \E opt \in Options : \E d \in Damages : DumpStart(db, opt, d)
    \/ dmp.st = "idle" /\ \E db \in Databases : \E d \in Damages : Clone(db, d)
    \/ DumpTable \/ DumpTableInterrupted \/ DumpInterrupted \/ DumpEnd \/ DumpDone

DSpec == DInit /\ [][DNext]_dvars

-----------------------------------------------------------------------------
(* Replaying a dump.  External: SQLite.                                    *)

Row(id, val) == [id |-> id, val |-> val]
Empty == [tables |-> {}, rows |-> <<>>, seq |-> <<>>, triggers |-> {}, objects |-> {}]

\* One INSERT: without a rowid the next one is taken; a trigger that exists writes a
\* row of its own; AUTOINCREMENT remembers the largest rowid.
NextId(rows, name) == Cardinality({j \in DOMAIN rows : rows[j].name = name}) + 1
Insert(r, t, row, keep) ==
    LET id == IF keep \/ t.key \in {"alias", "without"} THEN row.id ELSE NextId(r.rows, t.name)
        added == Append(r.rows, [name |-> t.name, id |-> id, val |-> row.val])
        fired == IF t.name \in r.triggers THEN Append(added, [name |-> "log", id |-> 0, val |-> 0]) ELSE added
        seq == SelectSeq(r.seq, LAMBDA q : q.val # t.name)
    IN [r EXCEPT !.rows = fired, !.seq = IF t.kind = "auto" THEN Append(seq, Row(id, t.name)) ELSE @]

RECURSIVE Inserts(_, _, _, _)
Inserts(r, t, rows, keep) ==
    IF rows = <<>> THEN r ELSE Inserts(Insert(r, t, Head(rows), keep), t, Tail(rows), keep)

TableNamed(db, name) == CHOOSE t \in ToSet(db) : t.name = name
ReplayItem(r, item, db) ==
    CASE item.k \in {"create", "virtual"} -> [r EXCEPT !.tables = @ \cup {item.name}]
      [] item.k = "clearseq" -> [r EXCEPT !.seq = <<>>]
      [] item.k \in {"insert", "insertrowid"} /\ TableNamed(db, item.name).kind = "sequence" ->
            [r EXCEPT !.seq = @ \o item.rows]
      [] item.k \in {"insert", "insertrowid"} /\ TableNamed(db, item.name).kind # "sequence" ->
            Inserts(r, TableNamed(db, item.name), item.rows, item.k = "insertrowid")
      [] item.k = "object" ->
            [r EXCEPT !.objects = @ \cup {item.name},
                      !.triggers = IF item.rows[1].type = "trigger" THEN @ \cup {item.rows[1].fires} ELSE @]
      [] item.k = "rollback" -> Empty
      [] OTHER -> r
RECURSIVE Replay(_, _, _)
Replay(r, items, db) == IF items = <<>> THEN r ELSE Replay(ReplayItem(r, Head(items), db), Tail(items), db)

-----------------------------------------------------------------------------
RowsOf(r, name) == SelectSeq(r.rows, LAMBDA x : x.name = name)
Vals(rows) == [j \in DOMAIN rows |-> rows[j].val]
Ids(rows) == [j \in DOMAIN rows |-> rows[j].id]
Restores(r) ==
    \A j \in DOMAIN dmp.db :
        LET t == dmp.db[j]
        IN CASE t.type # "table" -> t.name \in r.objects
             [] t.type = "table" /\ t.kind \in {"plain", "auto"} ->
                   /\ t.name \in r.tables
                   /\ Vals(RowsOf(r, t.name)) = Vals(t.rows)
                   /\ dmp.opt.rowids /\ ~(ToSet(RowidNames) \subseteq t.hides) => Ids(RowsOf(r, t.name)) = Ids(t.rows)
             [] t.type = "table" /\ t.kind = "sequence" -> r.seq = t.rows
             [] t.type = "table" /\ t.kind = "virtual" -> t.name \in r.tables
             [] OTHER -> TRUE

\* A dump that commits restores the database: its tables with their rows in order,
\* the rowids with --preserve-rowids, the AUTOINCREMENT counters, and the triggers
\* without having run them.  One that met an unreadable row or ^C inside a table
\* ends with "ROLLBACK; -- due to errors", and only such a one does.
DumpRestores ==
    dmp.st = "dumped" /\ ~dmp.opt.dataOnly /\ ~dmp.opt.noSys /\ dmp.damage = 0 /\ ~dmp.cut =>
        IF Last(dmp.out).k = "commit" THEN Restores(Replay(Empty, dmp.out, dmp.db))
        ELSE ~Interrupts => \E j \in DOMAIN dmp.db : dmp.db[j].bad # 0

\* .clone transfers every row that can be read from one end of its table or the
\* other, and every object likewise, and no row twice.
CloneKeepsReadable ==
    dmp.st = "cloned" =>
        \A j \in DOMAIN dmp.db :
            LET t == dmp.db[j]
                mine == SelectSeq(dmp.out, LAMBDA x : x.name = t.name)
                reach == IF t.bad = 0 THEN ToSet(t.rows)
                         ELSE {t.rows[i] : i \in {i \in DOMAIN t.rows : i < t.bad \/ (i > t.bad /\ t.key # "without")}}
            IN j # dmp.damage /\ (t.type # "table" \/ t.kind \in {"plain", "auto"}) =>
                  /\ Len(mine) = 1
                  /\ t.type = "table" => ToSet(mine[1].rows) = reach /\ Cardinality(reach) = Len(mine[1].rows)

-----------------------------------------------------------------------------
(***************************************************************************)
(* Commands that go through the schema of the open databases: .tables and  *)
(* .indexes, which list names in columns, and .sha3sum, which hashes the   *)
(* content of the tables.                                                  *)
(***************************************************************************)

CONSTANTS
    Attached,       \* what the attached databases hold, for .tables
    Likes,          \* patterns of .tables, as the names they match
    LineWidth,      \* 80
    Hashed,         \* databases to hash
    SumOptions      \* options of .sha3sum

VARIABLE lst        \* the command and what it prints

nvars == <<lst>>

ListIdle == [st |-> "idle"]

-----------------------------------------------------------------------------
(* .tables and .indexes.  An object has a type, the table it belongs to    *)
(* and, for its name, a place in the order of names and a length.          *)

Prefix(db) == IF db.name = "main" THEN 0 ELSE db.prefix
ShownName(db, o) == [name |-> <<db.name, o.id>>, rank |-> db.rank + o.rank, len |-> Prefix(db) + o.len]
\* like: the names the pattern matches.
Selects(cmd, o, like) ==
    IF cmd = "tables" THEN o.type \in {"table", "view"} /\ ~o.system /\ o.id \in like
    ELSE o.type = "index" /\ o.tbl \in like
Selected(cmd, dbs, like) ==
    LET names == FlattenSeq([i \in DOMAIN dbs |->
                    LET objs == SelectSeq(dbs[i].objects, LAMBDA o : Selects(cmd, o, like))
                    IN [k \in DOMAIN objs |-> ShownName(dbs[i], objs[k])]])
    IN SortSeq(names, LAMBDA x, y : x.rank < y.rank)

PrintRowsDown(nRow, nPrintCol) == nRow \div nPrintCol
PrintRows(nRow, nPrintCol) == (nRow + nPrintCol - 1) \div nPrintCol
\* The lines, each a sequence of names: down the columns, as many as fit.
InColumns(azResult) ==
    LET nRow == Len(azResult)
        maxlen == Max({azResult[i].len : i \in 1 .. nRow})
        nPrintCol == Max({1, LineWidth \div (maxlen + 2)})
        nPrintRow == PrintRows(nRow, nPrintCol)
    IN [i \in 1 .. nPrintRow |-> [j \in 1 .. (nRow - i) \div nPrintRow + 1 |-> azResult[i + (j - 1) * nPrintRow]]]
\* fails: the query cannot be prepared or ends with an error; nothing is shown.
ListNames(cmd, dbs, like) ==
    /\ lst.st = "idle"
    /\ \E fails \in BOOLEAN :
          LET found == Selected(cmd, dbs, like)
          IN lst' = [st |-> "listed", cmd |-> cmd, dbs |-> dbs, like |-> like, rc |-> IF fails THEN 1 ELSE 0,
                     lines |-> IF fails \/ found = <<>> THEN <<>> ELSE InColumns(found)]
ListUsage == lst.st = "idle" /\ lst' = [st |-> "usage"]
ListDone == lst.st \in {"listed", "summed", "usage"} /\ lst' = ListIdle

-----------------------------------------------------------------------------
(* .sha3sum.  A hash is what it is the hash of: the queries and the        *)
(* content that each reads.  Tables are in the order of their creation;    *)
(* rank is the order of their lower-case names.                            *)

SchemaTable == [id |-> "sqlite_schema", rank |-> 100, system |-> TRUE, content |-> "schema"]
SumTablesCreated(tables, bSchema) ==
    SelectSeq(tables, LAMBDA t : bSchema \/ ~t.system) \o (IF bSchema THEN <<SchemaTable>> ELSE <<>>)
SumTables(tables, bSchema) ==
    SortSeq(SelectSeq(tables, LAMBDA t : bSchema \/ ~t.system) \o (IF bSchema THEN <<SchemaTable>> ELSE <<>>),
            LAMBDA x, y : x.rank < y.rank)
\* The system tables that have a query; for another one the buffer still holds the
\* query before, or nothing at all.
HasQuery(t) == ~t.system \/ t.id \in {"sqlite_schema", "sqlite_sequence", "sqlite_stat1", "sqlite_stat4"}
SumQuery(s, t) ==
    LET q == IF HasQuery(t) THEN <<t>> ELSE s.sQuery
    IN [sQuery |-> q, list |-> s.list \o <<[b |-> t.id, a |-> q]>>]
\* opt.like: the names a pattern matches, if one was given: then each table has a
\* hash of its own.  A pattern that begins with sqlite_ means --schema.
SumList(db, opt) ==
    FoldLeft(SumQuery, [sQuery |-> <<>>, list |-> <<>>],
             SelectSeq(SumTables(db, opt.schema \/ opt.system), LAMBDA t : opt.separate => t.id \in opt.like)).list
\* sha3_query on a text of queries: the tables it reads and their content.
Hash(q, db) ==
    [i \in DOMAIN q |-> IF q[i].id = "sqlite_schema" THEN <<"schema", {t.id : t \in ToSet(db)}>> ELSE <<q[i].id, q[i].content>>]
Sha3sum(db, opt) ==
    LET list == SumList(db, opt)
    IN IF list = <<>> THEN <<<<"syntax error">>>>
       ELSE IF \E i \in DOMAIN list : list[i].a = <<>> THEN <<<<"no query">>>>
       ELSE IF opt.separate THEN [i \in DOMAIN list |-> <<list[i].b, Hash(list[i].a, db)>>]
       ELSE <<<<"hash", Hash(FlattenSeq([i \in DOMAIN list |-> list[i].a]), db)>>>>
\* Two databases are hashed with the same options.
SumBoth(one, two, opt) ==
    /\ lst.st = "idle"
    /\ lst' = [st |-> "summed", one |-> one, two |-> two, opt |-> opt,
               first |-> Sha3sum(one, opt), second |-> Sha3sum(two, opt)]

NInit == lst = ListIdle
NNext ==
    \/ lst.st = "idle" /\ \E cmd \in {"tables", "indexes"} : \E dbs \in Attached : \E like \in Likes : ListNames(cmd, dbs, like)
    \/ ListUsage \/ ListDone
    \/ lst.st = "idle" /\ \E one, two \in Hashed : \E opt \in SumOptions : SumBoth(one, two, opt)

NSpec == NInit /\ [][NNext]_nvars

-----------------------------------------------------------------------------
\* .tables and .indexes show every name they select once and no other, in order down
\* the columns, and no line is too wide unless a single name is.
TablesShown ==
    lst.st = "listed" /\ lst.rc = 0 =>
        LET lines == lst.lines
            cells == UNION {{<<i, j>> : j \in DOMAIN lines[i]} : i \in DOMAIN lines}
            wanted == UNION {{<<d.name, o.id>> : o \in {x \in ToSet(d.objects) : Selects(lst.cmd, x, lst.like)}} :
                                d \in ToSet(lst.dbs)}
            width == IF cells = {} THEN 0 ELSE Max({lines[c[1]][c[2]].len : c \in cells})
        IN /\ {lines[c[1]][c[2]].name : c \in cells} = wanted /\ Cardinality(cells) = Cardinality(wanted)
           /\ \A c, e \in cells : c[2] < e[2] \/ (c[2] = e[2] /\ c[1] < e[1]) =>
                 lines[c[1]][c[2]].rank < lines[e[1]][e[2]].rank
           /\ \A i \in DOMAIN lines : Len(lines[i]) = 1 \/ Len(lines[i]) * (width + 2) - 2 <= LineWidth

\* .sha3sum gives two databases the same hashes exactly when the tables it covers are
\* the same with the same content, in whatever order they were created; it fails only
\* when it covers no table.  (System tables it knows no query for are left out.)
Covered(db, opt) ==
    {<<t.id, t.content>> : t \in {x \in ToSet(db) :
        (~x.system \/ opt.schema \/ opt.system) /\ (opt.separate => x.id \in opt.like)}}
Sha3sumExact ==
    lst.st = "summed" /\ (\A t \in ToSet(lst.one) \cup ToSet(lst.two) : HasQuery(t)) =>
        LET schema == (lst.opt.schema \/ lst.opt.system) /\ (lst.opt.separate => "sqlite_schema" \in lst.opt.like)
            c1 == Covered(lst.one, lst.opt)
            c2 == Covered(lst.two, lst.opt)
        IN /\ lst.first = lst.second <=> c1 = c2 /\ (schema => {t.id : t \in ToSet(lst.one)} = {t.id : t \in ToSet(lst.two)})
           /\ lst.first = <<<<"syntax error">>>> <=> c1 = {} /\ ~schema
=============================================================================
