------------------------------ MODULE Import ------------------------------
(***************************************************************************)
(* The .import command: the CSV and ASCII readers, the columns of a table  *)
(* that does not exist yet, and the loop that inserts one row per line     *)
(* inside a transaction.  ^C may come between any two reads and during an  *)
(* INSERT.                                                                 *)
(***************************************************************************)
EXTENDS ShellText

CONSTANTS Imports   \* the commands, with the rows that the file was written from

VARIABLES
    imp,            \* the command being run: its ImportCtx and its loop
    tbl,            \* the table: [cols, rows, unique]
    auto            \* "auto" (no transaction), "user" or "import"

ivars == <<imp, tbl, auto>>

EOF == -1
NULLVALUE == <<-1>>
UNIT == 31
RECORD == 30
COMMA == 44
UNDERSCORE == 95
QUESTION == 63
NoTable == [cols |-> <<>>, rows |-> <<>>, unique |-> FALSE]

-----------------------------------------------------------------------------
(* Writing a file: output_csv and the two modes of shell_callback.         *)

needCsvQuote(c) == c <= SPACE \/ c \in {DQ, SQ} \/ c >= 127

CsvPlain(z, sep) == IF Has(z, sep) THEN shellIdQuote(z) ELSE z
output_csv(z, sep) ==
    CASE z = NULLVALUE -> <<>>
      [] z # NULLVALUE /\ (z = <<>> \/ Has(z, sep) \/ \E i \in 1 .. Len(z) : needCsvQuote(z[i])) ->
            shellIdQuote(z)
      [] OTHER -> z

AsciiText(z) == IF z = NULLVALUE THEN <<>> ELSE z
Line(row, col, W(_)) ==
    FlattenSeq([i \in 1 .. Len(row) |-> (IF i > 1 THEN <<col>> ELSE <<>>) \o W(row[i])])

\* The rows as MODE_Csv and MODE_Ascii write them, one line each.
CsvRow(row, col, end) == Line(row, col, LAMBDA z : output_csv(z, col)) \o end
AsciiRow(row) == Line(row, UNIT, AsciiText) \o <<RECORD>>
WrittenRows(c) ==
    FlattenSeq([k \in 1 .. Len(c.rows) |->
                  IF c.format = "ascii" THEN AsciiRow(c.rows[k]) ELSE CsvRow(c.rows[k], c.col, c.end)])
\* The last line end may be missing.
FileOf(c) ==
    LET f == WrittenRows(c) n == IF c.format = "ascii" THEN 1 ELSE Len(c.end)
    IN IF c.cut /\ Len(f) >= n THEN SubSeq(f, 1, Len(f) - n) ELSE f

-----------------------------------------------------------------------------
(* Reading a field.  A reader returns the context after the field: the     *)
(* bytes left, z (NOFIELD at the end of the file), cTerm and bNotFirst.    *)

NOFIELD == <<-2>>
Getc(in) == IF in = <<>> THEN EOF ELSE Head(in)
Rest(in) == IF in = <<>> THEN <<>> ELSE Tail(in)

\* z[] cut back to its last quote, which is the closing one.
ToLastQuote(z) ==
    SubSeq(z, 1, (CHOOSE i \in 1 .. Len(z) : z[i] = DQ /\ \A k \in i + 1 .. Len(z) : z[k] # DQ) - 1)

\* The loop of a quoted field: pc and ppc are the last two bytes, pc forgotten
\* after a doubled quote.
RECURSIVE Quoted(_, _, _, _, _)
Quoted(ctx, in, z, pc, ppc) ==
    LET c == Getc(in)
        ends == \/ c \in {ctx.cColSep, ctx.cRowSep, EOF} /\ pc = DQ
                \/ c = ctx.cRowSep /\ pc = CR /\ ppc = DQ
    IN CASE c = DQ /\ pc = DQ -> Quoted(ctx, Rest(in), z, 0, ppc)
         [] ends -> [in |-> Rest(in), z |-> ToLastQuote(z), cTerm |-> c]
         [] c = EOF /\ pc # DQ -> [in |-> <<>>, z |-> z, cTerm |-> EOF]
         [] OTHER -> Quoted(ctx, Rest(in), Append(z, c), c, pc)

RECURSIVE Plain(_, _, _)
Plain(ctx, in, z) ==
    LET c == Getc(in)
    IN CASE c \in {EOF, ctx.cColSep, ctx.cRowSep} -> [in |-> Rest(in), z |-> z, cTerm |-> c]
         [] OTHER -> Plain(ctx, Rest(in), Append(z, c))

BOM == <<239, 187, 191>>
NoCr(ctx, f) ==
    IF f.cTerm = ctx.cRowSep /\ f.z # <<>> /\ f.z[Len(f.z)] = CR
    THEN [f EXCEPT !.z = SubSeq(@, 1, Len(@) - 1)] ELSE f

RECURSIVE csv_read_one_field(_)
csv_read_one_field(ctx) ==
    CASE ctx.in = <<>> \/ ctx.seenInterrupt -> [in |-> Rest(ctx.in), z |-> NOFIELD, cTerm |-> EOF]
      [] ctx.in # <<>> /\ ~ctx.seenInterrupt /\ Head(ctx.in) = DQ ->
            Quoted(ctx, Tail(ctx.in), <<>>, 0, 0)
      [] ctx.in # <<>> /\ ~ctx.seenInterrupt /\ ~ctx.bNotFirst /\ StartsWith(ctx.in, BOM) ->
            csv_read_one_field([ctx EXCEPT !.in = SubSeq(@, 4, Len(@)), !.bNotFirst = TRUE])
      [] OTHER -> NoCr(ctx, Plain(ctx, ctx.in, <<>>))

ascii_read_one_field(ctx) ==
    IF ctx.in = <<>> \/ ctx.seenInterrupt
    THEN [in |-> Rest(ctx.in), z |-> NOFIELD, cTerm |-> EOF]
    ELSE Plain(ctx, ctx.in, <<>>)

xRead(ctx) == IF ctx.reader = "ascii" THEN ascii_read_one_field(ctx) ELSE csv_read_one_field(ctx)

-----------------------------------------------------------------------------
(* zAutoColumn: the names of the header made distinct.                     *)

NoCase(c) == IF c \in 65 .. 90 THEN c + 32 ELSE c
SameName(a, b) == Len(a) = Len(b) /\ \A i \in 1 .. Len(a) : NoCase(a[i]) = NoCase(b[i])
HasDupes(ns) == \E i \in 1 .. Len(ns) : \E j \in 1 .. i - 1 : SameName(ns[i], ns[j])
Repeated(ns, i) == \E j \in (1 .. Len(ns)) \ {i} : SameName(ns[i], ns[j])

Zeros(n) == [k \in 1 .. n |-> DIGIT0]
Padded(i, digits) ==
    LET d == Decimals(i) IN IF Len(d) < digits THEN Zeros(digits - Len(d)) \o d ELSE d
Suffixed(ns, digits, nlz) ==
    [i \in 1 .. Len(ns) |->
       IF Repeated(ns, i) THEN ns[i] \o <<UNDERSCORE>> \o Zeros(nlz) \o Padded(i, digits) ELSE ns[i]]

\* As many leading zeros as it takes for the names to differ: the names are
\* compared with nDigits digits, and given with as many as the number has.
NoLeadingZeros(ns) == IF HasDupes(ns) THEN Suffixed(ns, 1, 0) ELSE ns
zAutoColumn(ns) ==
    LET nDigits == Len(Decimals(Len(ns)))
        Lzn == CHOOSE n \in 0 .. Len(ns) + 1 :
                  /\ ~HasDupes(Suffixed(ns, nDigits, n))
                  /\ \A k \in 0 .. n - 1 : HasDupes(Suffixed(ns, nDigits, k))
    IN IF HasDupes(ns) THEN Suffixed(ns, 1, Lzn) ELSE ns

ColName(z) == IF z = <<>> THEN <<QUESTION>> ELSE z

-----------------------------------------------------------------------------
(* The command.                                                            *)

NoImport == [st |-> "idle"]
Importing == imp.st # "idle"

\* The separators: of the options, else of the output mode; the CSV line end
\* CRLF becomes the one that is read.
Separators(c) ==
    LET end == IF c.mode = "csv" /\ c.end = <<CR, NL>> THEN <<NL>> ELSE c.end
    IN CASE c.opt = "csv" -> [ok |-> TRUE, col |-> COMMA, row |-> NL, reader |-> "csv"]
         [] c.opt = "ascii" -> [ok |-> TRUE, col |-> UNIT, row |-> RECORD, reader |-> "ascii"]
         [] c.opt = "none" /\ c.mode = "ascii" ->
               [ok |-> TRUE, col |-> UNIT, row |-> RECORD, reader |-> "ascii"]
         [] OTHER -> [ok |-> Len(end) = 1, col |-> c.col, row |-> Head(end), reader |-> "csv"]

\* The command up to the first read.  The table and the transaction are those
\* of the moment it is given.
ImportStart(c) ==
    /\ ~Importing
    /\ tbl' = c.table
    /\ auto' = IF c.txn THEN "user" ELSE "auto"
    /\ LET s == Separators(c)
           ok == s.ok /\ c.fault # "open"
       IN imp' = [st |-> IF ok THEN "skip" ELSE "done", cmd |-> c, rc |-> IF ok THEN 0 ELSE 1,
                  in |-> FileOf(c), cColSep |-> s.col, cRowSep |-> s.row, reader |-> s.reader,
                  seenInterrupt |-> FALSE, bNotFirst |-> FALSE, cTerm |-> 0, nSkip |-> c.skip,
                  hdr |-> <<>>, row |-> [k \in 1 .. Len(c.table.cols) |-> NULLVALUE], i |-> 0,
                  begin |-> <<>>, nRow |-> 0, nErr |-> 0, rolled |-> FALSE]

\* The context after a read.
Advance(f) == [imp EXCEPT !.in = f.in, !.cTerm = f.cTerm, !.bNotFirst = TRUE]

Fail == imp' = [imp EXCEPT !.st = "done", !.rc = 1]

SkipField ==
    /\ imp.st = "skip" /\ imp.nSkip > 0
    /\ LET f == xRead(imp)
       IN imp' = [Advance(f) EXCEPT !.nSkip =
                     IF f.z # NOFIELD /\ f.cTerm = imp.cColSep THEN @ ELSE @ - 1]
    /\ UNCHANGED <<tbl, auto>>

\* SELECT * FROM the table.
PrepareSelect ==
    /\ imp.st = "skip" /\ imp.nSkip = 0
    /\ IF imp.cmd.fault = "select" THEN Fail
       ELSE imp' = [imp EXCEPT !.st = IF tbl = NoTable THEN "header" ELSE "begin"]
    /\ UNCHANGED <<tbl, auto>>

HeaderField ==
    /\ imp.st = "header"
    /\ LET f == xRead(imp)
       IN imp' = [Advance(f) EXCEPT
                    !.hdr = IF f.z = NOFIELD THEN @ ELSE Append(@, ColName(f.z)),
                    !.st = IF f.z # NOFIELD /\ f.cTerm = imp.cColSep THEN "header" ELSE "create"]
    /\ UNCHANGED <<tbl, auto>>

CreateTable ==
    /\ imp.st = "create"
    /\ IF imp.hdr = <<>> \/ imp.cmd.fault = "create" THEN Fail /\ UNCHANGED tbl
       ELSE /\ tbl' = [tbl EXCEPT !.cols = zAutoColumn(imp.hdr)]
            /\ imp' = [imp EXCEPT !.st = "begin", !.row = [k \in 1 .. Len(imp.hdr) |-> NULLVALUE]]
    /\ UNCHANGED auto

BeginRows ==
    /\ imp.st = "begin"
    /\ IF imp.cmd.fault = "insert" THEN Fail /\ UNCHANGED auto
       ELSE /\ auto' = IF auto = "auto" THEN "import" ELSE auto
            /\ imp' = [imp EXCEPT !.st = "row", !.begin = tbl.rows]
    /\ UNCHANGED tbl

nCol == Len(tbl.cols)

\* After the columns: the extra ones, the INSERT, the next line or the end.
AfterRow(m) ==
    CASE m.cTerm = m.cColSep -> [m EXCEPT !.st = "extra"]
      [] m.cTerm # m.cColSep /\ m.i >= nCol -> [m EXCEPT !.st = "insert"]
      [] m.cTerm # m.cColSep /\ m.i < nCol /\ m.cTerm # EOF -> [m EXCEPT !.st = "row", !.i = 0]
      [] OTHER -> [m EXCEPT !.st = "end"]

Bound(z) == IF z = NOFIELD THEN NULLVALUE ELSE z
ReadFieldStale ==
    /\ imp.st = "row"
    /\ LET f == xRead(imp)
           n == imp.i + 1
           m == [Advance(f) EXCEPT !.row[n] = Bound(f.z), !.i = n]
       IN imp' = CASE f.z = NOFIELD /\ imp.i = 0 -> AfterRow(Advance(f))
                   [] ~(f.z = NOFIELD /\ imp.i = 0) /\ n < nCol /\ f.cTerm = imp.cColSep -> m
                   [] OTHER -> AfterRow([m EXCEPT !.i = nCol])
    /\ UNCHANGED <<tbl, auto>>
ReadField ==
    /\ imp.st = "row"
    /\ LET f == xRead(imp)
           n == imp.i + 1
           none == f.z = NOFIELD \/ (imp.cmd.mode = "ascii" /\ f.z = <<>>)
           m == [Advance(f) EXCEPT !.row[n] = Bound(f.z), !.i = n]
       IN imp' = CASE none /\ imp.i = 0 -> AfterRow(Advance(f))
                   [] ~(none /\ imp.i = 0) /\ n < nCol /\ f.cTerm # imp.cColSep ->
                         AfterRow([m EXCEPT !.row = [k \in 1 .. nCol |-> IF k > n THEN NULLVALUE ELSE m.row[k]],
                                            !.i = nCol + 2])
                   [] ~(none /\ imp.i = 0) /\ n < nCol /\ f.cTerm = imp.cColSep -> m
                   [] OTHER -> AfterRow(m)
    /\ UNCHANGED <<tbl, auto>>

ReadExtra ==
    /\ imp.st = "extra"
    /\ imp' = AfterRow([Advance(xRead(imp)) EXCEPT !.i = @ + 1])
    /\ UNCHANGED <<tbl, auto>>

NextLine(m) == IF m.cTerm = EOF THEN [m EXCEPT !.st = "end"] ELSE [m EXCEPT !.st = "row", !.i = 0]
Refused(t, row) == t.unique /\ \E k \in 1 .. Len(t.rows) : t.rows[k][1] = row[1]

InsertRow ==
    /\ imp.st = "insert"
    /\ IF Refused(tbl, imp.row)
       THEN imp' = NextLine([imp EXCEPT !.nErr = @ + 1]) /\ UNCHANGED tbl
       ELSE /\ imp' = NextLine([imp EXCEPT !.nRow = @ + 1])
            /\ tbl' = [tbl EXCEPT !.rows = Append(@, imp.row)]
    /\ UNCHANGED auto

\* ^C while the INSERT runs: sqlite3_interrupt makes it fail, and SQLite rolls
\* back the transaction it is in.
InsertInterrupted ==
    /\ imp.st = "insert" /\ ~imp.seenInterrupt
    /\ imp' = NextLine([imp EXCEPT !.seenInterrupt = TRUE, !.nErr = @ + 1, !.rolled = TRUE])
    /\ tbl' = [tbl EXCEPT !.rows = imp.begin]
    /\ auto' = "auto"

\* ^C at any other time only sets the flag that the readers look at.
Interrupt ==
    /\ imp.st \in {"skip", "header", "create", "begin", "row", "extra", "end"} /\ ~imp.seenInterrupt
    /\ imp' = [imp EXCEPT !.seenInterrupt = TRUE]
    /\ UNCHANGED <<tbl, auto>>

\* COMMIT, when the command began the transaction (and SQLite did not end it).
ImportEndOpen == imp.st = "end" /\ imp' = [imp EXCEPT !.st = "done"] /\ UNCHANGED <<tbl, auto>>
ImportEnd ==
    /\ imp.st = "end"
    /\ imp' = [imp EXCEPT !.st = "done"]
    /\ auto' = IF auto = "import" THEN "auto" ELSE auto
    /\ UNCHANGED tbl

ImportClose ==
    /\ imp.st = "done"
    /\ imp' = NoImport /\ tbl' = NoTable /\ auto' = "auto"

IInit == imp = NoImport /\ tbl = NoTable /\ auto = "auto"
INext ==
    \/ ~Importing /\ \E c \in Imports : ImportStart(c)
    \/ SkipField \/ PrepareSelect \/ HeaderField \/ CreateTable \/ BeginRows
    \/ ReadField \/ ReadExtra \/ InsertRow \/ InsertInterrupted \/ Interrupt
    \/ ImportEnd \/ ImportClose

ISpec == IInit /\ [][INext]_ivars

-----------------------------------------------------------------------------
\* Reference: what rows become in a table of n columns.
Given(c) == SubSeq(c.rows, c.skip + (IF c.table = NoTable THEN 2 ELSE 1), Len(c.rows))
Text(z) == IF z = NULLVALUE THEN <<>> ELSE z
Fit(row, n) == [k \in 1 .. n |-> IF k <= Len(row) THEN Text(row[k]) ELSE NULLVALUE]
RECURSIVE Imported(_, _, _)
Imported(c, t, rows) ==
    IF rows = <<>> THEN t.rows
    ELSE LET r == Fit(Head(rows), Len(t.cols))
         IN IF Refused(t, r) \/ (c.mode = "ascii" /\ r[1] = <<>>) THEN Imported(c, t, Tail(rows))
            ELSE Imported(c, [t EXCEPT !.rows = Append(@, r)], Tail(rows))
Before == [tbl EXCEPT !.rows = <<>>]
Finished == imp.st = "done" /\ imp.rc = 0

\* What MODE_Csv or MODE_Ascii wrote, .import reads back: every row once and in
\* order, short rows filled with NULL and long ones cut, whatever quotes,
\* separators and line ends the values hold, whether or not the last line ends.
ImportExact ==
    Finished /\ ~imp.seenInterrupt => tbl.rows = Imported(imp.cmd, Before, Given(imp.cmd))

\* ^C leaves the rows of a prefix of the file, of which only the last may be
\* cut short by NULLs, or, when it hits an INSERT, none at all.
ImportInterrupted ==
    Finished /\ imp.seenInterrupt =>
        \/ imp.rolled /\ tbl.rows = <<>>
        \/ LET g == Given(imp.cmd)
           IN \E k \in 0 .. Len(g) :
                \/ tbl.rows = Imported(imp.cmd, Before, SubSeq(g, 1, k))
                \/ k < Len(g) /\ \E m \in 1 .. Len(g[k + 1]) :
                      tbl.rows = Imported(imp.cmd, Before,
                                          Append(SubSeq(g, 1, k), SubSeq(g[k + 1], 1, m)))

\* The transaction the command began is over when it returns, on every path.
ImportTransaction ==
    imp.st = "done" => auto = IF imp.cmd.txn /\ ~imp.rolled THEN "user" ELSE "auto"

\* zAutoColumn gives the new table columns with different names: its last
\* assertion, db_int(*pDb, zHasDupes)==0.
ColumnNamesDistinct == ~HasDupes(tbl.cols)
=============================================================================
