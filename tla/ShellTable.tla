---------------------------- MODULE ShellTable ----------------------------
(***************************************************************************)
(* The layouts of the shell that move text about: the table-like modes     *)
(* (column, table, box, markdown), which gather a whole result and wrap    *)
(* its cells, and .schema --indent, which breaks a statement into lines.   *)
(* Characters are one-letter strings: "a" stands for letters and digits,   *)
(* "u" for the first byte of a UTF-8 character and "v" for one after it,   *)
(* "_" for a space, and tab, nl, cr and ctl for the control characters.    *)
(***************************************************************************)
EXTENDS Integers, Sequences, SequencesExt, FiniteSetsExt

CONSTANTS
    Cells,          \* the texts of the cells of the results
    Results,        \* results, as sequences of rows of one or two cells
    Widths,         \* the widths of a column: 0 for no limit
    Statements,     \* the texts of CREATE statements
    PrettyWidth     \* 79 in the code: shorter statements stay on one line

VARIABLES lay       \* the call of a layout, and its result

yvars == <<lay>>

NUL == "0"
CharAt(z, i) == IF i \in 1 .. Len(z) THEN z[i] ELSE NUL
IsSpace(c) == c \in {"_", "tab", "nl", "cr"}
Printable(c) == c \notin {NUL, "tab", "nl", "cr", "ctl"}
Follows(c) == c = "v"
NoTail == 0

-----------------------------------------------------------------------------
(* translateForDisplayAndDup.                                              *)

\* The position after the character at i and the bytes that follow its first.
RECURSIVE CharEnd(_, _)
CharEnd(z, i) == IF Follows(CharAt(z, i + 1)) THEN CharEnd(z, i + 1) ELSE i + 1

TabStop(n, mx) == Min({8 * ((n \div 8) + 1), mx})

\* The position of the first character that does not fit, and the columns used.
RECURSIVE Fitting(_, _, _, _)
Fitting(z, i, n, mx) ==
    CASE n < mx /\ Printable(CharAt(z, i)) -> Fitting(z, CharEnd(z, i), n + 1, mx)
      [] n < mx /\ CharAt(z, i) = "tab" -> Fitting(z, i + 1, TabStop(n, mx), mx)
      [] OTHER -> [i |-> i, n |-> n]

\* With word wrap a full line is cut after its last space, or else next to its
\* last word, if that is in its second half.
BreakAt(z, i) ==
    LET half == (((i - 1) \div 2) + 2) .. i
        spaces == {k \in half : IsSpace(CharAt(z, k - 1))}
        edges == {k \in half : (CharAt(z, k - 1) = "a") # (CharAt(z, k) = "a") /\ ~Follows(CharAt(z, k))}
    IN CASE spaces # {} -> Max(spaces)
         [] spaces = {} /\ edges # {} -> Max(edges)
         [] OTHER -> NoTail

RECURSIVE SkipSpaces(_, _)
SkipSpaces(z, i) == IF CharAt(z, i) = "_" THEN SkipSpaces(z, i + 1) ELSE i

\* z[1 .. k - 1] as it is displayed: tabs are expanded.
RECURSIVE Expanded(_, _, _, _, _)
Expanded(z, i, k, n, mx) ==
    CASE i < k /\ Printable(CharAt(z, i)) ->
            SubSeq(z, i, CharEnd(z, i) - 1) \o Expanded(z, CharEnd(z, i), k, n + 1, mx)
      [] i < k /\ CharAt(z, i) = "tab" ->
            [j \in 1 .. TabStop(n, mx) - n |-> "_"] \o Expanded(z, i + 1, k, TabStop(n, mx), mx)
      [] OTHER -> <<>>

\* Where the text goes on: a line end is stepped over, a character is not.
TailOfSkips(z, i, full) == IF CharAt(z, i) = NUL \/ CharAt(z, i + 1) = NUL THEN NoTail ELSE i + 1
TailOf(z, i, full) ==
    CASE full /\ Printable(CharAt(z, i)) -> i
      [] ~(full /\ Printable(CharAt(z, i))) /\ CharAt(z, i) = "cr" /\ CharAt(z, i + 1) = "nl" ->
            IF CharAt(z, i + 2) = NUL THEN NoTail ELSE i + 2
      [] ~(full /\ Printable(CharAt(z, i))) /\ ~(CharAt(z, i) = "cr" /\ CharAt(z, i + 1) = "nl") ->
            IF CharAt(z, i) = NUL \/ CharAt(z, i + 1) = NUL THEN NoTail ELSE i + 1
NoLimit == 1000
translateForDisplayAndDup(z, mxWidth, bWordWrap) ==
    LET mx == IF mxWidth = 0 THEN NoLimit ELSE mxWidth
        fit == Fitting(z, 1, 0, mx)
        full == fit.n >= mx
        cut == IF full /\ bWordWrap THEN BreakAt(z, fit.i) ELSE NoTail
        k == IF cut = NoTail THEN fit.i ELSE cut
        i == IF cut = NoTail THEN fit.i ELSE SkipSpaces(z, cut)
        tail == TailOf(z, i, full)
    IN [line |-> Expanded(z, 1, k, 0, mx),
        tail |-> IF tail = NoTail THEN <<>> ELSE SubSeq(z, tail, Len(z)),
        more |-> tail # NoTail]

-----------------------------------------------------------------------------
(* exec_prepared_stmt_columnar.                                            *)

\* The display lines of a row, and of all rows.  A cell that has ended is empty
\* while another of its row goes on.
RECURSIVE RowLines(_, _, _)
RowLines(cells, w, bw) ==
    LET t == [c \in DOMAIN cells |-> translateForDisplayAndDup(cells[c], w, bw)]
        next == \E c \in DOMAIN cells : t[c].more
        line == [cells |-> [c \in DOMAIN cells |-> t[c].line], div |-> ~next]
    IN <<line>> \o IF next THEN RowLines([c \in DOMAIN cells |-> t[c].tail], w, bw) ELSE <<>>

Bordered == {"table", "box"}

BodyDivides(lines, cMode, n) ==
    FlattenSeq([j \in 1 .. n |->
          <<[k |-> "line", cells |-> lines[j].cells]>>
          \o IF j < Len(lines) /\ cMode # "markdown" THEN <<[k |-> "sep"]>> ELSE <<>>])
\* After a row that ends, if some row takes several lines, comes a separator; it
\* is a blank line in column mode, and markdown has none.
Body(lines, cMode, n) ==
    LET multi == \E j \in DOMAIN lines : ~lines[j].div
    IN FlattenSeq([j \in 1 .. n |->
          <<[k |-> "line", cells |-> lines[j].cells]>>
          \o IF multi /\ lines[j].div /\ j < Len(lines) /\ cMode # "markdown" THEN <<[k |-> "sep"]>> ELSE <<>>])

Head1(cMode, showHeader) ==
    CASE cMode = "column" -> IF showHeader THEN <<[k |-> "head"], [k |-> "rule"]>> ELSE <<>>
      [] cMode = "markdown" -> <<[k |-> "head"], [k |-> "rule"]>>
      [] OTHER -> <<[k |-> "rule"], [k |-> "head"], [k |-> "rule"]>>

\* seen is where the interrupt is noticed: 0 before anything is printed, j after
\* line j, -1 never.  A result without a row prints nothing at all.
exec_prepared_stmt_columnar(rows, w, bw, cMode, showHeader, seen) ==
    LET lines == FlattenSeq([r \in DOMAIN rows |-> RowLines(rows[r], w, bw)])
        n == IF seen = -1 THEN Len(lines) ELSE Min({seen, Len(lines)})
        close == IF cMode \in Bordered THEN <<[k |-> "rule"]>> ELSE <<>>
    IN CASE rows = <<>> -> <<>>
         [] rows # <<>> /\ seen = 0 -> <<[k |-> "interrupt"]>>
         [] OTHER -> Head1(cMode, showHeader) \o Body(lines, cMode, n)
                     \o IF seen = -1 THEN close ELSE <<[k |-> "interrupt"]>>

-----------------------------------------------------------------------------
(* .schema --indent: MODE_Pretty of shell_callback.                        *)

\* White space becomes one character, and none after "(" or before a parenthesis.
RECURSIVE Squeezed(_, _, _)
Squeezed(z, i, out) ==
    LET c == CharAt(z, i)
        m == IF out # <<>> /\ IsSpace(c) /\ Last(out) = "cr" THEN Append(Front(out), "nl") ELSE out
    IN CASE c = NUL -> out
         [] c # NUL /\ IsSpace(c) ->
               Squeezed(z, i + 1, IF m = <<>> \/ IsSpace(Last(m)) \/ Last(m) = "(" THEN m ELSE Append(m, c))
         [] c \in {"(", ")"} /\ out # <<>> /\ IsSpace(Last(out)) -> Squeezed(z, i + 1, Append(Front(out), c))
         [] OTHER -> Squeezed(z, i + 1, Append(out, c))
RECURSIVE Stripped(_)
Stripped(z) == IF z # <<>> /\ IsSpace(Last(z)) THEN Stripped(Front(z)) ELSE z

RECURSIVE wsToEol(_, _)
wsToEol(z, i) ==
    CASE CharAt(z, i) \in {NUL, "nl"} -> TRUE
      [] CharAt(z, i) # "nl" /\ IsSpace(CharAt(z, i)) -> wsToEol(z, i + 1)
      [] OTHER -> CharAt(z, i) = "-" /\ CharAt(z, i + 1) = "-"

RECURSIVE SpacesEnd(_, _)
SpacesEnd(z, i) == IF IsSpace(CharAt(z, i)) THEN SpacesEnd(z, i + 1) ELSE i

\* One character of a statement that is too long for one line.  p is the state of
\* the loop: the lines printed, the one being built (z[0 .. j - 1]), the
\* parentheses open, and the character that ends a quote or comment (NUL: none).
Quote(c, next) ==
    CASE c = "q" -> "q" [] c = "[" -> "]" [] c = "-" /\ next = "-" -> "nl" [] OTHER -> NUL
PrettyStep(p, z, i) ==
    LET c == z[i]
        ends == p.cEnd # NUL /\ c = p.cEnd
        opens == ~ends /\ Quote(c, CharAt(z, i + 1)) # NUL
        depth == IF ends \/ opens THEN p.nParen
                 ELSE p.nParen + (IF c = "(" THEN 1 ELSE IF c = ")" THEN -1 ELSE 0)
        cEnd == IF ends THEN NUL ELSE IF opens THEN Quote(c, CharAt(z, i + 1)) ELSE p.cEnd
        flush == ~ends /\ ~opens /\ c = ")" /\ Len(p.out) > 0 /\ depth = 0 /\ p.line # <<>>
        q == IF flush THEN [p EXCEPT !.out = Append(@, p.line), !.line = <<>>] ELSE p
        line == Append(q.line, c)
        break == depth = 1 /\ cEnd = NUL /\ (c \in {"(", "nl"} \/ (c = "," /\ ~wsToEol(z, i + 1)))
    IN [out |-> IF break THEN Append(q.out, IF c = "nl" THEN Front(line) ELSE line) ELSE q.out,
        line |-> IF break THEN <<>> ELSE line,
        nParen |-> depth, cEnd |-> cEnd,
        i |-> IF break THEN SpacesEnd(z, i + 1) ELSE i + 1]

RECURSIVE PrettyFrom(_, _)
PrettyFrom(p, z) == IF p.i > Len(z) THEN Append(p.out, p.line) ELSE PrettyFrom(PrettyStep(p, z, p.i), z)

PrettySqueezeAll(z) == SelectSeq(z, LAMBDA c : ~IsSpace(c))
PrettySqueeze(z) == Stripped(Squeezed(z, 1, <<>>))
Pretty(text) ==
    LET z == PrettySqueeze(text)
    IN IF Len(z) >= PrettyWidth
       THEN PrettyFrom([out |-> <<>>, line |-> <<>>, nParen |-> 0, cEnd |-> NUL, i |-> 1], z)
       ELSE <<z>>

-----------------------------------------------------------------------------
YInit == lay = [k |-> "idle"]

\* The lines of one cell are laid out alone as well: the widths are independent.
Wrap(z, w, bw) ==
    lay.k = "idle" /\ lay' = [k |-> "wrap", z |-> z, w |-> w, bw |-> bw, out |-> RowLines(<<z>>, w, bw)]
Table(rows, w, bw, cMode, showHeader, seen) ==
    /\ lay.k = "idle"
    /\ lay' = [k |-> "table", rows |-> rows, w |-> w, bw |-> bw, cMode |-> cMode, seen |-> seen,
               out |-> exec_prepared_stmt_columnar(rows, w, bw, cMode, showHeader, seen)]
\* A CREATE TABLE or INDEX: views and triggers are printed as they are.
Schema(z) == lay.k = "idle" /\ lay' = [k |-> "schema", z |-> z, out |-> Pretty(z)]
LayDone == lay.k # "idle" /\ lay' = [k |-> "idle"]

YNext ==
    \/ lay.k = "idle" /\ \E z \in Cells : \E w \in Widths : \E bw \in BOOLEAN : Wrap(z, w, bw)
    \/ lay.k = "idle" /\ \E rows \in Results : \E w \in Widths : \E bw \in BOOLEAN :
          \E m \in {"column", "table", "markdown"} : \E h \in BOOLEAN : \E seen \in -1 .. 2 : Table(rows, w, bw, m, h, seen)
    \/ lay.k = "idle" /\ \E z \in Statements : Schema(z)
    \/ LayDone

YSpec == YInit /\ [][YNext]_yvars

-----------------------------------------------------------------------------
Ink(z) == SelectSeq(z, LAMBDA c : ~IsSpace(c) /\ c # "ctl")
Columns(z) == Len(SelectSeq(z, LAMBDA c : ~Follows(c)))

\* A cell is shown whole whatever its width: its lines hold every visible
\* character once and in order, none is longer than the width, none begins inside
\* a UTF-8 character, and the loop over pzTail ends.
WrapKeepsText ==
    lay.k = "wrap" =>
        LET lines == [j \in DOMAIN lay.out |-> lay.out[j].cells[1]]
        IN /\ Ink(FlattenSeq(lines)) = Ink(lay.z)
           /\ \A j \in DOMAIN lines :
                 /\ lay.w # 0 => Columns(lines[j]) <= lay.w
                 /\ lines[j] # <<>> => ~Follows(lines[j][1]) \/ Follows(lay.z[1])

LinesOf(out) == SelectSeq(out, LAMBDA x : x.k = "line")
\* The lines of a table up to line n that begin a new row: the first one, and the
\* ones after a separator.
RowsShown(out) ==
    LET marks == {j \in DOMAIN out : out[j].k = "line" /\ (j = 1 \/ out[j - 1].k # "line")}
    IN Cardinality(marks)

\* A table that no interrupt cuts shows every row once and in order, column by
\* column; when some row takes several lines, the separators stand between rows
\* and nowhere else; after an interrupt the table is not closed.
TableShowsRows ==
    lay.k = "table" /\ lay.rows # <<>> =>
        LET lines == LinesOf(lay.out)
            multi == Len(lines) > Len(lay.rows)
        IN IF lay.seen = -1
           THEN /\ \A c \in DOMAIN lay.rows[1] :
                     Ink(FlattenSeq([j \in DOMAIN lines |-> lines[j].cells[c]]))
                         = Ink(FlattenSeq([r \in DOMAIN lay.rows |-> lay.rows[r][c]]))
                /\ lay.cMode # "markdown" => RowsShown(lay.out) = IF multi THEN Len(lay.rows) ELSE 1
           ELSE Last(lay.out).k = "interrupt"

\* The words of a statement, as the SQL tokenizer separates them: runs of letters
\* and single punctuation.  External: sqlite3's tokenizer.
RECURSIVE Tokens(_, _)
Tokens(z, word) ==
    CASE z = <<>> -> IF word = <<>> THEN <<>> ELSE <<word>>
      [] z # <<>> /\ Head(z) \in {"a", "u", "v"} -> Tokens(Tail(z), Append(word, Head(z)))
      [] OTHER -> (IF word = <<>> THEN <<>> ELSE <<word>>)
                  \o (IF IsSpace(Head(z)) THEN <<>> ELSE <<<<Head(z)>>>>) \o Tokens(Tail(z), <<>>)
Commented(z) == \E i \in 1 .. Len(z) - 1 : z[i] = "-" /\ z[i + 1] = "-"
Joined(lines) == FlattenSeq([j \in DOMAIN lines |-> Append(lines[j], "nl")])

\* .schema --indent prints the same statement: the tokens are those of the text
\* in sqlite_schema, on however many lines.  (A comment may swallow what comes
\* after it, because the line end that closes it counts as white space; spaces
\* inside a quoted string are not told apart.)
PrettySameStatement ==
    lay.k = "schema" /\ ~Commented(lay.z) => Tokens(Joined(lay.out), <<>>) = Tokens(lay.z, <<>>)
=============================================================================
