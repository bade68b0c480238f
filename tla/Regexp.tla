------------------------------- MODULE Regexp -------------------------------
(***************************************************************************)
(* The regexp(PATTERN,STRING) function of the shell (ext/misc/regexp.c in  *)
(* shell.c): the compiler from pattern text to the opcodes of an NFA, the  *)
(* NFA simulation, and the SQL function that keeps the compiled pattern    *)
(* for the rows of a statement.                                            *)
(*                                                                         *)
(* Texts are sequences of bytes.  A compiled expression is the sequence    *)
(* prog of opcodes [op, arg] with the input position i of the compiler,    *)
(* its error, and the prefix zInit.  Opcode x of the C code is prog[x+1].  *)
(***************************************************************************)
EXTENDS Integers, Sequences, FiniteSets, SequencesExt

CONSTANTS
    Patterns,     \* expressions (syntax trees) to match
    BadTexts,     \* pattern texts that no tree prints as
    Subjects,     \* the texts to match against
    InitBytes,    \* sizeof(zInit): 12
    NoText        \* the SQL NULL

VARIABLE re       \* the statement: pattern, compiled pattern, last row

------------------------------------------------------------------------------
(***************************************************************************)
(* Characters.                                                             *)
(***************************************************************************)
Cont(z, i) == i <= Len(z) /\ z[i] \div 64 = 2
Replacement == 65533

\* re_next_char: the character at i and the position after it; an invalid
\* sequence is one replacement character.  A four-byte sequence also needs a
\* byte behind it.
re_next_char(z, i) ==
    LET c  == z[i]
        c2 == (c % 32) * 64 + (z[i + 1] % 64)
        c3 == (c % 16) * 4096 + (z[i + 1] % 64) * 64 + (z[i + 2] % 64)
        c4 == (c % 8) * 262144 + (z[i + 1] % 64) * 4096 + (z[i + 2] % 64) * 64 + (z[i + 3] % 64)
    IN  CASE i > Len(z) -> <<0, i>>
          [] i <= Len(z) /\ c < 128 -> <<c, i + 1>>
          [] i <= Len(z) /\ c \div 32 = 6 /\ Cont(z, i + 1) ->
                 <<IF c2 < 128 THEN Replacement ELSE c2, i + 2>>
          [] i <= Len(z) /\ c \div 16 = 14 /\ Cont(z, i + 1) /\ Cont(z, i + 2) ->
                 <<IF c3 <= 2047 \/ c3 \in 55296..57343 THEN Replacement ELSE c3, i + 3>>
          [] /\ i + 4 <= Len(z) /\ c \div 8 = 30
             /\ Cont(z, i + 1) /\ Cont(z, i + 2) /\ Cont(z, i + 3) ->
                 <<IF c4 <= 65535 \/ c4 > 1114111 THEN Replacement ELSE c4, i + 4>>
          [] OTHER -> <<Replacement, i + 1>>

re_next_char_nocase(z, i) ==
    LET r == re_next_char(z, i)
    IN  IF r[1] \in 65..90 THEN <<r[1] + 32, r[2]>> ELSE r
NextChar(noCase, z, i) == IF noCase THEN re_next_char_nocase(z, i) ELSE re_next_char(z, i)

re_digit_char(c) == c \in 48..57
re_word_char(c) == re_digit_char(c) \/ c \in (97..122) \cup (65..90) \cup {95}
re_space_char(c) == c \in {32, 9, 10, 13, 11, 12}

------------------------------------------------------------------------------
(***************************************************************************)
(* The matcher.                                                            *)
(***************************************************************************)
\* Does the class at opcode x (1-based) admit c?  Its values and ranges are
\* the opcodes up to x + arg.
Listed(prog, x, c) ==
    \E k \in (x + 1)..(x + prog[x].arg - 1) :
        \/ prog[k].op = "CC_VALUE" /\ prog[k].arg = c
        \/ prog[k].op = "CC_RANGE" /\ prog[k].arg <= c /\ c <= prog[k + 1].arg
           /\ Cardinality({j \in (x + 1)..(k - 1) : prog[j].op = "CC_RANGE"}) % 2 = 0

\* The states reached without reading (added to pThis), and by reading c.
Spawns(prog, x, c, cPrev) ==
    CASE prog[x].op = "BOUNDARY" -> IF re_word_char(c) # re_word_char(cPrev) THEN {x + 1} ELSE {}
      [] prog[x].op = "ANYSTAR" -> {x + 1}
      [] prog[x].op = "FORK" -> {x + prog[x].arg, x + 1}
      [] prog[x].op = "GOTO" -> {x + prog[x].arg}
      [] OTHER -> {}

Reads(prog, x, c) ==
    LET op == prog[x].op
    IN  CASE op = "MATCH"    -> IF prog[x].arg = c THEN {x + 1} ELSE {}
          [] op = "ANY"      -> IF c # 0 THEN {x + 1} ELSE {}
          [] op = "WORD"     -> IF re_word_char(c) THEN {x + 1} ELSE {}
          [] op = "NOTWORD"  -> IF ~re_word_char(c) /\ c # 0 THEN {x + 1} ELSE {}
          [] op = "DIGIT"    -> IF re_digit_char(c) THEN {x + 1} ELSE {}
          [] op = "NOTDIGIT" -> IF ~re_digit_char(c) /\ c # 0 THEN {x + 1} ELSE {}
          [] op = "SPACE"    -> IF re_space_char(c) THEN {x + 1} ELSE {}
          [] op = "NOTSPACE" -> IF ~re_space_char(c) /\ c # 0 THEN {x + 1} ELSE {}
          [] op = "ANYSTAR"  -> {x}
          [] op = "CC_INC"   -> IF Listed(prog, x, c) THEN {x + prog[x].arg} ELSE {}
          [] op = "CC_EXC"   -> IF c # 0 /\ ~Listed(prog, x, c) THEN {x + prog[x].arg} ELSE {}
          [] OTHER -> {}

RECURSIVE Closure(_, _, _, _)
Closure(prog, S, c, cPrev) ==
    LET T == S \cup UNION {Spawns(prog, x, c, cPrev) : x \in S}
    IN  IF T = S THEN S ELSE Closure(prog, T, c, cPrev)

\* The loop of re_match from position i in the states next: 1 for a match.
RECURSIVE Simulate(_, _, _, _, _, _)
Simulate(prog, noCase, z, i, next, cPrev) ==
    LET r    == NextChar(noCase, z, i)
        this == Closure(prog, next, r[1], cPrev)
        succ == UNION {Reads(prog, x, r[1]) : x \in this}
    IN  IF next = {} THEN 0
        ELSE IF \E x \in this : prog[x].op = "ACCEPT" THEN 1
        ELSE IF r[1] = 0 THEN (IF \E x \in succ : prog[x].op = "ACCEPT" THEN 1 ELSE 0)
        ELSE Simulate(prog, noCase, z, r[2], succ, r[1])

\* With a prefix, the first place where the text has it is looked up first.
re_match(pRe, z) ==
    LET n == Len(pRe.zInit)
        S == {i \in 1..(Len(z) - n + 1) : SubSeq(z, i, i + n - 1) = pRe.zInit}
    IN  IF n = 0 THEN Simulate(pRe.prog, pRe.noCase, z, 1, {1}, 1)
        ELSE IF S = {} THEN 0
        ELSE Simulate(pRe.prog, pRe.noCase, z, CHOOSE i \in S : \A j \in S : i <= j, {1}, 1)

------------------------------------------------------------------------------
(***************************************************************************)
(* The compiler.  p = [z, i, noCase, prog, err, warn]; err is the error    *)
(* returned, warn the one left in zErr by an unknown escape.               *)
(***************************************************************************)
Op(op, arg) == [op |-> op, arg |-> arg]
re_insert(p, x, op, arg) ==
    [p EXCEPT !.prog = SubSeq(@, 1, x - 1) \o <<Op(op, arg)>> \o SubSeq(@, x, Len(@))]
re_append(p, op, arg) == [p EXCEPT !.prog = Append(@, Op(op, arg))]
re_copy(p, x, n) == [p EXCEPT !.prog = @ \o SubSeq(@, x, x + n - 1)]
rePeek(p) == IF p.i <= Len(p.z) THEN p.z[p.i] ELSE 0
Eat(p) == [p EXCEPT !.i = @ + 1]
Fail(p, msg) == [p EXCEPT !.err = msg]

re_hex(c) == CASE c \in 48..57 -> c - 48 [] c \in 97..102 -> c - 87 [] c \in 65..70 -> c - 55 [] OTHER -> -1
HexValue(z, from, n) ==
    IF from + n - 1 <= Len(z) /\ \A k \in from..(from + n - 1) : re_hex(z[k]) >= 0
    THEN FoldLeft(LAMBDA v, c : 16 * v + re_hex(c), 0, SubSeq(z, from, from + n - 1)) ELSE -1

\* zEsc and zTrans: the characters a backslash may precede.
zTrans == <<<<97, 7>>, <<102, 12>>, <<110, 10>>, <<114, 13>>, <<116, 9>>, <<118, 11>>>>
zEsc == {92, 40, 41, 42, 46, 43, 63, 91, 36, 94, 123, 124, 125, 93}

\* re_esc_char: [c, p], the character and the compiler after it.
re_esc_char(p) ==
    LET c == rePeek(p)
        u == HexValue(p.z, p.i + 1, 4)
        x == HexValue(p.z, p.i + 1, 2)
        t == {k \in DOMAIN zTrans : zTrans[k][1] = c}
    IN  CASE p.i > Len(p.z) -> [c |-> 0, p |-> p]
          [] c = 117 /\ u >= 0 -> [c |-> u, p |-> [p EXCEPT !.i = @ + 5]]
          [] c = 120 /\ x >= 0 -> [c |-> x, p |-> [p EXCEPT !.i = @ + 3]]
          [] t # {} -> [c |-> zTrans[CHOOSE k \in t : TRUE][2], p |-> Eat(p)]
          [] c \in zEsc -> [c |-> c, p |-> Eat(p)]
          [] OTHER -> [c |-> c, p |-> [p EXCEPT !.warn = "unknown \\ escape"]]

\* The number at the input position, and the compiler behind it.
RECURSIVE Number(_, _)
Number(p, v) == IF rePeek(p) \in 48..57 THEN Number(Eat(p), 10 * v + rePeek(p) - 48)
                ELSE [v |-> v, p |-> p]

\* X{m,n}, the operand X starting at opcode x.
Repeat(p0, x) ==
    LET a  == Number(p0, 0)
        b  == IF rePeek(a.p) = 44 THEN Number(Eat(a.p), 0) ELSE a
        m  == a.v
        n  == b.v
        p  == Eat(b.p)
        sz == Len(p.prog) - x + 1
        opt(q) == re_copy(re_append(q, "FORK", sz + 1), x, sz)
        more(q, k) == FoldLeft(LAMBDA s, j : opt(s), q, [j \in 1..k |-> j])
        body == IF m = 0 THEN re_insert(p, x, "FORK", sz + 1)
                ELSE FoldLeft(LAMBDA s, j : re_copy(s, x, sz), p, [j \in 1..(m - 1) |-> j])
        n1 == IF m = 0 THEN n - 1 ELSE n
        all == IF n1 > m THEN more(body, n1 - m) ELSE body
    IN  IF rePeek(b.p) # 125 THEN Fail(p0, "unmatched '{'")
        ELSE IF n > 0 /\ n < m THEN Fail(p0, "n less than m in '{m,n}'")
        ELSE IF m = 0 /\ n = 0 THEN Fail(p0, "both m and n are zero in '{m,n}'")
        ELSE IF n = 0 THEN re_append(all, "FORK", -sz) ELSE all

\* The members of a class up to its closing bracket.
ClassChar(p) ==
    LET r == NextChar(p.noCase, p.z, p.i)
        q == [p EXCEPT !.i = r[2]]
    IN  IF r[1] = 92 THEN re_esc_char(q) ELSE [c |-> r[1], p |-> q]

\* A range whose lower end lo was read, a single value, each as [c, p].
Added(m, op) == [c |-> m.c, p |-> re_append(m.p, op, m.c)]
Member(lo) ==
    IF rePeek(lo.p) = 45 THEN Added(ClassChar(Eat(Added(lo, "CC_RANGE").p)), "CC_RANGE") ELSE Added(lo, "CC_VALUE")
NotAMember(p, raw) ==
    IF raw[1] = 0 THEN "unclosed '['"
    ELSE IF raw[1] = 91 /\ rePeek([p EXCEPT !.i = raw[2]]) = 58 THEN "POSIX character classes not supported"
    ELSE ""
RECURSIVE ClassMembers(_)
AfterMember(m) ==
    IF rePeek(m.p) # 93 THEN ClassMembers(m.p)
    ELSE IF m.c = 0 THEN Fail(m.p, "unclosed '['") ELSE Eat(m.p)
ClassMembers(p) ==
    LET err == NotAMember(p, NextChar(p.noCase, p.z, p.i))
    IN  IF err # "" THEN Fail(p, err) ELSE AfterMember(Member(ClassChar(p)))

ClassSize(p, x) == IF p.err # "" THEN p ELSE [p EXCEPT !.prog[x].arg = Len(p.prog) - x + 1]
Class(p) ==
    ClassSize(ClassMembers(IF rePeek(p) = 94 THEN Eat(re_append(p, "CC_EXC", 0)) ELSE re_append(p, "CC_INC", 0)),
              Len(p.prog) + 1)

Special(c) ==
    CASE c = 98 -> "BOUNDARY" [] c = 100 -> "DIGIT" [] c = 68 -> "NOTDIGIT"
      [] c = 115 -> "SPACE" [] c = 83 -> "NOTSPACE" [] c = 119 -> "WORD"
      [] c = 87 -> "NOTWORD" [] OTHER -> "none"

\* Star, plus and option of the operand that starts at opcode x.
Star(p, x) ==
    LET q == re_insert(p, x, "GOTO", Len(p.prog) - x + 2)
    IN  re_append(q, "FORK", x - Len(q.prog))
Plus1(p, x) == re_append(p, "FORK", x - Len(p.prog) - 1)
\* Mutant: the fork does not lead past the operand.
OptionalShort(p, x) == re_insert(p, x, "FORK", Len(p.prog) - x + 1)

Optional(p, x) == re_insert(p, x, "FORK", Len(p.prog) - x + 2)
Quantified(c, p, x) ==
    CASE c = 42 -> Star(p, x) [] c = 43 -> Plus1(p, x)
      [] c = 63 -> Optional(p, x) [] c = 123 -> Repeat(p, x)

\* re_subcompile_string, from the input position on, with the operand iPrev
\* (0 for none), and re_subcompile_re.
RECURSIVE re_subcompile_string(_, _)
RECURSIVE Alternatives(_, _)
re_subcompile_re(p) == Alternatives(re_subcompile_string(p, 0), Len(p.prog) + 1)

\* The GOTO at g leads past the alternative r.
Alternative(r, g, x) ==
    IF r.err # "" THEN r ELSE Alternatives([r EXCEPT !.prog[g].arg = Len(r.prog) - g + 1], x)
Alternatives(p, x) ==
    IF p.err # "" \/ rePeek(p) # 124 THEN p
    ELSE LET q == re_append(re_insert(p, x, "FORK", Len(p.prog) - x + 3), "GOTO", 0)
         IN  Alternative(re_subcompile_string(Eat(q), 0), Len(q.prog), x)

Group(sub) ==
    IF sub.err # "" THEN sub
    ELSE IF rePeek(sub) # 41 THEN Fail(sub, "unmatched '('") ELSE Eat(sub)
\* The opcodes for the character c that was read.
Item(c, q, iPrev) ==
    CASE c = 40 -> Group(re_subcompile_re(q))
      [] c = 46 -> IF rePeek(q) = 42 THEN Eat(re_append(q, "ANYSTAR", 0)) ELSE re_append(q, "ANY", 0)
      [] c \in {42, 43, 63, 123} -> IF iPrev = 0 THEN Fail(q, "no operand") ELSE Quantified(c, q, iPrev)
      [] c = 91 -> Class(q)
      [] c = 92 -> IF Special(rePeek(q)) # "none" THEN Eat(re_append(q, Special(rePeek(q)), 0))
                   ELSE Added(re_esc_char(q), "MATCH").p
      [] OTHER -> re_append(q, "MATCH", c)
AfterItem(p, x) == IF p.err # "" THEN p ELSE re_subcompile_string(p, x)
Character(p, nc, iPrev) ==
    IF nc[1] = 0 \/ nc[1] \in {124, 36, 41} THEN p
    ELSE AfterItem(Item(nc[1], [p EXCEPT !.i = nc[2]], iPrev), Len(p.prog) + 1)
re_subcompile_string(p, iPrev) == Character(p, NextChar(p.noCase, p.z, p.i), iPrev)

\* The bytes of zInit for a character: a two-byte form up to 0xfff.
InitBytesOf(c) ==
    CASE c <= 127 -> <<c>>
      [] c \in 128..4095 -> <<192 + (c \div 64), 128 + (c % 64)>>
      [] c \in 4096..65535 -> <<224 + (c \div 4096), 128 + ((c \div 64) % 64), 128 + (c % 64)>>

RECURSIVE Prefix(_, _, _)
Prefix(prog, x, init) ==
    IF Len(init) < InitBytes - 2 /\ prog[x].op = "MATCH" /\ prog[x].arg <= 65535
    THEN Prefix(prog, x + 1, init \o InitBytesOf(prog[x].arg))
    ELSE IF init # <<>> /\ init[Len(init)] = 0 THEN Front(init) ELSE init

CompilerOf(zIn, noCase) ==
    LET caret == zIn # <<>> /\ zIn[1] = 94
    IN  [z |-> IF caret THEN Tail(zIn) ELSE zIn, i |-> 1, noCase |-> noCase, err |-> "",
         warn |-> "", zInit |-> <<>>, prog |-> IF caret THEN <<>> ELSE <<Op("ANYSTAR", 0)>>]
\* Mutant: what is left behind the expression is not noticed.
AcceptAnyway(p) == IF p.err # "" THEN p ELSE re_append(p, "ACCEPT", 0)
\* What is left of the input is nothing, or a "$" in its end.
Accept(p) ==
    IF p.err # "" THEN p
    ELSE IF rePeek(p) = 36 /\ p.i >= Len(p.z) THEN re_append(re_append(p, "MATCH", 0), "ACCEPT", 0)
    ELSE IF p.i > Len(p.z) THEN re_append(p, "ACCEPT", 0)
    ELSE Fail(p, "unrecognized character")
Compiled(p) ==
    IF p.err # "" THEN p
    ELSE [p EXCEPT !.zInit = IF p.prog[1].op = "ANYSTAR" /\ ~p.noCase THEN Prefix(p.prog, 2, <<>>) ELSE <<>>,
                   !.err = p.warn]
re_compile(zIn, noCase) == Compiled(Accept(re_subcompile_re(CompilerOf(zIn, noCase))))

------------------------------------------------------------------------------
(***************************************************************************)
(* The SQL function.  The first row compiles the pattern; SQLite keeps it  *)
(* (auxdata) for the statement's other rows, as its pattern is constant.   *)
(***************************************************************************)
NoStmt == [pat |-> [k |-> "none"], noCase |-> FALSE, ret |-> "none"]

\* How a tree is written.
RECURSIVE PatText(_)
PatText(t) ==
    CASE t.k = "lit" -> t.text
      [] t.k = "cat" -> PatText(t.a) \o PatText(t.b)
      [] t.k = "alt" -> <<40>> \o PatText(t.a) \o <<124>> \o PatText(t.b) \o <<41>>
      [] t.k = "rep" -> (IF t.a.k \in {"cat", "rep"} THEN <<40>> \o PatText(t.a) \o <<41>> ELSE PatText(t.a))
                        \o t.text
PatternText(pat) ==
    IF pat.k = "bad" THEN pat.text
    ELSE (IF pat.caret THEN <<94>> ELSE <<>>) \o PatText(pat.t) \o (IF pat.dollar THEN <<36>> ELSE <<>>)

\* re_sql_func on the first row of a statement and on a later one: a pattern
\* that does not compile ends the statement, a NULL text gives NULL.
RowResult(pRe, text) ==
    IF pRe.err # "" THEN "error"
    ELSE IF text = NoText THEN "null"
    ELSE IF re_match(pRe, text) = 1 THEN "match" ELSE "nomatch"

FirstRow(pat, noCase, text, pRe) ==
    [pat |-> pat, noCase |-> noCase, text |-> text, aux |-> pRe, ret |-> RowResult(pRe, text)]
re_sql_func(pat, noCase, text) ==
    /\ re = NoStmt
    /\ re' = FirstRow(pat, noCase, text, re_compile(PatternText(pat), noCase))

re_sql_func_cached(text) ==
    /\ re.ret = "fetched"
    /\ re' = [re EXCEPT !.text = text, !.ret = RowResult(re.aux, text)]

\* The row is delivered; the statement goes on or is finalized (re_free).
Fetched ==
    /\ re.ret \in {"null", "match", "nomatch"}
    /\ re' = [re EXCEPT !.text = NoText, !.ret = "fetched"]
re_free == re.ret \in {"fetched", "error"} /\ re' = NoStmt

ReInit == re = NoStmt
ReNext ==
    \/ /\ re = NoStmt
       /\ \E pat \in Patterns \cup BadTexts, noCase \in BOOLEAN, text \in Subjects :
              re_sql_func(pat, noCase, text)
    \/ re.ret = "fetched" /\ \E text \in Subjects : re_sql_func_cached(text)
    \/ Fetched
    \/ re_free

ReSpec == ReInit /\ [][ReNext]_re

------------------------------------------------------------------------------
(***************************************************************************)
(* What a pattern means: the places where a match of the tree that starts  *)
(* before character i of the characters cs may end.                        *)
(***************************************************************************)
RECURSIVE Decoded(_, _, _)
Decoded(noCase, z, i) ==
    IF i > Len(z) THEN <<>>
    ELSE LET r == NextChar(noCase, z, i) IN <<r[1]>> \o Decoded(noCase, z, r[2])

Fold(noCase, c) == IF noCase /\ c \in 65..90 THEN c + 32 ELSE c
RECURSIVE Ends(_, _, _, _)
\* The places k matches of t in a row lead to.
RECURSIVE Iterate(_, _, _, _, _)
Iterate(t, noCase, cs, S, k) ==
    IF k = 0 THEN S
    ELSE Iterate(t, noCase, cs, UNION {Ends(t, noCase, cs, i) : i \in S}, k - 1)
Ends(t, noCase, cs, i) ==
    CASE t.k = "lit" ->
            IF t.set = "boundary"
            THEN IF (i <= Len(cs) /\ re_word_char(cs[i])) # (i > 1 /\ re_word_char(cs[i - 1])) THEN {i} ELSE {}
            ELSE IF i <= Len(cs) /\ (cs[i] \in {Fold(noCase, c) : c \in t.chars}) # t.neg THEN {i + 1} ELSE {}
      [] t.k = "cat" -> UNION {Ends(t.b, noCase, cs, j) : j \in Ends(t.a, noCase, cs, i)}
      [] t.k = "alt" -> Ends(t.a, noCase, cs, i) \cup Ends(t.b, noCase, cs, i)
      [] t.k = "rep" -> UNION {Iterate(t.a, noCase, cs, {i}, k) :
                                  k \in t.m..(IF t.n < 0 THEN t.m + Len(cs) + 1 ELSE t.n)}

Matches(pat, noCase, text) ==
    LET cs == Decoded(noCase, text, 1)
    IN  \E i \in 1..(Len(cs) + 1) :
            /\ pat.caret => i = 1
            /\ \E j \in Ends(pat.t, noCase, cs, i) : pat.dollar => j = Len(cs) + 1

\* The NFA compiled from a pattern (jumps relative, code inserted, copied and
\* nested, the prefix looked up first) matches exactly the texts that the
\* documented meaning of the pattern admits, for every row of a statement.
RegexpExact ==
    re.pat.k = "re" /\ re.ret # "fetched" =>
        re.ret = IF re.text = NoText THEN "null" ELSE
                 IF Matches(re.pat, re.noCase, re.text) THEN "match" ELSE "nomatch"

\* A pattern that no tree prints as is an error in every row; the compiler
\* neither accepts nor runs past it.
RegexpRejects == re.pat.k = "bad" => re.ret = "error"

==============================================================================
