----------------------------- MODULE ShellText -----------------------------
(***************************************************************************)
(* How the shell writes a text value so that it can be read back: as a SQL *)
(* literal, as a SQL expression free of line ends, as a C, JSON or HTML    *)
(* string, as an identifier, as a blob.  A text is a sequence of bytes,    *)
(* none of them 0.  Each conversion is paired with what its reader does:   *)
(* resolve_backslashes is the shell's own, the others are the SQL, JSON    *)
(* and HTML readers the output is meant for.                               *)
(***************************************************************************)
EXTENDS Integers, Sequences, FiniteSets, SequencesExt

CONSTANTS
    Texts,          \* the texts that are written
    AskedTexts           \* the conversions a behaviour may ask for

VARIABLES txt       \* the last conversion: its name, its argument, its output

BELL == 7
BKSP == 8
TAB == 9
NL == 10
VT == 11
FF == 12
CR == 13
SPACE == 32
DQ == 34
AMP == 38
SQ == 39
LPAREN == 40
RPAREN == 41
DIGIT0 == 48
LT == 60
GT == 62
BS == 92
LowerA == 97
LowerB == 98
LowerF == 102
LowerN == 110
LowerR == 114
LowerT == 116
LowerU == 117
LowerV == 118

IsOctal(c) == c \in DIGIT0 .. DIGIT0 + 7
IsPrint(c) == c \in SPACE .. 126

\* The text obtained by writing each byte with W.
EachByte(z, W(_)) == FlattenSeq([i \in 1 .. Len(z) |-> W(z[i])])

StartsWith(z, p) == Len(p) <= Len(z) /\ SubSeq(z, 1, Len(p)) = p
Occurs(p, z) == \E i \in 0 .. Len(z) - Len(p) : SubSeq(z, i + 1, i + Len(p)) = p

RECURSIVE Decimals(_)
Decimals(i) == IF i < 10 THEN <<DIGIT0 + i>> ELSE Append(Decimals(i \div 10), DIGIT0 + (i % 10))

Hex(d) == IF d < 10 THEN DIGIT0 + d ELSE LowerA + (d - 10)

-----------------------------------------------------------------------------
(* The writers.                                                            *)

Doubled(z, q) == EachByte(z, LAMBDA c : IF c = q THEN <<q, q>> ELSE <<c>>)

output_hex_blob(z) == EachByte(z, LAMBDA c : <<Hex(c \div 16), Hex(c % 16)>>)

FirstOnly(z, zA, zB) == zA
unused_string(z, zA, zB) ==
    LET made(i) == <<LPAREN>> \o zA \o Decimals(i) \o <<RPAREN>>
    IN CASE ~Occurs(zA, z) -> zA
         [] Occurs(zA, z) /\ ~Occurs(zB, z) -> zB
         [] OTHER -> made(CHOOSE i \in 0 .. Len(z) :
                              ~Occurs(made(i), z) /\ \A k \in 0 .. i - 1 : Occurs(made(k), z))

output_quoted_string(z) == <<SQ>> \o Doubled(z, SQ) \o <<SQ>>

\* shell_idquote: the same with double quotes (%w).
shellIdQuote(z) == <<DQ>> \o Doubled(z, DQ) \o <<DQ>>

UnusedNL(z) == unused_string(z, <<BS, LowerN>>, <<BS, DIGIT0, DIGIT0 + 1, DIGIT0 + 2>>)
UnusedCR(z) == unused_string(z, <<BS, LowerR>>, <<BS, DIGIT0, DIGIT0 + 1, DIGIT0 + 5>>)
Has(z, c) == \E i \in 1 .. Len(z) : z[i] = c

\* A SQL expression: a quoted literal inside the calls of replace() that put
\* the line ends back, the innermost call first.
Calls(z, c, zWith) == IF Has(z, c) THEN <<[find |-> zWith, put |-> c]>> ELSE <<>>
SubstitutedNewlines(z, nl, cr) == EachByte(z, LAMBDA c : IF c = NL THEN nl ELSE <<c>>)
Substituted(z, nl, cr) ==
    EachByte(z, LAMBDA c : CASE c = NL -> nl [] c = CR -> cr [] OTHER -> <<c>>)

output_quoted_escaped_string(z) ==
    [lit |-> <<SQ>> \o Substituted(Doubled(z, SQ), UnusedNL(z), UnusedCR(z)) \o <<SQ>>,
     calls |-> Calls(z, CR, UnusedCR(z)) \o Calls(z, NL, UnusedNL(z))]

\* shell_escape_crnl is handed quote(X): the literal, not the text.
shellEscapeCrnl(q) ==
    IF q # <<>> /\ q[1] = SQ
    THEN [lit |-> Substituted(q, UnusedNL(q), UnusedCR(q)),
          calls |-> Calls(q, NL, UnusedNL(q)) \o Calls(q, CR, UnusedCR(q))]
    ELSE [lit |-> q, calls |-> <<>>]

CByteUnpadded(c) ==
    CASE c \in {BS, DQ} -> <<BS, c>>
      [] c < SPACE -> <<BS>> \o (IF c < 8 THEN <<DIGIT0 + c>>
                                 ELSE <<DIGIT0 + (c \div 8), DIGIT0 + (c % 8)>>)
      [] OTHER -> <<c>>
CByte(c) ==
    CASE c \in {BS, DQ} -> <<BS, c>>
      [] c = TAB -> <<BS, LowerT>>
      [] c = NL -> <<BS, LowerN>>
      [] c = CR -> <<BS, LowerR>>
      [] ~IsPrint(c) /\ c \notin {TAB, NL, CR} ->
            <<BS, DIGIT0 + (c \div 64), DIGIT0 + ((c \div 8) % 8), DIGIT0 + (c % 8)>>
      [] OTHER -> <<c>>
output_c_string(z) == <<DQ>> \o EachByte(z, CByte) \o <<DQ>>

JsonByte(c) ==
    CASE c \in {BS, DQ} -> <<BS, c>>
      [] c = BKSP -> <<BS, LowerB>>
      [] c = FF -> <<BS, LowerF>>
      [] c = NL -> <<BS, LowerN>>
      [] c = CR -> <<BS, LowerR>>
      [] c = TAB -> <<BS, LowerT>>
      [] c < SPACE /\ c \notin {BKSP, FF, NL, CR, TAB} ->
            <<BS, LowerU, DIGIT0, DIGIT0, Hex(c \div 16), Hex(c % 16)>>
      [] OTHER -> <<c>>
output_json_string(z) == <<DQ>> \o EachByte(z, JsonByte) \o <<DQ>>

\* The entities, named by what they stand for: negative, so not bytes.
HtmlByte(c) == IF c \in {LT, AMP, GT, DQ, SQ} THEN <<AMP, -c>> ELSE <<c>>
output_html_string(z) == EachByte(z, HtmlByte)

-----------------------------------------------------------------------------
(* The readers.                                                            *)

\* One escape of resolve_backslashes at z[i] = '\': the byte, and where to go on.
Letters == [c \in {LowerA, LowerB, LowerT, LowerN, LowerV, LowerF, LowerR} |->
              CASE c = LowerA -> BELL [] c = LowerB -> BKSP [] c = LowerT -> TAB
                [] c = LowerN -> NL [] c = LowerV -> VT [] c = LowerF -> FF [] OTHER -> CR]
OctalRun(z, i) ==
    IF i + 2 <= Len(z) /\ IsOctal(z[i + 2])
    THEN IF i + 3 <= Len(z) /\ IsOctal(z[i + 3]) THEN 3 ELSE 2
    ELSE 1
Octal(z, i, n) ==
    LET d(k) == z[i + k] - DIGIT0
    IN CASE n = 1 -> d(1) [] n = 2 -> d(1) * 8 + d(2)
         [] OTHER -> ((d(1) * 8 + d(2)) * 8 + d(3)) % 256
Escape(z, i) ==
    LET c == z[i + 1]
    IN IF IsOctal(c) THEN [c |-> Octal(z, i, OctalRun(z, i)), next |-> i + 1 + OctalRun(z, i)]
       ELSE [c |-> IF c \in DOMAIN Letters THEN Letters[c] ELSE c, next |-> i + 2]

RECURSIVE Unescape(_, _)
Unescape(z, i) ==
    CASE i > Len(z) -> <<>>
      [] i <= Len(z) /\ z[i] = BS /\ i < Len(z) -> <<Escape(z, i).c>> \o Unescape(z, Escape(z, i).next)
      [] OTHER -> <<z[i]>> \o Unescape(z, i + 1)
resolve_backslashes(z) == Unescape(z, 1)

Inside(z) == SubSeq(z, 2, Len(z) - 1)

\* What a reader of doubled quotes takes from between the outer ones; a lone
\* quote inside would end the literal early.
RECURSIVE Undouble(_, _)
Undouble(z, q) ==
    CASE z = <<>> -> <<>>
      [] z # <<>> /\ Head(z) # q -> <<Head(z)>> \o Undouble(Tail(z), q)
      [] z # <<>> /\ Head(z) = q /\ Len(z) >= 2 /\ z[2] = q ->
            <<q>> \o Undouble(SubSeq(z, 3, Len(z)), q)
      [] OTHER -> <<-1>>

\* replace(z, p, c): every occurrence, from the left.
RECURSIVE Replace(_, _, _)
Replace(z, p, c) ==
    CASE Len(z) < Len(p) -> z
      [] Len(z) >= Len(p) /\ StartsWith(z, p) ->
            <<c>> \o Replace(SubSeq(z, Len(p) + 1, Len(z)), p, c)
      [] OTHER -> <<Head(z)>> \o Replace(Tail(z), p, c)
RECURSIVE Apply(_, _)
Apply(z, calls) ==
    IF calls = <<>> THEN z
    ELSE Apply(Replace(z, Head(calls).find, Head(calls).put), Tail(calls))
SqlValue(e) == Apply(Undouble(Inside(e.lit), SQ), e.calls)

UnHex(h) == IF h >= LowerA THEN h - LowerA + 10 ELSE h - DIGIT0
JsonLetters == [c \in {LowerB, LowerF, LowerN, LowerR, LowerT} |->
                  CASE c = LowerB -> BKSP [] c = LowerF -> FF [] c = LowerN -> NL
                    [] c = LowerR -> CR [] OTHER -> TAB]
RECURSIVE JsonValue(_)
JsonValue(z) ==
    CASE z = <<>> -> <<>>
      [] z # <<>> /\ Head(z) \notin {BS, DQ} /\ Head(z) >= SPACE -> <<Head(z)>> \o JsonValue(Tail(z))
      [] z # <<>> /\ Head(z) = BS /\ Len(z) >= 6 /\ z[2] = LowerU ->
            <<UnHex(z[5]) * 16 + UnHex(z[6])>> \o JsonValue(SubSeq(z, 7, Len(z)))
      [] z # <<>> /\ Head(z) = BS /\ Len(z) >= 2 /\ z[2] \in {BS, DQ} ->
            <<z[2]>> \o JsonValue(SubSeq(z, 3, Len(z)))
      [] z # <<>> /\ Head(z) = BS /\ Len(z) >= 2 /\ z[2] \in DOMAIN JsonLetters ->
            <<JsonLetters[z[2]]>> \o JsonValue(SubSeq(z, 3, Len(z)))
      [] OTHER -> <<-1>>

RECURSIVE HtmlValue(_)
HtmlValue(z) ==
    CASE z = <<>> -> <<>>
      [] z # <<>> /\ Head(z) \in {LT, GT, DQ, SQ} -> <<-1>>
      [] z # <<>> /\ Head(z) = AMP -> <<-z[2]>> \o HtmlValue(SubSeq(z, 3, Len(z)))
      [] OTHER -> <<Head(z)>> \o HtmlValue(Tail(z))

-----------------------------------------------------------------------------
NoText == [op |-> "idle"]

\* What the output of each conversion is read back as.
Written(op, z) ==
    CASE op = "sql" -> SqlValue([lit |-> output_quoted_string(z), calls |-> <<>>])
      [] op = "escaped" -> SqlValue(output_quoted_escaped_string(z))
      [] op = "crnl" -> SqlValue(shellEscapeCrnl(output_quoted_string(z)))
      [] op = "c" -> resolve_backslashes(Inside(output_c_string(z)))
      [] op = "json" -> JsonValue(Inside(output_json_string(z)))
      [] op = "html" -> HtmlValue(output_html_string(z))
      [] op = "id" -> Undouble(Inside(shellIdQuote(z)), DQ)
      [] op = "hex" -> LET h == output_hex_blob(z)
                       IN [i \in 1 .. Len(h) \div 2 |-> UnHex(h[2 * i - 1]) * 16 + UnHex(h[2 * i])]

Write(op, z) ==
    /\ txt.op = "idle"
    /\ txt' = [op |-> op, z |-> z, back |-> Written(op, z)]
ReadBack == txt.op # "idle" /\ txt' = NoText

TInit == txt = NoText
TNext ==
    \/ txt.op = "idle" /\ \E op \in AskedTexts, z \in Texts : Write(op, z)
    \/ ReadBack

TSpec == TInit /\ [][TNext]_txt

-----------------------------------------------------------------------------
\* What .dump, .mode insert, .recover, .mode quote and shell_idquote write is
\* read by SQL as the value it was written from, whichever of the strings that
\* stand for a line end already occur in the value.
SqlTextRoundTrip ==
    txt.op \in {"sql", "escaped", "crnl", "id", "hex"} => txt.back = txt.z

\* No line end is left in a statement of .dump or .recover, so that a line is
\* never broken in the middle of a value.
EscapedOnOneLine ==
    /\ txt.op = "escaped" =>
          LET e == output_quoted_escaped_string(txt.z) IN ~Has(e.lit, NL) /\ ~Has(e.lit, CR)
    /\ txt.op = "crnl" =>
          LET e == shellEscapeCrnl(output_quoted_string(txt.z)) IN ~Has(e.lit, NL) /\ ~Has(e.lit, CR)

\* C strings are read back by the shell's own resolve_backslashes, also when a
\* byte written in octal is followed by a digit; JSON and HTML strings by theirs.
MarkupRoundTrip ==
    txt.op \in {"c", "json", "html"} => txt.back = txt.z
=============================================================================
