------------------------------ MODULE Builtins ------------------------------
(***************************************************************************)
(* Functions the shell registers on its own connection (shell.c): the      *)
(* older decimal functions, which the extension of PgTypes replaces when   *)
(* it is loaded, the UINT collation, the ieee754 functions, and the memory *)
(* tracing of --memtrace.                                                  *)
(*                                                                         *)
(* The older Decimal object has the flag isNull for an SQL NULL, no limit  *)
(* on its digits and keeps the sign of a zero; what it shares with the     *)
(* extension's is taken from Decimal.                                      *)
(***************************************************************************)
EXTENDS Decimal

CONSTANTS
    Frames,          \* the values the shell's decimal_sum adds
    MaxFrame,        \* the largest window frame
    Strings,         \* the keys the UINT collation compares (character codes)
    Mantissas,       \* the first arguments of ieee754(Y,Z)
    Exponents,       \* the second ones
    ECap,            \* 10000, where ieee754(Y,Z) clamps its exponent
    EZero,           \* 1000, within which a zero mantissa gives 0.0
    ByteSize         \* 8, the bits of a byte

VARIABLES
    fn,              \* the last call of one of the functions
    sum,             \* the aggregate context of decimal_sum and its frame
    mem              \* the allocators: installed, memtraceBase, initialized

bvars == <<fn, sum, mem>>

NoFn == [name |-> "none"]
NoSum == [isInit |-> FALSE, frame |-> <<>>]
NoTrace == [installed |-> "original", base |-> "none", init |-> FALSE, out |-> FALSE]
Resting == fn = NoFn /\ sum = NoSum /\ mem = NoTrace

------------------------------------------------------------------------------
(***************************************************************************)
(* Decimal.                                                                *)
(***************************************************************************)
Dec(sign, a, nFrac, isNull) ==
    [sign |-> sign, oom |-> FALSE, a |-> a, nFrac |-> nFrac, isNull |-> isNull]

NotNull(p) == Dec(p.sign, p.a, p.nFrac, FALSE)
sh_decimal_new(x, bad) ==
    IF bad THEN NULL ELSE IF x = NULL THEN Dec(FALSE, <<>>, 0, TRUE) ELSE NotNull(ParseDecimal(Text(x)))

sh_decimal_result(p, bad) ==
    IF p = NULL THEN NOMEM
    ELSE IF p.isNull /\ ~p.oom THEN NULL
    ELSE decimal_result(p, bad)

sh_decimal_add(pA, pB, bad) ==
    IF pA = NULL THEN pA
    ELSE IF pB = NULL THEN [pA EXCEPT !.oom = TRUE]
    ELSE IF pA.oom \/ pB.oom THEN [pA EXCEPT !.oom = TRUE]
    ELSE IF pA.isNull \/ pB.isNull THEN [pA EXCEPT !.isNull = TRUE]
    ELSE LET n == SumShape(pA, pB)
         IN  AddAligned(ExpandTo(pA, n[1], n[2], bad = "A"),
                        ExpandTo(pB, n[1], n[2], bad = "B"))

Result(name, args, bad, ret) ==
    /\ fn' = [name |-> name, args |-> args, bad |-> bad, ret |-> ret]
    /\ UNCHANGED <<sum, mem>>

sh_decimalFunc(x, bad) ==
    Result("decimal", <<x>>, bad,
           sh_decimal_result(sh_decimal_new(x, bad = "newA"), bad = "result"))

\* A NULL argument ends decimal_cmp before the other one is converted.
sh_decimalCmpFunc(x, y, bad) ==
    LET pA == sh_decimal_new(x, bad = "newA")
        pB == sh_decimal_new(y, bad = "newB")
        rc == CompareDigits(pA, pB)
    IN  Result("decimal_cmp", <<x, y>>, bad,
               IF pA = NULL THEN NOMEM
               ELSE IF pA.isNull THEN NULL
               ELSE IF pB = NULL THEN NOMEM
               ELSE IF pB.isNull THEN NULL
               ELSE IF rc < 0 THEN -1 ELSE IF rc > 0 THEN 1 ELSE 0)

\* Mutant: digits are compared, wherever the point is.
CollDigits(x, y, bad) ==
    LET pA == sh_decimal_new(x, bad = "newA")
        pB == sh_decimal_new(y, bad = "newB")
    IN  Result("collate_decimal", <<x, y>>, bad,
               IF pA = NULL \/ pB = NULL THEN 0 ELSE ArrayCmp(pA.a, pB.a))

sh_decimalCollFunc(x, y, bad) ==
    LET pA == sh_decimal_new(x, bad = "newA")
        pB == sh_decimal_new(y, bad = "newB")
    IN  Result("collate_decimal", <<x, y>>, bad,
               IF pA = NULL \/ pB = NULL THEN 0 ELSE CompareDigits(pA, pB))

sh_decimalAddFunc(x, y, bad) ==
    Result("decimal_add", <<x, y>>, bad,
           sh_decimal_result(sh_decimal_add(sh_decimal_new(x, bad = "newA"),
                                            sh_decimal_new(y, bad = "newB"), bad),
                             bad = "result"))

\* Mutant: the sign of the subtrahend is kept.
SubFuncAdds(x, y, bad) ==
    LET pB == sh_decimal_new(y, bad = "newB")
    IN  Result("decimal_sub", <<x, y>>, bad,
               IF pB = NULL THEN NOMEM
               ELSE sh_decimal_result(sh_decimal_add(sh_decimal_new(x, bad = "newA"), pB, bad),
                                      bad = "result"))

sh_decimalSubFunc(x, y, bad) ==
    LET pB == sh_decimal_new(y, bad = "newB")
    IN  Result("decimal_sub", <<x, y>>, bad,
               IF pB = NULL THEN NOMEM
               ELSE sh_decimal_result(sh_decimal_add(sh_decimal_new(x, bad = "newA"),
                                                     [pB EXCEPT !.sign = ~@], bad),
                                      bad = "result"))

sh_decimalMulFunc(x, y, bad) ==
    LET pA == sh_decimal_new(x, bad = "newA")
        pB == sh_decimal_new(y, bad = "newB")
    IN  Result("decimal_mul", <<x, y>>, bad,
               IF pA = NULL \/ pB = NULL THEN NOMEM
               ELSE IF pA.isNull \/ pB.isNull THEN NULL
               ELSE IF bad = "mul" THEN NOMEM
               ELSE sh_decimal_result(Product(pA, pB), bad = "result"))

\* decimal_sum as a window function; a NULL row adds nothing.
sh_decimalSumStep(x, bad) ==
    LET zero == [Dec(FALSE, <<0>>, 0, FALSE) EXCEPT !.oom = (bad = "init")]
        p    == IF sum.isInit THEN sum.p ELSE zero
    IN  /\ Len(sum.frame) < MaxFrame
        /\ sum' = [isInit |-> TRUE, frame |-> Append(sum.frame, x),
                   failed |-> bad # "none" \/ (sum.isInit /\ sum.failed),
                   p |-> IF x = NULL THEN p
                         ELSE sh_decimal_add(p, sh_decimal_new(x, bad = "newB"), bad)]
        /\ UNCHANGED <<fn, mem>>

\* Mutant: the row that leaves is added again.
ShSumInverseAdds(bad) ==
    LET x == Head(sum.frame)
    IN  /\ sum.frame # <<>>
        /\ sum' = [sum EXCEPT !.frame = Tail(@), !.failed = @ \/ bad # "none",
                    !.p = IF x = NULL THEN @ ELSE sh_decimal_add(@, sh_decimal_new(x, bad = "newB"), bad)]
        /\ UNCHANGED <<fn, mem>>

sh_decimalSumInverse(bad) ==
    LET x   == Head(sum.frame)
        new == sh_decimal_new(x, bad = "newB")
        b   == IF new = NULL THEN new ELSE [new EXCEPT !.sign = ~@]
    IN  /\ sum.frame # <<>>
        /\ sum' = [sum EXCEPT !.frame = Tail(@), !.failed = @ \/ bad # "none",
                              !.p = IF x = NULL THEN @ ELSE sh_decimal_add(@, b, bad)]
        /\ UNCHANGED <<fn, mem>>

sh_decimalSumValue == IF sum.isInit THEN sh_decimal_result(sum.p, FALSE) ELSE NULL
sh_decimalSumFinalize == sum.isInit /\ sum' = NoSum /\ UNCHANGED <<fn, mem>>

------------------------------------------------------------------------------
(***************************************************************************)
(* The UINT collation, over character codes.                               *)
(***************************************************************************)
isdigit(c) == c \in 48..57

\* Mutant: leading zeros are not skipped.
RunEndZeros(z, i, S) == IF S = {48} THEN i ELSE SkipAll(z, i, S)

\* The end of the run of zeros, and of the run of digits, that starts at i.
RunEnd(z, i, S) == SkipAll(z, i, S)

uintCollFunc(zA, zB) ==
    LET cmp[p \in (1..Len(zA) + 1) \X (1..Len(zB) + 1)] ==
            LET i  == p[1]
                j  == p[2]
                i0 == RunEnd(zA, i, {48})
                j0 == RunEnd(zB, j, {48})
                kA == RunEnd(zA, i0, 48..57) - i0
                kB == RunEnd(zB, j0, 48..57) - j0
                x  == ArrayCmp(SubSeq(zA, i0, i0 + kA - 1), SubSeq(zB, j0, j0 + kB - 1))
            IN  IF i > Len(zA) \/ j > Len(zB) THEN (Len(zA) - i) - (Len(zB) - j)
                ELSE IF isdigit(zA[i]) /\ isdigit(zB[j])
                THEN IF kA > kB THEN 1
                     ELSE IF kA < kB THEN -1
                     ELSE IF x # 0 THEN x
                     ELSE cmp[<<i0 + kA, j0 + kB>>]
                ELSE IF zA[i] # zB[j] THEN zA[i] - zB[j]
                ELSE cmp[<<i + 1, j + 1>>]
    IN  cmp[<<1, 1>>]

Collate(a, b) == Result("uint", <<a, b>>, "none", uintCollFunc(a, b))

------------------------------------------------------------------------------
(***************************************************************************)
(* ieee754: the parts of a double, a double from its parts, and the        *)
(* big-endian bytes of a double.                                           *)
(***************************************************************************)
Width == 1 + ExpField + MantBits
DoubleWord(r) == r.s * 2^(ExpField + MantBits) + r.e * 2^MantBits + r.m
Double(w) == [s |-> w \div 2^(ExpField + MantBits), e |-> (w \div 2^MantBits) % 2^ExpField,
              m |-> w % 2^MantBits]

ieee754(r) ==
    Result("ieee754/1", <<r>>, "none",
           IF DoubleWord(r) = 0 THEN [m |-> 0, e |-> -ExpOffset] ELSE Decompose(r))

\* m is shifted until its leading bit is the implicit one, and e follows it.
Normal(m0, e0) ==
    LET K == CHOOSE k \in -Width..Width :
                 IF k >= 0 THEN m0 \div 2^k \in 2^MantBits..2^(MantBits + 1) - 1
                 ELSE m0 * 2^(-k) \in 2^MantBits..2^(MantBits + 1) - 1
    IN  IF m0 = 0 THEN <<0, e0>>
        ELSE <<IF K >= 0 THEN m0 \div 2^K ELSE m0 * 2^(-K), e0 + K>>

\* Mutant: a subnormal is shifted one place too few.
ComposeShort(y, z) ==
    LET abs == IF y < 0 THEN -y ELSE y
        me  == Normal(abs, z)
        e   == me[2] + ExpOffset
        m   == IF e >= 0 THEN me[1] ELSE IF -e >= Width THEN 0 ELSE me[1] \div 2^(-e)
    IN  [s |-> IF y < 0 THEN 1 ELSE 0, m |-> m % 2^MantBits,
         e |-> IF e <= 0 THEN 0 ELSE IF e > 2^ExpField - 1 THEN 2^ExpField - 1 ELSE e]

Compose(y, z) ==
    LET e1  == IF z > ECap THEN ECap ELSE IF z < -ECap THEN -ECap ELSE z
        abs == IF y < 0 THEN -y ELSE y
        me  == Normal(abs, e1)
        e   == me[2] + ExpOffset
        m   == IF e > 0 THEN me[1]
               ELSE IF 1 - e >= Width THEN 0 ELSE me[1] \div 2^(1 - e)
    IN  IF y = 0 /\ -EZero < e1 /\ e1 < EZero THEN [s |-> 0, e |-> 0, m |-> 0]
        ELSE [s |-> IF y < 0 THEN 1 ELSE 0, m |-> m % 2^MantBits,
              e |-> IF e <= 0 THEN 0 ELSE IF e > 2^ExpField - 1 THEN 2^ExpField - 1 ELSE e]

ieee754_2(y, z) == Result("ieee754/2", <<y, z>>, "none", Compose(y, z))

Bytes == Width \div ByteSize
\* Mutant: the bytes of a little-endian machine as they lie in memory.
ToBlobLittle(r) ==
    [i \in 1..Bytes |-> (DoubleWord(r) \div 2^(ByteSize * (i - 1))) % 2^ByteSize]

ToBlob(r) ==
    [i \in 1..Bytes |-> (DoubleWord(r) \div 2^(ByteSize * (Bytes - i))) % 2^ByteSize]
FromBlob(b) == Double(FoldLeft(LAMBDA v, x : v * 2^ByteSize + x, 0, b))
ieee754_to_blob(r) == Result("ieee754_to_blob", <<r>>, "none", ToBlob(r))
ieee754_from_blob(r) == Result("ieee754_from_blob", <<r>>, "none", FromBlob(ToBlob(r)))

------------------------------------------------------------------------------
(***************************************************************************)
(* Memory tracing.  sqlite3_config (external) works before                 *)
(* sqlite3_initialize only.  Serves is who an allocation ends up with: the *)
(* tracing methods call memtraceBase.                                      *)
(***************************************************************************)
\* Mutant: a second activation is not noticed.
ActivateAgain ==
    /\ fn = NoFn /\ sum = NoSum
    /\ mem' = IF ~mem.init THEN [mem EXCEPT !.base = mem.installed, !.installed = "ersatz", !.out = TRUE]
              ELSE [mem EXCEPT !.out = TRUE]
    /\ UNCHANGED <<fn, sum>>

sqlite3MemTraceActivate ==
    /\ fn = NoFn /\ sum = NoSum
    /\ mem' = IF mem.base = "none" /\ ~mem.init
              THEN [mem EXCEPT !.base = mem.installed, !.installed = "ersatz", !.out = TRUE]
              ELSE [mem EXCEPT !.out = TRUE]
    /\ UNCHANGED <<fn, sum>>

sqlite3MemTraceDeactivate ==
    /\ fn = NoFn /\ sum = NoSum
    /\ mem' = IF mem.base # "none" /\ ~mem.init
              THEN [mem EXCEPT !.installed = mem.base, !.base = "none", !.out = FALSE]
              ELSE [mem EXCEPT !.out = FALSE]
    /\ UNCHANGED <<fn, sum>>

\* sqlite3_initialize and sqlite3_shutdown.
StartLibrary == /\ fn = NoFn /\ sum = NoSum /\ ~mem.init
                /\ mem' = [mem EXCEPT !.init = TRUE] /\ UNCHANGED <<fn, sum>>
StopLibrary == /\ mem.init
               /\ mem' = [mem EXCEPT !.init = FALSE] /\ UNCHANGED <<fn, sum>>

Serves(m) == IF m.installed = "ersatz" THEN m.base ELSE m.installed

------------------------------------------------------------------------------
BuiltinsInit == fn = NoFn /\ sum = NoSum /\ mem = NoTrace

\* The allocations that a call makes, and none that fails.
ShFailing(S) == Failures \cap (S \cup {"none"})

ShDecimalCalls ==
    \/ \E x \in Literals \cup {NULL}, bad \in ShFailing({"newA", "result"}) : sh_decimalFunc(x, bad)
    \/ \E pr \in Pairs, bad \in ShFailing({"newA", "newB"}) :
           \/ sh_decimalCmpFunc(pr[1], pr[2], bad)
           \/ NULL \notin {pr[1], pr[2]} /\ sh_decimalCollFunc(pr[1], pr[2], bad)
    \/ \E pr \in Pairs, bad \in ShFailing({"newA", "newB", "A", "B", "result"}) :
           sh_decimalAddFunc(pr[1], pr[2], bad) \/ sh_decimalSubFunc(pr[1], pr[2], bad)
    \/ \E pr \in Pairs, bad \in ShFailing({"newA", "newB", "mul", "result"}) :
           sh_decimalMulFunc(pr[1], pr[2], bad)

IeeeCalls ==
    \/ \E r \in Doubles : ieee754(r) \/ ieee754_to_blob(r) \/ ieee754_from_blob(r)
    \/ \E y \in Mantissas, z \in Exponents : ieee754_2(y, z)

EndFn == fn # NoFn /\ fn' = NoFn /\ UNCHANGED <<sum, mem>>

BuiltinsNext ==
    \/ Resting /\ ShDecimalCalls
    \/ Resting /\ IeeeCalls
    \/ Resting /\ \E a, b \in Strings : Collate(a, b)
    \/ EndFn
    \/ fn = NoFn /\ mem = NoTrace /\ \E x \in Frames \cup {NULL}, bad \in ShFailing({"init", "newB", "A", "B"}) :
           sh_decimalSumStep(x, bad)
    \/ \E bad \in ShFailing({"newB", "A", "B"}) : sh_decimalSumInverse(bad)
    \/ sh_decimalSumFinalize
    \/ sqlite3MemTraceActivate \/ sqlite3MemTraceDeactivate \/ StartLibrary \/ StopLibrary

BuiltinsSpec == BuiltinsInit /\ [][BuiltinsNext]_bvars

------------------------------------------------------------------------------
Got(F) == fn.name \in F
FnRefused == fn.ret \in {NULL, NOMEM}
FnNull == \E k \in DOMAIN fn.args : fn.args[k] = NULL

\* The shell's own decimal functions are exact too, so replacing them by the
\* extension's changes no result: decimal, decimal_add, decimal_sub and
\* decimal_mul return the exact value, NULL exactly for a NULL argument, and
\* an error whenever an allocation they made has failed.
ShellDecimalExact ==
    Got({"decimal", "decimal_add", "decimal_sub", "decimal_mul"}) =>
        LET v(k) == LitValue(fn.args[k])
        IN  IF FnNull THEN FnRefused /\ (fn.bad = "none" => fn.ret = NULL)
            ELSE IF FnRefused THEN fn.ret = NOMEM /\ fn.bad # "none"
            ELSE TextValue(fn.ret) = CASE fn.name = "decimal" -> v(1)
                                       [] fn.name = "decimal_add" -> Plus(v(1), v(2))
                                       [] fn.name = "decimal_sub" -> Plus(v(1), Negated(v(2)))
                                       [] fn.name = "decimal_mul" -> Times(v(1), v(2))

\* Its comparison orders numbers by value as long as both are written without
\* an exponent and without zeros at the end of the fraction, and no zero has a
\* minus sign: this version of decimal_cmp looks at the digits as written.
Plain(x) == x.exp = 0 /\ ~(x.frac # <<>> /\ x.frac[Len(x.frac)] = 0)
            /\ ~(x.neg /\ LitValue(x) = <<0, 0>>)
SignOf(n) == IF n < 0 THEN -1 ELSE IF n > 0 THEN 1 ELSE 0
ShellDecimalOrder ==
    Got({"decimal_cmp", "collate_decimal"}) /\ ~FnNull /\ fn.bad = "none" =>
        (Plain(fn.args[1]) /\ Plain(fn.args[2])
         => SignOf(fn.ret) = Compare(LitValue(fn.args[1]), LitValue(fn.args[2])))

\* The shell's decimal_sum shows the exact sum of its window frame, or NOMEM
\* once an allocation has failed.
ShellSumTracksWindow ==
    sum.isInit =>
        IF sum.p.oom THEN sum.failed
        ELSE TextValue(sh_decimalSumValue)
             = FoldLeft(LAMBDA t, x : IF x = NULL THEN t ELSE Plus(t, LitValue(x)),
                        <<0, 0>>, sum.frame)

\* The order UINT promises: text is a sequence of characters and of numbers,
\* a number sorts as its value, where a digit sorts among the characters.  The
\* keys are compared exactly so, which makes the collation a total order in
\* which "x00123y" equals "x123y".
Tokens(z) ==
    LET starts == {i \in DOMAIN z : ~(isdigit(z[i]) /\ i > 1 /\ isdigit(z[i - 1]))}
        at(n)  == CHOOSE i \in starts : Cardinality({j \in starts : j < i}) = n - 1
        rank(i) == IF ~isdigit(z[i]) THEN <<z[i], 0>>
                   ELSE <<48, FoldLeft(LAMBDA v, c : 10 * v + c - 48, 0,
                                       SubSeq(z, i, SkipAll(z, i, 48..57) - 1))>>
    IN  [n \in 1..Cardinality(starts) |-> rank(at(n))]
TokensBefore(s, t) ==
    \E n \in 1..Len(t) :
        /\ \A k \in 1..n - 1 : k <= Len(s) /\ s[k] = t[k]
        /\ \/ n > Len(s)
           \/ n <= Len(s) /\ (s[n][1] < t[n][1] \/ (s[n][1] = t[n][1] /\ s[n][2] < t[n][2]))
UintOrder ==
    Got({"uint"}) =>
        LET s == Tokens(fn.args[1])
            t == Tokens(fn.args[2])
        IN  SignOf(fn.ret) = IF TokensBefore(s, t) THEN -1 ELSE IF TokensBefore(t, s) THEN 1 ELSE 0

\* ieee754(X) takes a double apart exactly and ieee754(Y,Z) puts it together
\* again, -0.0 and the non-finite ones excepted; a double survives its blob.
IeeeRoundTrip ==
    /\ Got({"ieee754/1"}) /\ fn.args[1].e # 2^ExpField - 1
       /\ ~(fn.args[1].s = 1 /\ fn.args[1].e = 0 /\ fn.args[1].m = 0)
       => Compose(fn.ret.m, fn.ret.e) = fn.args[1]
    /\ Got({"ieee754_from_blob"}) => fn.ret = fn.args[1]

\* ieee754(Y,Z) is Y*2^Z cut off at the last place a double has: the result is
\* the largest double not above it in magnitude, as long as it does not
\* overflow.  Values are compared as multiples of 2^-(ExpOffset + ECap).
Magnitude(r) == (IF r.e = 0 THEN 2 * r.m ELSE r.m + 2^MantBits) * 2^(r.e + ECap)
Exact(y, z) == (IF y < 0 THEN -y ELSE y) * 2^(z + ExpOffset + ECap)
IeeeTruncates ==
    Got({"ieee754/2"}) =>
        LET x == Exact(fn.args[1], fn.args[2])
        IN  /\ fn.ret.e # 2^ExpField - 1
            => /\ Magnitude(fn.ret) <= x
               /\ LET w == Double(DoubleWord(fn.ret) + 1) IN x < Magnitude(w)
               /\ (fn.ret.s = 1) = (fn.args[1] < 0)

\* However often tracing is switched on and off, before or after the library
\* is initialized, an allocation is always served by the original allocator:
\* the tracing methods never end up calling themselves.
MemtraceTransparent == Serves(mem) = "original"

==============================================================================
