------------------------------ MODULE Decimal ------------------------------
(***************************************************************************)
(* Arbitrary-precision decimal arithmetic: the SQL functions of            *)
(* mvsqlite-pgtypes-ext/decimal.c.                                         *)
(*                                                                         *)
(* A Decimal object is a record: the digits a (most significant first, so  *)
(* the C field nDigit is Len(a)), nFrac of them after the point, the sign  *)
(* and the out-of-memory flag.  The C field isNull is never set in this    *)
(* version (decimal_new returns no object for an SQL NULL) and is left     *)
(* out.  A text is a sequence of one-character strings.                    *)
(***************************************************************************)
EXTENDS Integers, Sequences, FiniteSets, SequencesExt

CONSTANTS
    NULL,        \* a null pointer, and the SQL NULL
    NOMEM,       \* the error SQLITE_NOMEM as the result of a function
    MaxDigit,    \* SQLITE_DECIMAL_MAX_DIGIT
    ExpCap,      \* 1000000, where the exponent stops being read
    Pow2Cap,     \* 20000, the largest power of two
    MantBits,    \* 52, the explicit bits of a double's significand
    ExpField,    \* 11, the bits of its exponent
    ExpOffset,   \* 1075, so that a double is m * 2^(e - ExpOffset)
    ExpLimit     \* 971, the largest finite exponent

DigitChars == <<"0", "1", "2", "3", "4", "5", "6", "7", "8", "9">>
Char(d) == DigitChars[d + 1]
IsDigit(c) == \E d \in 0..9 : Char(d) = c
Digit(c) == CHOOSE d \in 0..9 : Char(d) = c

Zeros(n) == [i \in 1..n |-> 0]
AllZero(a) == \A i \in DOMAIN a : a[i] = 0

\* The first index from i on whose element is outside S, Len(s) + 1 if none.
SkipAll(s, i, S) ==
    CHOOSE j \in i..(Len(s) + 1) :
        /\ \A k \in i..(j - 1) : s[k] \in S
        /\ j <= Len(s) => s[j] \notin S

\* memcmp of two arrays of the same length.
ArrayCmp(a, b) ==
    LET D == {i \in 1..Len(a) : a[i] # b[i]}
    IN  IF D = {} THEN 0
        ELSE LET i == CHOOSE k \in D : \A l \in D : k <= l IN a[i] - b[i]

------------------------------------------------------------------------------
(***************************************************************************)
(* decimalNewFromText.  bad says that an allocation fails.                 *)
(***************************************************************************)
\* The digits of the exponent, read until the value reaches the cap.
ReadExponent(t) ==
    FoldLeft(LAMBDA x, c : IF IsDigit(c) /\ x < ExpCap
                           THEN x * 10 + Digit(c) ELSE x, 0, t)

\* Mutant: no zeros are appended beyond the digits.
ScaleUpNoZeros(p, e) == [p EXCEPT !.nFrac = IF e <= p.nFrac THEN @ - e ELSE 0]

\* A positive exponent first moves the point right, then appends zeros.
ScaleUp(p, e) ==
    LET k == IF e <= p.nFrac THEN e ELSE p.nFrac
    IN  [p EXCEPT !.nFrac = @ - k, !.a = @ \o Zeros(e - k)]

\* A negative one first moves the point left through the digits before it,
\* leaving one, then prepends zeros.
ScaleDown(p, e) ==
    LET nExtra == Len(p.a) - p.nFrac - 1
        moved == IF nExtra = 0 THEN [f |-> p.nFrac, e |-> e]
                 ELSE IF nExtra >= e THEN [f |-> p.nFrac + e, e |-> 0]
                 ELSE [f |-> Len(p.a) - 1, e |-> e - nExtra]
    IN  [p EXCEPT !.a = Zeros(moved.e) \o @, !.nFrac = moved.f + moved.e]

\* Where the exponent begins, Len(z) + 1 without one, from i on.
ExponentAt(z, i) ==
    LET E == {k \in i..Len(z) : z[k] \in {"e", "E"}}
    IN  IF E = {} THEN Len(z) + 1 ELSE CHOOSE k \in E : \A j \in E : k <= j

\* The digits of the text before it, those behind the last point as the fraction.
Significand(body, digits, sign) ==
    LET dots == {0} \cup {i \in DOMAIN body : body[i] = "."}
        dot  == CHOOSE i \in dots : \A j \in dots : j <= i
    IN  [sign |-> sign, oom |-> FALSE, a |-> [i \in DOMAIN digits |-> Digit(digits[i])],
         nFrac |-> IF dot = 0 THEN 0 ELSE Len(SelectSeq(SubSeq(body, dot + 1, Len(body)), IsDigit))]

ScaledBy(p, neg, iExp) ==
    IF iExp = 0 THEN p ELSE IF neg THEN ScaleDown(p, iExp) ELSE ScaleUp(p, iExp)

\* The number from i on: the sign is read, zeros in front are dropped.
UnsignedFrom(z, sign, i) ==
    LET iE   == ExponentAt(z, i)
        body == SubSeq(z, i, iE - 1)
    IN  ScaledBy(Significand(body, SelectSeq(body, IsDigit), sign),
               iE < Len(z) /\ z[iE + 1] = "-", ReadExponent(SubSeq(z, iE + 1, Len(z))))
SignedFrom(z, i) ==
    IF i <= Len(z) /\ z[i] \in {"-", "+"} THEN UnsignedFrom(z, z[i] = "-", SkipAll(z, i + 1, {"0"}))
    ELSE UnsignedFrom(z, FALSE, SkipAll(z, i, {"0"}))
ParseDecimal(z) == SignedFrom(z, SkipAll(z, 1, {" "}))

DecimalOrNull(p, bad) ==
    IF bad \/ Len(p.a) > MaxDigit THEN NULL ELSE [p EXCEPT !.sign = @ /\ ~AllZero(p.a)]
decimalNewFromText(z, bad) == DecimalOrNull(ParseDecimal(z), bad)

------------------------------------------------------------------------------
(***************************************************************************)
(* Conversion back to text.                                                *)
(***************************************************************************)
Chars(a) == [i \in DOMAIN a |-> Char(a[i])]

\* decimal_result: leading zeros go, one digit stays before the point.
decimal_result(p, bad) ==
    IF p = NULL \/ bad THEN NOMEM
    ELSE IF p.oom THEN NOMEM
    ELSE LET nD   == Len(p.a)
             neg  == p.sign /\ ~(nD = 0 \/ (nD = 1 /\ p.a[1] = 0))
             n    == nD - p.nFrac
             int  == IF n <= 0 THEN <<>> ELSE SubSeq(p.a, 1, n)
             j    == IF n <= 0 THEN 1
                     ELSE LET s == SkipAll(int, 1, {0}) IN IF s > n THEN n ELSE s
         IN  (IF neg THEN <<"-">> ELSE <<>>)
             \o (IF n <= 0 THEN <<"0">> ELSE Chars(SubSeq(int, j, n)))
             \o (IF p.nFrac = 0 THEN <<>>
                 ELSE <<".">> \o Chars(SubSeq(p.a, (IF n <= 0 THEN 0 ELSE n) + 1, nD)))

\* decimal_result_sci: significand and exponent, trailing zeros cut down to
\* N digits.  The result is abstracted to its three parts.
decimal_result_sci(p, N0, bad) ==
    IF p = NULL \/ bad THEN NOMEM
    ELSE IF p.oom THEN NOMEM
    ELSE LET N     == IF N0 < 1 THEN 0 ELSE N0
             K     == {k \in 0..Len(p.a) : k <= N \/ (k > 0 /\ p.a[k] # 0)}
             nD    == IF Len(p.a) <= N THEN Len(p.a)
                      ELSE CHOOSE k \in K : \A l \in K : l <= k
             nZero == SkipAll(SubSeq(p.a, 1, nD), 1, {0}) - 1
             nF    == p.nFrac + nD - Len(p.a)
             empty == nD - nZero = 0
             a     == IF empty THEN <<0>> ELSE SubSeq(p.a, nZero + 1, nD)
         IN  [sign |-> p.sign, a |-> a,
              exp |-> Len(a) - (IF empty THEN 0 ELSE nF) - 1]

------------------------------------------------------------------------------
(***************************************************************************)
(* Arithmetic.                                                             *)
(***************************************************************************)
ExpandTo(p, nDigit, nFrac, bad) ==
    LET nAddFrac == nFrac - p.nFrac
        nAddSig  == nDigit - Len(p.a) - nAddFrac
    IN  IF nAddFrac = 0 /\ nAddSig = 0 THEN p
        ELSE IF bad THEN [p EXCEPT !.oom = TRUE]
        ELSE [p EXCEPT !.a = Zeros(nAddSig) \o @ \o Zeros(nAddFrac),
                       !.nFrac = nFrac]

decimal_expand(p, nDigit, nFrac, bad) ==
    ExpandTo(p, nDigit, nFrac, bad \/ nDigit + 1 > MaxDigit)

\* Round to N significant digits: one more digit in front when every kept
\* digit is a 9, then the carry runs left from the last kept digit.
decimal_round(p, N0, bad) ==
    IF p = NULL THEN p
    ELSE IF N0 < 1 \/ Len(p.a) <= N0 THEN p
    ELSE LET N == N0 + SkipAll(p.a, 1, {0}) - 1
         IN  IF Len(p.a) <= N THEN p
             ELSE LET up    == p.a[N + 1] >= 5
                      nines == \A i \in 1..N : p.a[i] = 9
                      q     == IF up /\ nines
                               THEN decimal_expand(p, Len(p.a) + 1, p.nFrac, bad)
                               ELSE p
                      d[i \in 1..N] ==          \* the digit at i before the carry
                          q.a[i] + (IF i = N THEN 1
                                    ELSE IF d[i + 1] > 9 THEN 1 ELSE 0)
                      kept  == IF up THEN [i \in 1..N |->
                                             IF i > 1 /\ d[i] > 9 THEN 0 ELSE d[i]]
                               ELSE SubSeq(p.a, 1, N)
                  IN  IF q.oom THEN q
                      ELSE [q EXCEPT !.a = kept \o Zeros(Len(q.a) - N)]

\* Trailing zeros of the fraction, dropped while more than keep digits remain.
TrimFraction(p, keep) ==
    LET K == {k \in 0..p.nFrac :
                /\ k = 0 \/ p.nFrac - k >= keep
                /\ \A i \in (Len(p.a) - k + 1)..Len(p.a) : p.a[i] = 0}
        k == CHOOSE x \in K : \A y \in K : y <= x
    IN  [p EXCEPT !.a = SubSeq(@, 1, Len(@) - k), !.nFrac = @ - k]

\* Mutant: two negative numbers are not swapped.
CompareUnswapped(tA, tB) ==
    LET n == IF Len(tA.a) < Len(tB.a) THEN Len(tA.a) ELSE Len(tB.a)
        rc == ArrayCmp(SubSeq(tA.a, 1, n), SubSeq(tB.a, 1, n))
        d == (Len(tA.a) - tA.nFrac) - (Len(tB.a) - tB.nFrac)
    IN  IF tA.sign # tB.sign THEN (IF tA.sign THEN -1 ELSE 1)
        ELSE IF d # 0 THEN d ELSE IF rc = 0 THEN Len(tA.a) - Len(tB.a) ELSE rc

\* By sign, then by the number of digits before the point, then digit by
\* digit; two negative numbers are swapped.
CompareDigits(tA, tB) ==
    LET pA  == IF tA.sign THEN tB ELSE tA
        pB  == IF tA.sign THEN tA ELSE tB
        sA  == Len(pA.a) - pA.nFrac
        sB  == Len(pB.a) - pB.nFrac
        n   == IF Len(pA.a) < Len(pB.a) THEN Len(pA.a) ELSE Len(pB.a)
        rc  == ArrayCmp(SubSeq(pA.a, 1, n), SubSeq(pB.a, 1, n))
    IN  IF tA.sign # tB.sign THEN (IF tA.sign THEN -1 ELSE 1)
        ELSE IF sA # sB THEN sA - sB
        ELSE IF rc = 0 THEN Len(pA.a) - Len(pB.a) ELSE rc

decimal_cmp(pA, pB) == CompareDigits(TrimFraction(pA, 0), TrimFraction(pB, 0))

\* The digits of a + b and of a - b (a >= b), both of length n.
AddDigits(a, b) ==
    LET n == Len(a)
        c[i \in 1..(n + 1)] ==
            IF i = n + 1 THEN 0 ELSE IF a[i] + b[i] + c[i + 1] >= 10 THEN 1 ELSE 0
    IN  [i \in 1..n |-> (a[i] + b[i] + c[i + 1]) - 10 * c[i]]

SubDigits(a, b) ==
    LET n == Len(a)
        c[i \in 1..(n + 1)] ==
            IF i = n + 1 THEN 0 ELSE IF a[i] - b[i] - c[i + 1] < 0 THEN 1 ELSE 0
    IN  [i \in 1..n |-> (a[i] - b[i] - c[i + 1]) + 10 * c[i]]

\* The digits decimal_add makes room for: <<nDigit, nFrac>>.
SumShape(pA, pB) ==
    LET iA    == Len(pA.a) - pA.nFrac
        sA    == IF iA # 0 /\ pA.a[1] = 0 THEN iA - 1 ELSE iA
        sB    == Len(pB.a) - pB.nFrac
        nFrac == IF pA.nFrac < pB.nFrac THEN pB.nFrac ELSE pA.nFrac
    IN  <<(IF sA < sB THEN sB ELSE sA) + nFrac + 1, nFrac>>

\* Mutant: the sign stays when the subtrahend is the larger one.
AddAlignedKeepsSign(qA, qB) ==
    IF qA.oom \/ qB.oom THEN [qA EXCEPT !.oom = TRUE]
    ELSE IF qA.sign = qB.sign THEN [qA EXCEPT !.a = AddDigits(qA.a, qB.a)]
    ELSE IF ArrayCmp(qA.a, qB.a) < 0 THEN [qA EXCEPT !.a = SubDigits(qB.a, qA.a)]
    ELSE [qA EXCEPT !.a = SubDigits(qA.a, qB.a)]

\* The sum of two operands of the same shape.
AddAligned(qA, qB) ==
    IF qA.oom \/ qB.oom THEN [qA EXCEPT !.oom = TRUE]
    ELSE IF qA.sign = qB.sign THEN [qA EXCEPT !.a = AddDigits(qA.a, qB.a)]
    ELSE IF ArrayCmp(qA.a, qB.a) < 0
    THEN [qA EXCEPT !.a = SubDigits(qB.a, qA.a), !.sign = ~@]
    ELSE [qA EXCEPT !.a = SubDigits(qA.a, qB.a)]

\* decimal_add: A := A + B.  bad is the operand, "A" or "B", whose
\* reallocation fails, if any.
decimal_add(pA, pB, bad) ==
    IF pA = NULL THEN pA
    ELSE IF pB = NULL THEN [pA EXCEPT !.oom = TRUE]
    ELSE IF pA.oom \/ pB.oom THEN [pA EXCEPT !.oom = TRUE]
    ELSE LET n == SumShape(pA, pB)
         IN  AddAligned(decimal_expand(pA, n[1], n[2], bad = "A"),
                        decimal_expand(pB, n[1], n[2], bad = "B"))

\* One row of the long multiplication: f times b added into acc, the row's
\* last digit at position k (1-based), carry propagated one place beyond.
MulRow(acc, f, b, k) ==
    LET nB == Len(b)
        x[j \in 0..nB] ==               \* column j counted from the right
            acc[k - j] + (IF j < nB THEN f * b[nB - j] ELSE 0)
                       + (IF j = 0 THEN 0 ELSE x[j - 1] \div 10)
    IN  [i \in DOMAIN acc |->
            IF i \in (k - nB)..k THEN x[k - i] % 10
            ELSE IF i = k - nB - 1 THEN acc[i] + x[nB] \div 10
            ELSE acc[i]]

\* Mutant: the fraction of the second factor is not counted.
ProductOneFraction(pA, pB) ==
    LET nB == Len(pB.a)
        acc == FoldLeft(LAMBDA s, i : MulRow(s, pA.a[i], pB.a, i + nB + 2),
                        Zeros(Len(pA.a) + nB + 2), Reverse([i \in DOMAIN pA.a |-> i]))
    IN  [pA EXCEPT !.a = acc, !.sign = (@ # pB.sign)]

Product(pA, pB) ==
    LET nA   == Len(pA.a)
        nB   == Len(pB.a)
        minF == IF pB.nFrac < pA.nFrac THEN pB.nFrac ELSE pA.nFrac
        rows == [r \in 1..nA |-> nA - r + 1]       \* i from nDigit-1 down
        acc  == FoldLeft(LAMBDA s, i : MulRow(s, pA.a[i], pB.a, i + nB + 2),
                         Zeros(nA + nB + 2), rows)
    IN  TrimFraction([pA EXCEPT !.a = acc, !.nFrac = @ + pB.nFrac,
                                !.sign = (@ # pB.sign)], minF)

decimalMul(pA, pB, bad) ==
    IF pA = NULL \/ pB = NULL THEN pA
    ELSE IF pA.oom \/ pB.oom THEN pA
    ELSE IF bad \/ Len(pA.a) + Len(pB.a) + 2 > MaxDigit THEN [pA EXCEPT !.oom = TRUE]
    ELSE Product(pA, pB)

\* decimalPow2 squares pX once per bit of N.  A failed squaring only marks pX,
\* which the next multiplication then skips (bad = "square").
decimalPow2(N, bad) ==
    LET n     == IF N < 0 THEN -N ELSE N
        one   == decimalNewFromText(<<"1", ".", "0">>, FALSE)
        base  == decimalNewFromText(IF N > 0 THEN <<"2", ".", "0">>
                                    ELSE <<"0", ".", "5">>, FALSE)
        top   == CHOOSE k \in 0..n : 2^k <= n /\ n < 2^(k + 1)
        X[k \in 0..top] == IF k = 0 THEN base
                           ELSE decimalMul(X[k - 1], X[k - 1], bad = "square")
        bits  == SelectSeq([k \in 1..(top + 1) |-> k - 1],
                           LAMBDA k : (n \div 2^k) % 2 = 1)
        pA    == FoldLeft(LAMBDA p, k : decimalMul(p, X[k], bad = "mul"), one, bits)
    IN  CASE n > Pow2Cap \/ bad = "newA" -> NULL
          [] n <= Pow2Cap /\ bad # "newA" /\ n = 0 -> one
          [] n <= Pow2Cap /\ bad # "newA" /\ n > 0 -> IF pA.oom THEN NULL ELSE pA

\* The text "%lld" prints for an integer.
IntText(m) ==
    LET n == IF m < 0 THEN -m ELSE m
        L == CHOOSE k \in 1..11 : n < 10^k /\ (k = 1 \/ n >= 10^(k - 1))
    IN  (IF m < 0 THEN <<"-">> ELSE <<>>)
        \o [i \in 1..L |-> Char((n \div 10^(L - i)) % 10)]

\* A double is its three bit fields: s, e and m.  Decompose finds m and e with
\* r = m * 2^e, m odd unless e is at its limit.  The shift that extracts e is
\* of a signed integer, so a sign bit that the comparison with 0.0 did not
\* remove (a NaN's, or that of -0.0) makes it negative.
Decompose(r) ==
    LET nan   == r.e = 2^ExpField - 1 /\ r.m # 0
        isNeg == r.s = 1 /\ ~nan /\ ~(r.e = 0 /\ r.m = 0)
        e0    == IF r.s = 1 /\ ~isNeg THEN r.e - 2^ExpField ELSE r.e
        m0    == IF e0 = 0 THEN 2 * r.m ELSE r.m + 2^MantBits
        K     == {k \in 0..(MantBits + 1) :
                    /\ m0 % 2^k = 0
                    /\ \A j \in 0..(k - 1) : e0 + j < ExpOffset}
        k     == CHOOSE x \in K : \A y \in K : y <= x
    IN  [m |-> (m0 \div 2^k) * (IF isNeg THEN -1 ELSE 1), e |-> e0 + k - ExpOffset]

\* decimalFromDouble takes -0.0 for zero, ieee754() does not.
decimalFromDouble(r, bad) ==
    LET zero == r.e = 0 /\ r.m = 0
        d    == IF zero THEN [m |-> 0, e |-> 0] ELSE Decompose(r)
    IN  IF ~zero /\ d.e > ExpLimit THEN NULL
        ELSE decimalMul(decimalNewFromText(IntText(d.m), bad = "newB"),
                        decimalPow2(d.e, bad), bad = "mul")

(***************************************************************************)
(* An SQL value v is a text or an integer (field z), a float or an 8-byte  *)
(* blob (the fields of a double), a blob of another length, or NULL.       *)
(* decimal_new reports a failed allocation on the context; NewFails says   *)
(* when.                                                                   *)
(***************************************************************************)
decimal_new(v, bTextOnly, bad, site) ==
    CASE v.t = "text" -> decimalNewFromText(v.z, bad = site)
      [] v.t \in {"float", "blob8"} /\ ~bTextOnly -> decimalFromDouble(v, bad)
      [] OTHER -> NULL

NewFails(v, p) == v.t = "text" /\ p = NULL

-----------------------------------------------------------------------------
(***************************************************************************)
(* What decimal literals and result texts denote, as a reference for the   *)
(* two implementations of the decimal functions (the extension's and the   *)
(* shell's), and the arguments both are given.                             *)
(***************************************************************************)

CONSTANTS
    Literals,        \* decimal literals: [neg, int, point, frac, exp]
    Pairs,           \* the pairs of literals the two-argument functions get
    Doubles,         \* doubles: [s, e, m]
    Failures         \* the allocations that may fail; "none" for none

------------------------------------------------------------------------------
\* A literal as the text SQL passes.
SqlNull == [t |-> "null"]
SignText(neg) == IF neg THEN <<"-">> ELSE <<>>
Text(l) ==
    SignText(l.neg) \o Chars(l.int) \o (IF l.point THEN <<".">> ELSE <<>>) \o Chars(l.frac)
    \o (IF l.exp = 0 THEN <<>> ELSE <<"e">> \o SignText(l.exp < 0)
                                    \o <<Char(IF l.exp < 0 THEN -l.exp ELSE l.exp)>>)
Arg0(x) == IF x = NULL THEN SqlNull ELSE [t |-> "text", z |-> Text(x)]

(***************************************************************************)
(* Values.  A number is <<n, k>>, meaning n / 10^k, with n not divisible   *)
(* by ten: what a literal denotes, and what a result text denotes.         *)
(***************************************************************************)
Canon(n, k) ==
    IF n = 0 THEN <<0, 0>>
    ELSE LET abs == IF n < 0 THEN -n ELSE n
             J   == {j \in 0..9 : abs % 10^j = 0}
             j   == CHOOSE x \in J : \A y \in J : y <= x
         IN  <<IF n < 0 THEN -(abs \div 10^j) ELSE abs \div 10^j, k - j>>

Whole(digits) == FoldLeft(LAMBDA x, d : 10 * x + d, 0, digits)
Signed(neg, n) == IF neg THEN -n ELSE n

LitValue(l) == Canon(Signed(l.neg, Whole(l.int \o l.frac)), Len(l.frac) - l.exp)

TextValue(t) ==
    LET neg  == t[1] = "-"
        u    == IF neg THEN Tail(t) ELSE t
        dot  == SkipAll(u, 1, {Char(d) : d \in 0..9})
        ds   == SelectSeq(u, IsDigit)
    IN  Canon(Signed(neg, Whole([i \in DOMAIN ds |-> Digit(ds[i])])),
              IF dot > Len(u) THEN 0 ELSE Len(u) - dot)

SciValue(r) == Canon(Signed(r.sign, Whole(r.a)), Len(r.a) - 1 - r.exp)

Plus(x, y) ==
    LET k == IF x[2] < y[2] THEN y[2] ELSE x[2]
    IN  Canon(x[1] * 10^(k - x[2]) + y[1] * 10^(k - y[2]), k)
Negated(x) == <<-x[1], x[2]>>
Times(x, y) == Canon(x[1] * y[1], x[2] + y[2])
Compare(x, y) == LET d == Plus(x, Negated(y))[1] IN IF d < 0 THEN -1 ELSE IF d > 0 THEN 1 ELSE 0

\* m * 2^e as <<n, k>>.
TimesPow2(m, e) == IF e >= 0 THEN Canon(m * 2^e, 0) ELSE Canon(m * 5^(-e), -e)
DoubleValue(r) ==
    LET m == IF r.e = 0 THEN 2 * r.m ELSE r.m + 2^MantBits
    IN  TimesPow2(Signed(r.s = 1, m), r.e - ExpOffset)

\* x rounded to N significant digits, halves away from zero.
Rounded(x, N) ==
    LET abs == IF x[1] < 0 THEN -x[1] ELSE x[1]
        L   == CHOOSE k \in 1..10 : (k = 10 \/ abs < 10^k) /\ (k = 1 \/ abs >= 10^(k - 1))
        cut == IF N < 1 \/ L <= N THEN 0 ELSE L - N
        up  == (abs + (10^cut \div 2)) \div 10^cut
    IN  IF cut = 0 THEN x ELSE Canon(Signed(x[1] < 0, up), x[2] - cut)
=============================================================================
