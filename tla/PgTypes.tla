------------------------------- MODULE PgTypes -------------------------------
(***************************************************************************)
(* The loadable extension mvsqlite_pgtypes as SQL sees it: how its entry   *)
(* point registers the functions of its four parts, the scalar functions   *)
(* of Decimal and those of uuid.c and ipaddr below as calls (the variable  *)
(* call holds the last one with its result), and the aggregate decimal_sum *)
(* with its state.                                                         *)
(* generate_series is in Series.                                           *)
(***************************************************************************)
EXTENDS Decimal, FiniteSetsExt, Integers, Sequences, Bitwise

-----------------------------------------------------------------------------
(***************************************************************************)
(* The functions of mvsqlite-pgtypes-ext/uuid.c.  A text is a sequence of  *)
(* ASCII codes, a blob a sequence of bytes.  The sizes that uuid.c writes  *)
(* as literals are constants, so that short UUIDs can be enumerated.       *)
(***************************************************************************)

CONSTANTS
    NoUuid,         \* a null pointer: the text is not a UUID
    UuidBytes,      \* 16
    DashBefore,     \* {4, 6, 8, 10}, the bits of 0x550
    VersionByte,    \* 6
    VariantByte     \* 8

Dash == 45
Open == 123
Closing == 125
isxdigit(c) == c \in (48..57) \cup (65..70) \cup (97..102)

\* Mutant: letters are not told from digits.
HexDigitsOnly(h) == h % 16

\* Bit 6 of the ASCII code tells a letter from a digit.
sqlite3UuidHexToInt(h) == (h + 9 * ((h \div 64) % 2)) % 16
zDigit(x) == IF x < 10 THEN 48 + x ELSE 87 + x

sqlite3UuidBlobToStr(aBlob) ==
    LET text[i \in 0..UuidBytes] ==
            IF i = 0 THEN <<>>
            ELSE text[i - 1] \o (IF i - 1 \in DashBefore THEN <<Dash>> ELSE <<>>)
                 \o <<zDigit(aBlob[i] \div 16), zDigit(aBlob[i] % 16)>>
    IN  text[UuidBytes]

\* After n bytes: where the parser stands (0: it has given up) and what it
\* has read.  The text ends in a zero, which is no digit.
sqlite3UuidStrToBlob(zStr) ==
    LET z     == zStr \o <<0, 0>>
        start == IF z[1] = Open THEN 2 ELSE 1
        st[n \in 0..UuidBytes] ==
            IF n = 0 THEN [at |-> start, blob |-> <<>>]
            ELSE LET p == st[n - 1]
                     k == IF z[p.at] = Dash THEN p.at + 1 ELSE p.at
                 IN  IF p.at = 0 THEN p
                     ELSE IF isxdigit(z[k]) /\ isxdigit(z[k + 1])
                     THEN [at |-> k + 2,
                           blob |-> Append(p.blob, sqlite3UuidHexToInt(z[k]) * 16
                                                   + sqlite3UuidHexToInt(z[k + 1]))]
                     ELSE [at |-> 0, blob |-> <<>>]
        fin   == st[UuidBytes]
        at    == IF z[fin.at] = Closing THEN fin.at + 1 ELSE fin.at
    IN  IF fin.at = 0 THEN NoUuid
        ELSE IF z[at] # 0 THEN NoUuid ELSE fin.blob

\* An argument is a text, a blob, or a value of another type.
sqlite3UuidInputToBlob(v) ==
    CASE v.t = "text" -> sqlite3UuidStrToBlob(v.z)
      [] v.t = "blob" -> IF Len(v.z) = UuidBytes THEN v.z ELSE NoUuid
      [] OTHER -> NoUuid

\* uuid() stamps version 4 and variant 1 on random bytes.
sqlite3UuidFunc(random) ==
    sqlite3UuidBlobToStr([i \in DOMAIN random |->
        IF i = VersionByte + 1 THEN (random[i] % 16) + 64
        ELSE IF i = VariantByte + 1 THEN (random[i] % 64) + 128
        ELSE random[i]])

sqlite3UuidStrFunc(v) ==
    LET b == sqlite3UuidInputToBlob(v)
    IN  IF b = NoUuid THEN NoUuid ELSE sqlite3UuidBlobToStr(b)

sqlite3UuidBlobFunc(v) == sqlite3UuidInputToBlob(v)

-----------------------------------------------------------------------------
-----------------------------------------------------------------------------
(***************************************************************************)
(* The functions of mvsqlite-pgtypes-ext/ipaddr/extension.c.  An argument  *)
(* is null or a text; a text is abstracted to what inet_pton and strtoul   *)
(* make of it: the family of its address (4, 6, or 0 when it is none), the *)
(* address's bits, and its mask: none, not a number, or a number.  An IPv4 *)
(* address is one word of V4Bits bits, an IPv6 address V6Bytes bytes of    *)
(* ByteBits bits.                                                          *)
(***************************************************************************)

CONSTANTS
    NoAddr,      \* a null pointer, and the SQL NULL
    V4Bits,      \* 32
    V6Bytes,     \* 16
    ByteBits     \* 8

Byte == 2^ByteBits

parse_ipaddress(x) ==
    IF x.mask = "garbage" \/ x.af = 0 THEN NoAddr
    ELSE LET width == IF x.af = 4 THEN V4Bits ELSE V6Bytes * ByteBits
         IN  IF x.mask = "number" /\ x.len > width THEN NoAddr
             ELSE [af |-> x.af, addr |-> x.addr,
                   masklen |-> IF x.mask = "number" THEN x.len ELSE width]

\* What clears the host bits: of a word, and of byte i (from 0) of an IPv6
\* address.
Mask4(addr, masklen) == addr - (addr % 2^(V4Bits - masklen))
Mask6(byte, i, masklen) ==
    IF masklen \div ByteBits < i THEN 0
    ELSE IF masklen \div ByteBits = i THEN byte & (Byte - 1 - (masklen % ByteBits))
    ELSE byte

Masked(ip, masklen) ==
    IF ip.af = 4 THEN Mask4(ip.addr, masklen)
    ELSE [i \in 1..V6Bytes |-> Mask6(ip.addr[i], i - 1, masklen)]

\* Every function gives NULL for a null argument and for one that does not
\* parse.
OfAddress(x, F(_)) ==
    IF x.null THEN NoAddr
    ELSE LET ip == parse_ipaddress(x) IN IF ip = NoAddr THEN NoAddr ELSE F(ip)

ipaddr_ipfamily(x) == OfAddress(x, LAMBDA ip : ip.af)
ipaddr_iphost(x) == OfAddress(x, LAMBDA ip : [af |-> ip.af, addr |-> ip.addr])
ipaddr_ipmasklen(x) == OfAddress(x, LAMBDA ip : ip.masklen)

\* Mutant: the network loses its mask.
NetworkUnmasked(x) ==
    OfAddress(x, LAMBDA ip : [null |-> FALSE, af |-> ip.af, mask |-> "none",
                              len |-> 0, addr |-> Masked(ip, ip.masklen)])

\* The network is again an address with its mask.
ipaddr_ipnetwork(x) ==
    OfAddress(x, LAMBDA ip : [null |-> FALSE, af |-> ip.af, mask |-> "number",
                              len |-> ip.masklen, addr |-> Masked(ip, ip.masklen)])

\* Mutant: a network contains a wider one.
ContainsWider(net, x) ==
    IF net.null \/ x.null THEN NoAddr
    ELSE LET ip1 == parse_ipaddress(net)
             ip2 == parse_ipaddress(x)
         IN  IF ip1 = NoAddr \/ ip2 = NoAddr THEN NoAddr
             ELSE IF ip1.af = ip2.af /\ Masked(ip1, ip1.masklen) = Masked(ip2, ip1.masklen) THEN 1 ELSE 0

ipaddr_ipcontains(net, x) ==
    IF net.null \/ x.null THEN NoAddr
    ELSE LET ip1 == parse_ipaddress(net)
             ip2 == parse_ipaddress(x)
         IN  IF ip1 = NoAddr \/ ip2 = NoAddr THEN NoAddr
             ELSE IF ip1.af # ip2.af \/ ip1.masklen > ip2.masklen THEN 0
             ELSE IF Masked(ip1, ip1.masklen) = Masked(ip2, ip1.masklen) THEN 1 ELSE 0

-----------------------------------------------------------------------------
CONSTANTS
    Summands,        \* the values decimal_sum adds
    Rounds,          \* the second arguments of decimal(X,N)
    UuidArgs,        \* arguments of uuid_str and uuid_blob
    RandomBlobs,     \* what sqlite3_randomness may return
    Addrs,           \* arguments of the ip functions
    MaxSum           \* decimal_sum is stepped at most this often

VARIABLES
    funcs,           \* who provides each registered SQL function
    loading,         \* the load in progress: its part, its result
    call,            \* the last call of a scalar function
    agg,             \* the aggregate context of decimal_sum
    window           \* the values in its window frame, oldest first

pgvars == <<funcs, loading, call, agg, window>>

NoCall == [fn |-> "none"]
NoAgg == [isInit |-> FALSE]

\* The calls, the aggregate and the load share no state: one at a time.
Quiet == call = NoCall /\ agg = NoAgg /\ loading.rc = "none"

------------------------------------------------------------------------------
(***************************************************************************)
(* Registration.  A part registers its functions in order and stops at the *)
(* first error; the parts run in order, and the first error ends the load. *)
(* ipaddr_init looks at no result.  sqlite3_create_function (external)     *)
(* refuses to replace a function or a collation, but not a module, while a *)
(* statement is running.                                                   *)
(***************************************************************************)
Parts == <<"uuid", "decimal", "series", "ipaddr">>
Functions(part) ==
    CASE part = "uuid" -> <<"uuid", "uuid_str", "uuid_blob">>
      [] part = "decimal" -> <<"decimal/1", "decimal/2", "decimal_exp/1", "decimal_exp/2",
                               "decimal_cmp", "decimal_add", "decimal_sub", "decimal_mul",
                               "decimal_pow2", "decimal_sum", "collate_decimal">>
      [] part = "series" -> <<"generate_series">>
      [] part = "ipaddr" -> <<"ipfamily", "iphost", "ipmasklen", "ipnetwork", "ipcontains">>

\* What the shell's open_db has registered on its connection.
ShellFunctions == {"decimal/1", "decimal_cmp", "decimal_add", "decimal_sub",
                   "decimal_mul", "decimal_sum", "collate_decimal", "generate_series"}

sqlite3_create_function(fs, name, active, oom) ==
    IF (name \in DOMAIN fs \ {"generate_series"} /\ active) \/ oom THEN [rc |-> "error", fs |-> fs]
    ELSE [rc |-> "ok", fs |-> [n \in DOMAIN fs \cup {name} |->
                                 IF n = name THEN "pgtypes" ELSE fs[n]]]

\* Mutant: the results are not looked at.
InitPartUnchecked(fs, part, active, oomAt) ==
    FoldLeft(LAMBDA s, name : [fs |-> sqlite3_create_function(s.fs, name, active, name = oomAt).fs, rc |-> "ok"],
             [fs |-> fs, rc |-> "ok"], Functions(part))

\* One of the init functions: names up to the first refusal.
InitPart(fs, part, active, oomAt) ==
    FoldLeft(LAMBDA s, name :
                LET r == sqlite3_create_function(s.fs, name, active, name = oomAt)
                IN  IF s.rc = "error" /\ part # "ipaddr" THEN s
                    ELSE [fs |-> r.fs, rc |-> IF part = "ipaddr" THEN "ok" ELSE r.rc],
             [fs |-> fs, rc |-> "ok"], Functions(part))

\* sqlite3_mvsqlitepgtypes_init, called by load_extension() in a running
\* SELECT (active) or by .load (not active), on a connection of the shell or
\* on a plain one; the allocation for one name may fail.
sqlite3_mvsqlitepgtypes_init(inShell, active, oomAt) ==
    /\ Quiet
    /\ LET fs0 == [n \in (IF inShell THEN ShellFunctions ELSE {}) |-> "shell"]
           fin == FoldLeft(LAMBDA s, part : IF s.rc # "ok" THEN s
                                            ELSE InitPart(s.fs, part, active, oomAt),
                           [fs |-> fs0, rc |-> "ok"], Parts)
       IN  /\ funcs' = fin.fs
           /\ loading' = [rc |-> fin.rc, shell |-> inShell, active |-> active, oomAt |-> oomAt]
    /\ UNCHANGED <<call, agg, window>>

------------------------------------------------------------------------------
(***************************************************************************)
(* Calls of the scalar functions.                                          *)
(***************************************************************************)
Return(fn, args, bad, ret) ==
    /\ Quiet
    /\ call' = [fn |-> fn, args |-> args, bad |-> bad, ret |-> ret]
    /\ UNCHANGED <<funcs, loading, agg, window>>

\* decimal(X), decimal(X,N) and decimal_exp(X,N); N is 0 with one argument.
RoundedResult(v, p, N, sci, bad) ==
    IF p = NULL THEN (IF NewFails(v, p) THEN NOMEM ELSE NULL)
    ELSE IF sci THEN decimal_result_sci(p, N, bad = "result")
    ELSE decimal_result(p, bad = "result")
decimalFunc(v, lit, N, sci, bad) ==
    Return(IF sci THEN "decimal_exp" ELSE "decimal", <<lit, N>>, bad,
           RoundedResult(v, decimal_round(decimal_new(v, FALSE, bad, "newA"), N, bad = "A"), N, sci, bad))

\* The functions of two arguments x and y; pA and pB are what decimal_new made
\* of them.

decimalCmpFunc(x, y, pA, pB, bad) ==
    Return("decimal_cmp", <<x, y>>, bad,
           IF pA = NULL THEN (IF NewFails(Arg0(x), pA) THEN NOMEM ELSE NULL)
           ELSE IF pB = NULL THEN (IF NewFails(Arg0(y), pB) THEN NOMEM ELSE NULL)
           ELSE LET rc == decimal_cmp(pA, pB) IN IF rc < 0 THEN -1 ELSE IF rc > 0 THEN 1 ELSE 0)

\* The collation compares the same way; a failed allocation makes any two
\* keys equal.
decimalCollFunc(x, y, bad) ==
    LET pA == decimalNewFromText(Text(x), bad = "newA")
        pB == decimalNewFromText(Text(y), bad = "newB")
    IN  Return("collate_decimal", <<x, y>>, bad,
               IF pA = NULL \/ pB = NULL THEN 0 ELSE decimal_cmp(pA, pB))

decimalAddFunc(x, y, pA, pB, bad) ==
    Return("decimal_add", <<x, y>>, bad, decimal_result(decimal_add(pA, pB, bad), bad = "result"))

\* decimal_sub looks at its second argument only: without one the result is
\* NULL, or the error decimal_new reported.
decimalSubFunc(x, y, pA, pB, bad) ==
    Return("decimal_sub", <<x, y>>, bad,
           IF pB = NULL
           THEN (IF NewFails(Arg0(x), pA) \/ NewFails(Arg0(y), pB) THEN NOMEM ELSE NULL)
           ELSE decimal_result(decimal_add(pA, [pB EXCEPT !.sign = ~@], bad), bad = "result"))

\* decimal_mul reports no error of its own when the product is too large.
ProductResult(p, bad) == IF p.oom THEN NULL ELSE decimal_result(p, bad)
decimalMulFunc(x, y, pA, pB, bad) ==
    Return("decimal_mul", <<x, y>>, bad,
           IF pA = NULL \/ pB = NULL
           THEN (IF NewFails(Arg0(x), pA) \/ NewFails(Arg0(y), pB) THEN NOMEM ELSE NULL)
           ELSE ProductResult(decimalMul(pA, pB, bad = "mul"), bad = "result"))

decimalPow2Func(N, bad) ==
    Return("decimal_pow2", <<N>>, bad,
           decimal_result_sci(decimalPow2(N, bad), 0, bad = "result"))

uuidFunc(random) ==
    Return("uuid", <<random>>, "none", sqlite3UuidFunc(random))
uuid_str(v) == Return("uuid_str", <<v>>, "none", sqlite3UuidStrFunc(v))
uuid_blob(v) == Return("uuid_blob", <<v>>, "none", sqlite3UuidBlobFunc(v))

ipfamily(x) == Return("ipfamily", <<x>>, "none", ipaddr_ipfamily(x))
iphost(x) == Return("iphost", <<x>>, "none", ipaddr_iphost(x))
ipmasklen(x) == Return("ipmasklen", <<x>>, "none", ipaddr_ipmasklen(x))
ipnetwork(x) == Return("ipnetwork", <<x>>, "none", ipaddr_ipnetwork(x))
ipcontains(net, x) ==
    Return("ipcontains", <<net, x>>, "none", ipaddr_ipcontains(net, x))

\* The statement ends.
EndCall ==
    /\ call # NoCall
    /\ call' = NoCall
    /\ UNCHANGED <<funcs, loading, agg, window>>

------------------------------------------------------------------------------
(***************************************************************************)
(* The aggregate decimal_sum, used as a window function: xStep for a row   *)
(* that enters the frame, xInverse for the oldest row when it leaves, the  *)
(* result (xValue, xFinal) read off the context at any time.               *)
(***************************************************************************)
ZeroDecimal(bad) == [sign |-> FALSE, oom |-> bad, a |-> <<0>>, nFrac |-> 0]

decimalSumStep(x, bad) ==
    LET p == IF agg.isInit THEN agg.p ELSE ZeroDecimal(bad = "init")
        q == IF x = NULL THEN p
             ELSE decimal_add(p, decimal_new(Arg0(x), TRUE, bad, "newB"), bad)
    IN  /\ call = NoCall /\ loading.rc = "none"
        /\ Len(window) < MaxSum
        /\ agg' = [isInit |-> TRUE, p |-> q,
                   failed |-> bad # "none" \/ (agg.isInit /\ agg.failed)]
        /\ window' = Append(window, x)
        /\ UNCHANGED <<funcs, loading, call>>

\* Mutant: the row that leaves is added once more.
SumInverseAdds(bad) ==
    /\ window # <<>>
    /\ agg' = [agg EXCEPT !.p = IF Head(window) = NULL THEN @
                                ELSE decimal_add(@, decimal_new(Arg0(Head(window)), TRUE, bad, "newB"), bad),
                          !.failed = @ \/ bad # "none"]
    /\ window' = Tail(window)
    /\ UNCHANGED <<funcs, loading, call>>

decimalSumInverse(bad) ==
    LET x == Head(window)
        b == decimal_new(Arg0(x), TRUE, bad, "newB")
        q == IF b = NULL THEN decimal_add(agg.p, NULL, bad)
             ELSE decimal_add(agg.p, [b EXCEPT !.sign = ~@], bad)
    IN  /\ window # <<>>
        /\ agg' = [agg EXCEPT !.p = IF x = NULL THEN agg.p ELSE q,
                              !.failed = @ \/ bad # "none"]
        /\ window' = Tail(window)
        /\ UNCHANGED <<funcs, loading, call>>

\* xFinal ends the query; the context is released.
decimalSumFinalize ==
    /\ agg.isInit
    /\ agg' = NoAgg
    /\ window' = <<>>
    /\ UNCHANGED <<funcs, loading, call>>
decimalSumValue == IF agg.isInit THEN decimal_result(agg.p, FALSE) ELSE NULL

------------------------------------------------------------------------------
PgInit ==
    /\ funcs = <<>> /\ loading = [rc |-> "none"]
    /\ call = NoCall /\ agg = NoAgg /\ window = <<>>

TwoDecimals(x, y, pA, pB, bad) ==
    \/ decimalCmpFunc(x, y, pA, pB, bad)
    \/ decimalAddFunc(x, y, pA, pB, bad)
    \/ decimalSubFunc(x, y, pA, pB, bad)
    \/ decimalMulFunc(x, y, pA, pB, bad)

\* The allocations that a call with these names makes, and none that fails.
Failing(S) == Failures \cap (S \cup {"none"})

DecimalCalls ==
    /\ Quiet
    /\ \/ \E l \in Literals, N \in Rounds, sci \in BOOLEAN, bad \in Failing({"newA", "A", "result"}) :
             decimalFunc([t |-> "text", z |-> Text(l)], l, N, sci, bad)
       \/ \E r \in Doubles, t \in {"float", "blob8"}, bad \in Failures :
             decimalFunc([t |-> t, s |-> r.s, e |-> r.e, m |-> r.m], r, 0, FALSE, bad)
       \/ \E pr \in Pairs, bad \in Failing({"newA", "newB", "A", "B", "mul", "result"}) :
             \/ TwoDecimals(pr[1], pr[2], decimal_new(Arg0(pr[1]), TRUE, bad, "newA"),
                            decimal_new(Arg0(pr[2]), TRUE, bad, "newB"), bad)
             \/ NULL \notin {pr[1], pr[2]} /\ decimalCollFunc(pr[1], pr[2], bad)
       \/ \E N \in -Pow2Cap - 1..Pow2Cap + 1, bad \in Failures : decimalPow2Func(N, bad)

OtherCalls ==
    /\ Quiet
    /\ \/ \E b \in RandomBlobs : uuidFunc(b)
       \/ \E v \in UuidArgs : uuid_str(v) \/ uuid_blob(v)
       \/ \E x \in Addrs : ipfamily(x) \/ iphost(x) \/ ipmasklen(x) \/ ipnetwork(x)
       \/ \E x, y \in Addrs : ipcontains(x, y)

Unload ==
    /\ loading.rc # "none"
    /\ loading' = [rc |-> "none"] /\ funcs' = <<>>
    /\ UNCHANGED <<call, agg, window>>

PgNext ==
    \/ Quiet /\ \E sh, act \in BOOLEAN, name \in {"none"} \cup UNION {ToSet(Functions(Parts[k])) : k \in 1..4} :
           sqlite3_mvsqlitepgtypes_init(sh, act, name)
    \/ Unload
    \/ DecimalCalls
    \/ OtherCalls
    \/ EndCall
    \/ \E x \in Summands \cup {NULL}, bad \in Failing({"init", "newB", "A", "B"}) : decimalSumStep(x, bad)
    \/ \E bad \in Failing({"newB", "A", "B"}) : decimalSumInverse(bad)
    \/ decimalSumFinalize

PgSpec == PgInit /\ [][PgNext]_pgvars

------------------------------------------------------------------------------
Total(xs) == FoldLeft(LAMBDA t, x : IF x = NULL THEN t ELSE Plus(t, LitValue(x)), <<0, 0>>, xs)

Called(F) == call.fn \in F
Refused == call.ret \in {NULL, NOMEM}
NoNullArgs == \A k \in DOMAIN call.args : call.args[k] # NULL

\* decimal_add, decimal_sub and decimal_mul are exact: whatever the lengths,
\* signs and exponents of their arguments, the text they return denotes the
\* exact sum, difference or product, and an allocation that fails on the way
\* gives an error or NULL, never a wrong number (the oom flags of decimal_add
\* and decimalMul).
DecimalArithmeticExact ==
    Called({"decimal_add", "decimal_sub", "decimal_mul"}) /\ NoNullArgs =>
        LET x == LitValue(call.args[1])
            y == LitValue(call.args[2])
        IN  IF Refused THEN call.bad # "none"
            ELSE TextValue(call.ret) = CASE call.fn = "decimal_add" -> Plus(x, y)
                                         [] call.fn = "decimal_sub" -> Plus(x, Negated(y))
                                         [] call.fn = "decimal_mul" -> Times(x, y)

\* decimal_cmp and the decimal collation order literals without an exponent
\* by value (decimal_cmp drops trailing zeros of the fraction and compares
\* digit counts first).
Sign(n) == IF n < 0 THEN -1 ELSE IF n > 0 THEN 1 ELSE 0
DecimalOrderExact ==
    /\ Called({"decimal_cmp", "collate_decimal"}) /\ NoNullArgs /\ call.bad = "none"
    /\ call.args[1].exp = 0 /\ call.args[2].exp = 0
    => Sign(call.ret) = Compare(LitValue(call.args[1]), LitValue(call.args[2]))

\* decimal(X), decimal(X,N) and decimal_exp(X,N) keep the value of X, rounded
\* to N digits: of a literal, and of the double nearest to it, which is
\* expanded exactly (decimalFromDouble, decimal_round with its carry into a
\* new digit, decimal_result_sci).  A failed allocation is an error, except one
\* in the power of two of a double (decimalFromDouble does not look at what
\* decimalPow2 returns), which is left out here.
NaN(r) == r.e = 2^ExpField - 1
DecimalConversionExact ==
    Called({"decimal", "decimal_exp"}) =>
        LET x  == call.args[1]
            ok == IF call.fn = "decimal_exp" THEN SciValue(call.ret) ELSE TextValue(call.ret)
        IN  IF "m" \notin DOMAIN x
            THEN IF Refused THEN call.bad # "none" ELSE ok = Rounded(LitValue(x), call.args[2])
            ELSE NaN(x) \/ call.bad \in {"newA", "square", "mul"}
                 \/ IF Refused THEN call.bad # "none" ELSE ok = DoubleValue(x)

\* decimal_pow2(N) is exactly 2^N, and NOMEM beyond the cap.
DecimalPow2Exact ==
    Called({"decimal_pow2"}) /\ call.bad # "square" =>
        LET N == call.args[1]
        IN  IF Refused THEN call.bad # "none" \/ N > Pow2Cap \/ N < -Pow2Cap
            ELSE SciValue(call.ret) = TimesPow2(1, N)

\* However rows enter and leave its window frame, decimal_sum shows the exact
\* sum of the rows in it, or NOMEM once an allocation has failed; the leading
\* digit that each addition adds is given back, so the number of digits stays
\* within MaxDigit.
DecimalSumTracksWindow ==
    agg.isInit => IF agg.p.oom THEN agg.failed
                  ELSE TextValue(decimalSumValue) = Total(window)

\* uuid_str is a normal form: what it accepts it turns into the lower-case
\* dashed form of the same digits, on which it is the identity and from which
\* uuid_blob gets the same bytes; uuid() has version 4 and variant 1.
HexDigits(z) == [i \in DOMAIN SelectSeq(z, isxdigit) |-> sqlite3UuidHexToInt(SelectSeq(z, isxdigit)[i])]
TextArg(z) == [t |-> "text", z |-> z]
UuidNormalForm ==
    /\ Called({"uuid", "uuid_str"}) /\ call.ret # NoUuid =>
           /\ sqlite3UuidStrFunc(TextArg(call.ret)) = call.ret
           /\ {c \in ToSet(call.ret) : isxdigit(c)} \cap (65..70) = {}
           /\ Len(call.ret) = 2 * UuidBytes + Cardinality(DashBefore)
    /\ Called({"uuid_str"}) /\ call.ret # NoUuid =>
           /\ sqlite3UuidBlobFunc(TextArg(call.ret)) = sqlite3UuidBlobFunc(call.args[1])
           /\ call.args[1].t = "text" => HexDigits(call.args[1].z) = HexDigits(call.ret)
    /\ Called({"uuid"}) =>
           LET b == sqlite3UuidBlobFunc(TextArg(call.ret))
           IN  b[VersionByte + 1] \div 16 = 4 /\ b[VariantByte + 1] \div 64 = 2

\* The network of an address contains the address, in both families.
IpNetworkContains ==
    Called({"ipnetwork"}) /\ call.ret # NoAddr =>
        ipaddr_ipcontains(call.ret, [call.args[1] EXCEPT !.mask = "none"]) = 1

\* ipcontains(NET, X) holds exactly when X, no wider than NET, agrees with NET
\* on the first masklen bits (IPv4).
Contained(net, x) ==
    /\ net.af = x.af /\ ipaddr_ipmasklen(net) <= ipaddr_ipmasklen(x)
    /\ IF net.af = 4
       THEN LET h == 2^(V4Bits - ipaddr_ipmasklen(net)) IN net.addr \div h = x.addr \div h
       ELSE \A i \in 0..V6Bytes - 1, b \in 1..ByteBits :
                LET h == 2^(ByteBits - b)
                IN  i * ByteBits + b <= ipaddr_ipmasklen(net)
                    => (net.addr[i + 1] \div h) % 2 = (x.addr[i + 1] \div h) % 2
IpContainsExact ==
    Called({"ipcontains"}) /\ call.ret # NoAddr /\ call.args[1].af = 4
    => (call.ret = 1 <=> Contained(call.args[1], call.args[2]))

\* A load that succeeds has registered every function whose registration is
\* checked; loaded outside a running statement, with memory to spare, it
\* succeeds and replaces all the shell had.
PgLoadComplete ==
    loading.rc # "none" =>
        /\ loading.rc = "ok" =>
              \A k \in 1..3 : \A f \in ToSet(Functions(Parts[k])) :
                  f \in DOMAIN funcs /\ funcs[f] = "pgtypes"
        /\ ~loading.active /\ loading.oomAt = "none" =>
              loading.rc = "ok" /\ \A f \in DOMAIN funcs : funcs[f] = "pgtypes"
=============================================================================
