----------------------------- MODULE MCExtensions -----------------------------
(***************************************************************************)
(* What SQLite is extended with, next to the VFS: the PostgreSQL types     *)
(* extension, the functions, virtual tables and the VFS the shell brings   *)
(* along, the index expert, and the shims in front of sqlite3_step.  They  *)
(* share no state, so a behaviour is one of its choice, `part'.            *)
(***************************************************************************)
EXTENDS PgTypes, Builtins, Series, Sha3, Regexp, FileIo, Completion, AppendVfs, Expert, Shim

VARIABLE part       \* the component this behaviour is about

-----------------------------------------------------------------------------
(* Decimal literals, doubles, UUIDs and addresses.                         *)
L(neg, int, frac, exp) == [neg |-> neg, int |-> int, point |-> frac # <<>>, frac |-> frac, exp |-> exp]
MCLiterals ==
    {L(n, i, f, e) : n \in BOOLEAN, i \in {<<0>>, <<9>>, <<9, 9>>},
                     f \in {<<>>, <<5>>, <<0, 9>>}, e \in {-1, 0, 2}}
MCOperands ==
    {L(n, i, f, e) : n \in BOOLEAN, i \in {<<>>, <<9>>}, f \in {<<5>>, <<0, 5>>}, e \in {-2, 0}}
    \cup {L(FALSE, <<0, 0>>, <<>>, 0), L(FALSE, <<1, 0>>, <<5>>, 0), L(TRUE, <<9, 9>>, <<>>, 1), L(FALSE, <<5>>, <<0, 0>>, 0), NULL}
MCPairs == MCOperands \X MCOperands
MCDoubles == [s : 0..1, e : 0..7, m : {0, 1, 4, 7}]
MCSummands == {L(FALSE, <<9, 9>>, <<>>, 0), L(TRUE, <<5>>, <<5>>, 0), L(FALSE, <<1>>, <<>>, -2)}
MCUuidArgs ==
    {[t |-> "text", z |-> z] : z \in UNION {[1..n -> {57, 65, 102, 45}] : n \in 0..4}}
    \cup {[t |-> "text", z |-> <<a, 48, 102>> \o m \o <<65, 57>> \o c] :
             a \in {123, 45, 71}, m \in {<<>>, <<45>>, <<45, 45>>}, c \in {<<>>, <<125>>, <<125, 125>>}}
    \cup {[t |-> "blob", z |-> z] : z \in {<<7>>, <<7, 250>>, <<7, 250, 7>>}}
    \cup {[t |-> "other"]}
MCRandom == {<<a, b>> : a \in {0, 79, 255}, b \in {0, 127, 255}}
IpArg(af, addr, mask, len) == [null |-> FALSE, af |-> af, addr |-> addr, mask |-> mask, len |-> len]
MCAddrs ==
    {IpArg(4, a, "number", n) : a \in 0..7, n \in 0..4} \cup {IpArg(4, a, "none", 0) : a \in 0..7}
    \cup {IpArg(6, <<a, b>>, "number", n) : a \in {0, 5}, b \in {0, 3, 5}, n \in 0..7}
    \cup {IpArg(6, <<3, 3>>, "none", 0), IpArg(0, 0, "none", 0), IpArg(4, 0, "garbage", 0),
          [null |-> TRUE, af |-> 0, addr |-> 0, mask |-> "none", len |-> 0]}
MCStrings == UNION {[1..n -> {48, 49, 97}] : n \in 0..3} \cup {<<97, 48, 48, 49, 97>>, <<47>>}
MCMantissas == {-63, -17, -8, -1, 0, 1, 7, 15, 16, 31, 62}
MCExponents == {-18, -13, -12, -11, -10, -9, -7, -6, -4, -1, 0, 1, 2, 12, 13}

-----------------------------------------------------------------------------
(* Queries of generate_series.                                             *)
SqlInt(n) == [null |-> FALSE, float |-> FALSE, n |-> n]
SqlReal(n) == [null |-> FALSE, float |-> TRUE, n |-> n]
NullArg == [null |-> TRUE, float |-> FALSE, n |-> 0]
Is(col, op, rhs) == [col |-> col, op |-> op, usable |-> TRUE, rhs |-> rhs]
Unusable(col) == [col |-> col, op |-> "EQ", usable |-> FALSE, rhs |-> SqlInt(0)]
IfGiven(col, S) == {<<>>} \cup {<<Is(col, "EQ", v)>> : v \in S}
Ints(S) == {SqlInt(n) : n \in S}
OnValue ==
    {<<>>} \cup {<<Is("value", op, r)>> : op \in {"EQ", "GE", "GT", "LE", "LT"},
                                          r \in {SqlInt(-8), SqlInt(7), SqlReal(5), NullArg}}
    \cup {<<Is("value", a, SqlInt(-3)), Is("value", b, SqlReal(9))>> : a \in {"GE", "GT"}, b \in {"LE", "LT"}}
Limited == {<<Is("offset", "EQ", SqlInt(o)), Is("limit", "EQ", SqlInt(l))>> : o \in {1, 3}, l \in {-1, 2}}
           \cup {<<Is("limit", "EQ", SqlInt(2))>>}
SeriesQuery(cons, o) == [cons |-> FlattenSeq(cons), order |-> o]
MCStarts == IfGiven("start", Ints({-8, -1, 7}))
MCStops == IfGiven("stop", Ints({-8, 5, 7}))
\* Unordered queries with LIMIT run upwards; ordered ones have no LIMIT
\* unless the plan sorts.
MCQueries ==
    {SeriesQuery(<<a, b, c, v>>, o) :
        a \in MCStarts, b \in MCStops, c \in IfGiven("step", Ints({-8, -3, 0, 2, 7})),
        v \in OnValue, o \in {"none", "desc"}}
    \cup {SeriesQuery(<<a, b, c, v, l>>, "none") :
            a \in MCStarts, b \in MCStops, c \in IfGiven("step", Ints({2, 7})),
            v \in {<<>>, <<Is("value", "GT", SqlReal(5))>>}, l \in Limited}
    \cup {SeriesQuery(<<<<Is("start", "EQ", SqlInt(-8)), Is("stop", "EQ", SqlInt(s))>>, c, l>>, "asc") :
            s \in {5, 7}, c \in IfGiven("step", Ints({2, 7})), l \in Limited}
    \cup {SeriesQuery(<<<<s, Is("stop", "EQ", r)>>>>, "none") :
            s \in {Is("start", "EQ", SqlInt(0)), Unusable("start")}, r \in {SqlInt(3), NullArg}}
Maybe(col, S) == IfGiven(col, S) \cup {<<Unusable(col)>>}
MCShellQueries ==
    {SeriesQuery(<<a, b, c>>, o) :
        a \in Maybe("start", Ints({-5, -1, 3}) \cup {NullArg}),
        b \in Maybe("stop", Ints({-5, 0, 2, 4}) \cup {NullArg}),
        c \in Maybe("step", Ints({-3, -2, 0, 1, 2})), o \in {"none", "asc", "desc"}}

-----------------------------------------------------------------------------
(* Content to hash.                                                        *)
SomeBytes(n) == [i \in 1..n |-> 16 * i + 1]
MCHashed ==
    {[type |-> t, z |-> SomeBytes(n), aligned |-> a] : t \in {"blob", "text"}, n \in 0..13, a \in BOOLEAN}
    \cup {[type |-> "null"]}
MCChunks == {[z |-> SomeBytes(n), aligned |-> a] : n \in 0..7, a \in BOOLEAN}
HashValues ==
    {[t |-> "null"], [t |-> "int", z |-> <<0, 78>>], [t |-> "float", z |-> <<0, 78>>], [t |-> "blob", z |-> <<>>]}
    \cup {[t |-> "text", z |-> z] : z \in {<<>>, <<78>>, <<82, 78>>, <<49, 58, 78>>}}
HashStmt(rs) == [sql |-> <<81>>, kind |-> "query", rows |-> rs]
MCSqlArgs ==
    {<<HashStmt(<<<<a, b>>>>)>> : a, b \in HashValues}
    \cup {<<HashStmt(<<<<a>>, <<b>>>>)>> : a, b \in HashValues}
    \cup {<<HashStmt(<<<<a>>>>), HashStmt(<<>>)>> : a \in HashValues}
    \cup {<<HashStmt(<<>>), [sql |-> <<>>, kind |-> k, rows |-> <<>>]>> : k \in {"empty", "bad", "write"}}
    \cup {<<>>, <<HashStmt(<<>>)>>}

-----------------------------------------------------------------------------
(* Regular expressions: syntax trees of the literals a, b, an accented e,  *)
(* ., [a-c], [^a..], \D, a \u escape and \b; texts that are none; subjects. *)
Lit(text, chars, neg) == [k |-> "lit", text |-> text, chars |-> chars, neg |-> neg, set |-> "chars"]
RA == Lit(<<97>>, {97}, FALSE)
RB == Lit(<<98>>, {98}, FALSE)
RDot == Lit(<<46>>, {}, TRUE)
RNot == Lit(<<91, 94, 97, 195, 169, 93>>, {97, 233}, TRUE)
RUni == Lit(<<92, 117, 48, 48, 101, 57>>, {233}, FALSE)
RWordB == [k |-> "lit", text |-> <<92, 98>>, chars |-> {}, neg |-> FALSE, set |-> "boundary"]
Leaves == {RA, Lit(<<195, 169>>, {233}, FALSE), RDot, Lit(<<91, 97, 45, 99, 93>>, {97, 98, 99}, FALSE),
           RNot, Lit(<<92, 68>>, 48..57, TRUE)}
Rep(t, text, m, n) == [k |-> "rep", a |-> t, text |-> text, m |-> m, n |-> n]
Reps(t) ==
    {Rep(t, <<42>>, 0, -1), Rep(t, <<43>>, 1, -1), Rep(t, <<63>>, 0, 1), Rep(t, <<123, 50, 125>>, 2, 2),
     Rep(t, <<123, 49, 44, 50, 125>>, 1, 2), Rep(t, <<123, 50, 44, 125>>, 2, -1),
     Rep(t, <<123, 44, 49, 125>>, 0, 1)}
Cat(a, b) == [k |-> "cat", a |-> a, b |-> b]
Alt(a, b) == [k |-> "alt", a |-> a, b |-> b]
AltAB == Alt(RA, RB)
Flat == {Cat(a, b) : a \in {RA, RDot, RWordB}, b \in {RB, RA, RNot, RUni, RWordB}}
        \cup {Alt(a, b) : a \in {RA, RUni}, b \in {RB, RNot}}
Repeated == UNION {Reps(t) : t \in Leaves \cup {Cat(RA, RB), AltAB, Rep(AltAB, <<43>>, 1, -1)}}
Nested == {Cat(t, RA) : t \in Reps(RA) \cup Reps(AltAB)}
          \cup {Cat(RA, Cat(t, RB)) : t \in UNION {Reps(t) : t \in {RA, Cat(RA, RB), RDot}}}
          \cup {Alt(RA, t) : t \in Reps(RB) \cup Reps(AltAB)}
MCPatterns == {[k |-> "re", t |-> t, caret |-> c, dollar |-> d] :
                  t \in Leaves \cup {RWordB} \cup Flat \cup Repeated \cup Nested, c, d \in BOOLEAN}
MCBad == {[k |-> "bad", text |-> t] : t \in
    {<<42>>, <<43, 97>>, <<40, 97>>, <<97, 41>>, <<97, 36, 98>>, <<91, 97>>, <<97, 123, 50>>,
     <<97, 123, 50, 44, 49, 125>>, <<97, 123, 48, 125>>, <<91, 91, 58>>, <<92, 113>>, <<91, 97, 45>>,
     <<40, 124, 42, 41>>}}
OneChar == {<<97>>, <<98>>, <<65>>, <<195, 169>>}
MCSubjects == {<<>>, <<45>>, <<45, 97>>, NoText} \cup OneChar \cup {a \o b : a, b \in OneChar}
    \cup {<<97>> \o b \o c : b, c \in {<<97>>, <<98>>}} \cup {<<97, 98, 97, 98>>, <<97, 97, 97, 98>>}

-----------------------------------------------------------------------------
(* File systems, and files a database can be appended to.                  *)
Dir == Node("dir", <<>>, {"u"}, 0)
Plainfile == Node("file", <<1>>, {"u"}, 0)
Symlink(p) == Node("link", p, {}, 0)
Tree(S) == [q \in {x[1] : x \in S} \cup {<<>>} |-> IF q = <<>> THEN Dir ELSE (CHOOSE x \in S : x[1] = q)[2]]
AtA == {{}, {<<<<"a">>, Plainfile>>}, {<<<<"a">>, Dir>>}, {<<<<"a">>, Dir>>, <<<<"a", "b">>, Plainfile>>},
        {<<<<"a">>, Dir>>, <<<<"a", "a">>, Dir>>},
        {<<<<"a">>, Dir>>, <<<<"a", "b">>, Dir>>, <<<<"a", "b", "a">>, Plainfile>>, <<<<"a", "a">>, Symlink(<<"b">>)>>}}
AtB == {{}, {<<<<"b">>, Symlink(<<"a">>)>>}, {<<<<"b">>, Symlink(<<"a", "b">>)>>}, {<<<<"b">>, Dir>>}}
MCTrees == {Tree(x \cup y) : x \in AtA, y \in AtB}
MCPaths == {<<"a">>, <<"b">>, <<"a", "b">>, <<"b", "a">>, <<"a", "b", "a">>}
MCTimes == {-1, 7}
MCContents == {<<>>, <<2>>}

Disk(cells, tail) == [cells |-> cells, tail |-> tail]
Foreign == Cell("blob", 0)
MCOriginals ==
    {Disk(<<>>, "full"), Disk(<<Foreign>>, "odd"), Disk(<<Foreign, Foreign>>, "full"),
     Disk(<<Cell("hdr", 1)>>, "full"), Disk(<<Foreign, Zero, Cell("hdr", 1), Mark(2)>>, "mark"),
     Disk(<<Foreign, Foreign, Mark(2)>>, "mark")}

-----------------------------------------------------------------------------
(* Schemas to complete names from.                                         *)
Object(n, t, c) == [name |-> n, type |-> t, columns |-> c]
Attached(n, r, o) == [name |-> n, readable |-> r, objects |-> o]
NAB == <<"a", "b">>
NSA == <<"s", "a">>
MCCollated == <<<<"A">>, <<"a">>, NAB, <<"b">>, NSA>>
MCKeywords == <<<<"A", "S">>, <<"B">>>>
SomeObjects == SUBSET {Object(NAB, "table", {<<"a">>, NSA}), Object(<<"A">>, "table", {NSA}),
                       Object(<<"b">>, "view", {<<"A">>})}
MCSchemas ==
    {<<Attached(<<"s">>, r, x)>> : r \in BOOLEAN, x \in SomeObjects}
    \cup {<<Attached(<<"s">>, r, x), Attached(<<"b">>, TRUE, {Object(NAB, "table", {<<"a">>})})>> :
            r \in BOOLEAN, x \in SomeObjects}
MCTyped == [prefix : {NULLTEXT, <<>>, <<"a">>, <<"S">>, NAB, <<"x">>},
            wholeline : {NULLTEXT, <<>>, <<"x", " ", "B">>, <<"s", ".">>, <<"a">>}]

-----------------------------------------------------------------------------
(* Two tables, their triggers, and statements for the index expert.        *)
Column(pk) == [iPk |-> pk, zColl |-> "binary"]
MCTables == [t |-> <<Column(TRUE), Column(FALSE), Column(FALSE)>>, u |-> <<Column(FALSE), Column(FALSE)>>]
MCContent == [t |-> <<<<1, 7, 1>>, <<2, 7, 2>>, <<3, 8, 1>>>>, u |-> <<<<1, 0>>, <<1, 2>>, <<2, 2>>>>]
MCUserIndexes == <<[name |-> <<"t", 9>>, tab |-> "t", cols |-> <<Constraint(3, "binary", FALSE)>>]>>
Con(c, op) == [iCol |-> c, op |-> op, usable |-> TRUE, zColl |-> "binary"]
Ask(t, cs, o) == [tab |-> t, cons |-> cs, order |-> o]
Stmt(n, calls, ws) == [sql |-> n, ok |-> TRUE, calls |-> calls, writes |-> ws]
Select1 == Stmt(1, <<Ask("t", <<Con(2, "EQ"), Con(3, "GT")>>, <<>>)>>, <<>>)
Select2 == Stmt(2, <<Ask("t", <<Con(3, "EQ"), Con(2, "EQ"), Con(1, "EQ")>>,
                         <<[iCol |-> 2, desc |-> TRUE], [iCol |-> 0, desc |-> FALSE]>>),
                     Ask("u", <<Con(1, "EQ"), [Con(2, "EQ") EXCEPT !.usable = FALSE], Con(2, "NE")>>, <<>>)>>, <<>>)
Update3 == Stmt(3, <<Ask("u", <<[Con(2, "EQ") EXCEPT !.zColl = "nocase"], Con(1, "LIKE")>>,
                         <<[iCol |-> 1, desc |-> FALSE]>>)>>, <<<<"t", "UPDATE">>>>)
Wrong4 == [Stmt(4, <<>>, <<>>) EXCEPT !.ok = FALSE]
Insert5 == Stmt(5, <<>>, <<<<"u", "INSERT">>>>)
MCTriggers ==
    (<<"t", "UPDATE">> :> <<Stmt(11, <<Ask("u", <<Con(2, "EQ")>>, <<>>)>>, <<<<"u", "INSERT">>>>)>>)
    @@ (<<"u", "INSERT">> :> <<Stmt(12, <<Ask("t", <<Con(3, "EQ"), Con(2, "LT")>>, <<>>)>>,
                                    <<<<"u", "INSERT">>, <<"t", "DELETE">>>>)>>)
MCBuffers == {<<>>, <<Select1>>, <<Select2>>, <<Update3>>, <<Insert5>>, <<Select1, Wrong4>>, <<Update3, Wrong4>>,
              <<Wrong4, Select1>>, <<Update3, Select2>>, <<Select1, Update3, Select2>>}

-----------------------------------------------------------------------------
Parts1 == <<pgvars, bvars, svars, scan, sha, re>>
Parts2 == <<fvars, cvars, avars, xvars, shvars>>

Init ==
    /\ part \in {"pgtypes", "series", "builtins", "shell_series", "sha3", "regexp",
                 "fileio", "completion", "append", "expert", "shim"}
    /\ PgInit /\ SeriesInit /\ BuiltinsInit /\ ShellSeriesInit /\ ShaInit /\ ReInit
    /\ FileInit /\ (part # "fileio" => fs = Tree({}))
    /\ CInit /\ XInit
    /\ SInit /\ (part # "shim" => build = "preload")
    /\ AInit /\ (part # "append" => disk = Disk(<<>>, "full"))

Only(p) == part = p /\ UNCHANGED part

Next ==
    \/ Only("pgtypes") /\ PgNext /\ UNCHANGED <<bvars, svars, scan, sha, re, Parts2>>
    \/ Only("builtins") /\ BuiltinsNext /\ UNCHANGED <<pgvars, svars, scan, sha, re, Parts2>>
    \/ Only("series") /\ SeriesNext /\ UNCHANGED <<pgvars, bvars, scan, sha, re, Parts2>>
    \/ Only("shell_series") /\ ShellSeriesNext /\ UNCHANGED <<pgvars, bvars, svars, sha, re, Parts2>>
    \/ Only("sha3") /\ ShaNext /\ UNCHANGED <<pgvars, bvars, svars, scan, re, Parts2>>
    \/ Only("regexp") /\ ReNext /\ UNCHANGED <<pgvars, bvars, svars, scan, sha, Parts2>>
    \/ Only("fileio") /\ FileNext /\ UNCHANGED <<Parts1, cvars, avars, xvars, shvars>>
    \/ Only("completion") /\ CNext /\ UNCHANGED <<Parts1, fvars, avars, xvars, shvars>>
    \/ Only("append") /\ ANext /\ UNCHANGED <<Parts1, fvars, cvars, xvars, shvars>>
    \/ Only("expert") /\ XNext /\ UNCHANGED <<Parts1, fvars, cvars, avars, shvars>>
    \/ Only("shim") /\ SNext /\ UNCHANGED <<Parts1, fvars, cvars, avars, xvars>>

Spec == Init /\ [][Next]_<<part, Parts1, Parts2>>
-----------------------------------------------------------------------------
(* What the components promise together.                                   *)

\* Every SQL function of the PostgreSQL types and of the shell returns what its
\* reference definition says: decimals, sums over moving windows, UUIDs, addresses,
\* orders, floating point parts, hashes of distinct contents, regular expressions;
\* writefile() reports what it did; and what an extension registers is there as a whole.
FunctionsExact ==
    /\ DecimalArithmeticExact /\ DecimalOrderExact /\ DecimalConversionExact /\ DecimalPow2Exact
    /\ DecimalSumTracksWindow /\ UuidNormalForm /\ IpNetworkContains /\ IpContainsExact /\ PgLoadComplete
    /\ ShellDecimalExact /\ ShellDecimalOrder /\ ShellSumTracksWindow /\ UintOrder
    /\ IeeeRoundTrip /\ IeeeTruncates /\ MemtraceTransparent
    /\ Sha3AbsorbsMessage /\ Sha3QueryInjective /\ RegexpExact /\ RegexpRejects
    /\ WritefileContract

\* Every virtual table yields the rows it stands for, each once, and then its end:
\* both series with any plan of the query planner, directories, completions.
TablesExact ==
    /\ SeriesRowsExact /\ SeriesStaysInRange /\ ShellSeriesExact
    /\ FsdirComplete /\ FsdirHandles /\ CompletionComplete
=============================================================================
