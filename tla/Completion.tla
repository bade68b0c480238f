---------------------------- MODULE Completion ----------------------------
(***************************************************************************)
(* The completion table of the shell: one scan returns the keywords, then  *)
(* the database names, the table names and the column names that extend    *)
(* the word being typed.  The names come from statements that are prepared *)
(* when their phase begins, and that may not prepare.                      *)
(***************************************************************************)
EXTENDS Integers, Sequences, FiniteSets

CONSTANTS
    Keywords,       \* the keywords of the parser, in order
    Schemas,        \* attached databases: sequences of [name, readable, objects]
    Collated,       \* every name there is, in collating order
    Typed           \* the (prefix, wholeline) arguments of a query

VARIABLES
    schema,         \* the databases of the connection
    cur,            \* completion_cursor
    given           \* rows returned so far

cvars == <<schema, cur, given>>

NULLTEXT == <<"null">>
NextPhase == [keywords |-> "databases", databases |-> "tables",
              tables |-> "columns", columns |-> "eof", eof |-> "eof"]

NoCursor == [open |-> FALSE, zPrefix |-> <<>>, ePhase |-> "eof", j |-> 0, row |-> <<>>,
             stmt |-> 0, iRowid |-> 0]

IsAlnum(c) == c \notin {" ", "."}
LowerCase == [c \in {"A", "B", "S"} |-> CASE c = "A" -> "a" [] c = "B" -> "b" [] OTHER -> "s"]
Lower(c) == IF c \in DOMAIN LowerCase THEN LowerCase[c] ELSE c

\* sqlite3_strnicmp(prefix, row, nPrefix) == 0 with nPrefix <= szRow
Extends(name, prefix) ==
    /\ Len(prefix) <= Len(name)
    /\ \A i \in 1 .. Len(prefix) : Lower(prefix[i]) = Lower(name[i])

\* The word at the end of the line.
LastWord(line) ==
    LET i == CHOOSE i \in 0 .. Len(line) :
                /\ \A k \in i + 1 .. Len(line) : IsAlnum(line[k])
                /\ i = 0 \/ ~IsAlnum(line[i])
    IN SubSeq(line, i + 1, Len(line))

\* completionBestIndex and the arguments completionFilter is handed: bit 0 of
\* idxNum says prefix is there, bit 1 wholeline.
completionBestIndex(q) ==
    (IF q.prefix = NULLTEXT THEN 0 ELSE 1) + (IF q.wholeline = NULLTEXT THEN 0 ELSE 2)

PrefixOf(q) ==
    LET n == completionBestIndex(q)
    IN CASE n % 2 = 1 /\ q.prefix # <<>> -> q.prefix
         [] ~(n % 2 = 1 /\ q.prefix # <<>>) /\ n >= 2 -> LastWord(q.wholeline)
         [] OTHER -> <<>>

Databases == {schema[d] : d \in 1 .. Len(schema)}
Objects == UNION {d.objects : d \in Databases}

\* The rows of a phase: the list of keywords, PRAGMA database_list, and for
\* tables and columns one UNION over the databases, which is sorted, has no
\* duplicates, and does not prepare when one of the databases cannot be read.
Rows(p) ==
    CASE p = "keywords" -> Keywords
      [] p = "databases" -> [d \in 1 .. Len(schema) |-> schema[d].name]
      [] p \in {"tables", "columns"} /\ \E d \in Databases : ~d.readable -> <<>>
      [] p = "tables" /\ \A d \in Databases : d.readable ->
            SelectSeq(Collated, LAMBDA n : \E o \in Objects : o.name = n)
      [] p = "columns" /\ \A d \in Databases : d.readable ->
            SelectSeq(Collated, LAMBDA n : \E o \in Objects : o.type = "table" /\ n \in o.columns)
      [] p = "eof" -> <<>>

\* Mutant: the count goes on into the next phase.
NextRowCounts(c) ==
    IF c.j < Len(Rows(c.ePhase)) THEN [c EXCEPT !.j = @ + 1, !.row = Rows(c.ePhase)[c.j + 1]]
    ELSE [c EXCEPT !.row = <<>>, !.ePhase = NextPhase[c.ePhase]]

\* completionNext, one turn of its loop.
NextRow(c) ==
    IF c.j < Len(Rows(c.ePhase))
    THEN [c EXCEPT !.j = @ + 1, !.row = Rows(c.ePhase)[c.j + 1],
                   !.stmt = IF c.ePhase = "keywords" THEN 0 ELSE 1]
    ELSE [c EXCEPT !.j = 0, !.row = <<>>, !.stmt = 0, !.ePhase = NextPhase[c.ePhase]]

\* The loop stops at a row that extends the prefix, or at the end.
RECURSIVE Scan(_)
Scan(c) ==
    LET n == NextRow(c)
    IN IF n.ePhase = "eof" \/ (n.j > 0 /\ (c.zPrefix = <<>> \/ Extends(n.row, c.zPrefix)))
       THEN n ELSE Scan(n)

completionNext(c) == Scan([c EXCEPT !.iRowid = @ + 1])

\* completionFilter: reset the cursor, work out the prefix, find a first row.
completionFilter(q) ==
    completionNext([NoCursor EXCEPT !.open = TRUE, !.zPrefix = PrefixOf(q),
                                    !.ePhase = "keywords"])

completionEof == cur.ePhase = "eof"

completionOpen(q) ==
    /\ ~cur.open
    /\ cur' = completionFilter(q)
    /\ given' = IF cur'.ePhase = "eof" THEN <<>> ELSE <<cur'.row>>
    /\ UNCHANGED schema

Step ==
    /\ cur.open /\ ~completionEof
    /\ cur' = completionNext(cur)
    /\ given' = IF cur'.ePhase = "eof" THEN given ELSE Append(given, cur'.row)
    /\ UNCHANGED schema

\* completionClose, after the last row or before it: the statement goes too.
completionClose ==
    /\ cur.open
    /\ cur' = NoCursor /\ given' = <<>> /\ schema' = <<>>

\* The connection has this schema when the next query comes.
Connect ==
    /\ ~cur.open /\ schema = <<>>
    /\ schema' \in Schemas
    /\ UNCHANGED <<cur, given>>

CInit == schema = <<>> /\ cur = NoCursor /\ given = <<>>
CNext ==
    \/ Connect
    \/ schema # <<>> /\ ~cur.open /\ \E q \in Typed : completionOpen(q)
    \/ Step
    \/ completionClose

CSpec == CInit /\ [][CNext]_cvars

-----------------------------------------------------------------------------

\* A finished scan has offered exactly the names that extend the word being
\* typed, phase after phase and each once, even when the statement of a phase
\* does not prepare (completionNext then goes on with the next phase).
Wanted(p) == SelectSeq(Rows(p), LAMBDA n : Extends(n, cur.zPrefix))
CompletionComplete ==
    LET all == Wanted("keywords") \o Wanted("databases") \o Wanted("tables") \o Wanted("columns")
    IN /\ Len(given) <= Len(all) /\ given = SubSeq(all, 1, Len(given))
       /\ cur.open /\ cur.ePhase = "eof" => given = all
=============================================================================
