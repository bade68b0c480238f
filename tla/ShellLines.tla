----------------------------- MODULE ShellLines -----------------------------
(***************************************************************************)
(* How process_input cuts its input into SQL statements and dot commands.  *)
(* quickscan looks at one line and resumes where the previous one left the *)
(* scan; sqlite3_complete, of the library, looks at the whole text held.   *)
(* A line is a sequence of one-character strings; the keywords that        *)
(* sqlite3_complete tells apart are single letters: C for CREATE, T for    *)
(* TRIGGER, E for END.                                                     *)
(***************************************************************************)
EXTENDS Integers, Sequences, SequencesExt

CONSTANTS
    Lines,          \* the lines that the input may hold
    MaxText         \* bound on the text between two boundaries

VARIABLES lns       \* process_input: the text it holds and what it did last

lvars == <<lns>>

White == {" ", "nl"}
Quotes == {"'", "\"", "bt"}
At(z, i) == IF i <= Len(z) THEN z[i] ELSE "nul"
From(z, i) == SubSeq(z, i, Len(z))

\* What follows the first line end of z.
AfterLine(z) ==
    LET ends == {i \in 1 .. Len(z) : z[i] = "nl"}
    IN IF ends = {} THEN <<>> ELSE From(z, (CHOOSE i \in ends : \A k \in ends : i <= k) + 1)

-----------------------------------------------------------------------------
(* QuickScanState: the closing character that is awaited ("" outside),     *)
(* QSS_HasDark and QSS_EndingSemi.                                         *)

QSS_Start == [wait |-> "", dark |-> FALSE, semi |-> FALSE]
QSS_INPLAIN(q) == q.wait = ""
PlainWhiteInside(q) == ~q.dark
QSS_PLAINWHITE(q) == q.wait = "" /\ ~q.dark
QSS_SEMITERM(q) == q.wait = "" /\ q.semi

\* The characters that end what q waits for at the head of z: 0 when it goes on.
Closing(q, z) ==
    CASE Head(z) # q.wait -> 0
      [] Head(z) = q.wait /\ q.wait = "*" -> IF At(z, 2) = "/" THEN 2 ELSE 0
      [] Head(z) = q.wait /\ q.wait \in Quotes -> IF At(z, 2) = q.wait THEN 0 ELSE 1
      [] OTHER -> 1
DoubledQuote(q, z) == q.wait \in Quotes /\ Head(z) = q.wait /\ At(z, 2) = q.wait

RECURSIVE quickscan(_, _)
quickscan(z, q) ==
    CASE z = <<>> -> q
      [] z # <<>> /\ q.wait # "" ->
            IF DoubledQuote(q, z) THEN quickscan(From(z, 3), q)
            ELSE IF Closing(q, z) = 0 THEN quickscan(Tail(z), q)
                 ELSE quickscan(From(z, Closing(q, z) + 1), [q EXCEPT !.wait = ""])
      [] z # <<>> /\ q.wait = "" /\ Head(z) \in White -> quickscan(Tail(z), q)
      [] z # <<>> /\ q.wait = "" /\ Head(z) = "-" /\ At(z, 2) = "-" -> quickscan(AfterLine(z), q)
      [] z # <<>> /\ q.wait = "" /\ Head(z) = ";" -> quickscan(Tail(z), [q EXCEPT !.semi = TRUE])
      [] z # <<>> /\ q.wait = "" /\ Head(z) = "/" /\ At(z, 2) = "*" ->
            quickscan(From(z, 3), [q EXCEPT !.wait = "*"])
      [] z # <<>> /\ q.wait = "" /\ Head(z) \in Quotes \cup {"["} ->
            quickscan(Tail(z), [wait |-> IF Head(z) = "[" THEN "]" ELSE Head(z),
                                dark |-> TRUE, semi |-> FALSE])
      [] OTHER -> quickscan(Tail(z), [q EXCEPT !.dark = TRUE, !.semi = FALSE])

RECURSIVE Trimmed(_)
Trimmed(z) == IF z # <<>> /\ Head(z) \in White THEN Trimmed(Tail(z)) ELSE z

line_is_command_terminator(z) ==
    LET t == Trimmed(z)
        n == IF At(t, 1) = "/" THEN 1 ELSE IF At(t, 1) = "g" /\ At(t, 2) = "o" THEN 2 ELSE 0
    IN n > 0 /\ quickscan(From(t, n + 1), QSS_Start) = QSS_Start

-----------------------------------------------------------------------------
(* sqlite3_complete.                                                       *)

Moves == [invalid |-> [semi |-> "start", ws |-> "invalid", create |-> "create"],
          start   |-> [semi |-> "start", ws |-> "start", create |-> "create"],
          normal  |-> [semi |-> "start", ws |-> "normal"],
          create  |-> [semi |-> "start", ws |-> "create", trigger |-> "trigger"],
          trigger |-> [semi |-> "semi", ws |-> "trigger"],
          semi    |-> [semi |-> "semi", ws |-> "semi", end |-> "end"],
          end     |-> [semi |-> "start", ws |-> "end"]]
Elsewhere(s) == IF s \in {"trigger", "semi", "end"} THEN "trigger" ELSE "normal"
Move(s, tok) == IF tok \in DOMAIN Moves[s] THEN Moves[s][tok] ELSE Elsewhere(s)
Keyword == [C |-> "create", T |-> "trigger", E |-> "end"]

\* The state after z, or "inside" a literal or a comment that is not closed.
RECURSIVE Complete(_, _)
Complete(z, s) ==
    LET Skip(open, close) ==
            LET ends == {i \in open + 1 .. Len(z) - Len(close) + 1 : SubSeq(z, i, i + Len(close) - 1) = close}
            IN IF ends = {} THEN 0 ELSE (CHOOSE i \in ends : \A k \in ends : i <= k) + Len(close)
        Past(n, tok) == IF n = 0 THEN "inside" ELSE Complete(From(z, n), Move(s, tok))
    IN CASE z = <<>> -> s
         [] z # <<>> /\ Head(z) = ";" -> Past(2, "semi")
         [] z # <<>> /\ Head(z) \in White -> Past(2, "ws")
         [] z # <<>> /\ Head(z) = "/" /\ At(z, 2) = "*" -> Past(Skip(2, <<"*", "/">>), "ws")
         [] z # <<>> /\ Head(z) = "-" /\ At(z, 2) = "-" ->
               IF Skip(2, <<"nl">>) = 0 THEN s ELSE Past(Skip(2, <<"nl">>), "ws")
         [] z # <<>> /\ Head(z) = "[" -> Past(Skip(1, <<"]">>), "other")
         [] z # <<>> /\ Head(z) \in Quotes -> Past(Skip(1, <<Head(z)>>), "other")
         [] z # <<>> /\ Head(z) \in DOMAIN Keyword -> Past(2, Keyword[Head(z)])
         [] OTHER -> Past(2, "other")
sqlite3_complete(z) == Complete(z, "invalid") = "start"

line_is_complete(z) == sqlite3_complete(Append(z, ";"))

-----------------------------------------------------------------------------
(* process_input.  since is everything read after the last statement or    *)
(* command, held is zSql.                                                  *)

Idle == [st |-> "read", since |-> <<>>, held |-> <<>>, qss |-> QSS_Start, did |-> "none",
         seenInterrupt |-> FALSE]

After(text, z) == IF text = <<>> THEN z ELSE text \o <<"nl">> \o z
Terminated(z) ==
    IF QSS_INPLAIN(lns.qss) /\ line_is_command_terminator(z) /\ line_is_complete(lns.held)
    THEN <<";">> ELSE z
Held(z) == IF lns.held = <<>> THEN Trimmed(z) ELSE lns.held \o <<"nl">> \o z
DotAnywhere(z) == At(z, 1) \in {".", "#"}
Dot(z) == At(z, 1) \in {".", "#"} /\ lns.held = <<>>

\* What one line does: "white", "dot", "sql" (a statement is run), "dropped", or
\* "held".
Disposition(z, q) ==
    CASE QSS_PLAINWHITE(q) /\ lns.held = <<>> -> "white"
      [] ~(QSS_PLAINWHITE(q) /\ lns.held = <<>>) /\ Dot(z) -> "dot"
      [] ~(QSS_PLAINWHITE(q) /\ lns.held = <<>>) /\ ~Dot(z) /\ QSS_SEMITERM(q)
            /\ sqlite3_complete(Held(z)) -> "sql"
      [] ~(QSS_PLAINWHITE(q) /\ lns.held = <<>>) /\ ~Dot(z) /\ QSS_PLAINWHITE(q)
            /\ ~(QSS_SEMITERM(q) /\ sqlite3_complete(Held(z))) -> "dropped"
      [] OTHER -> "held"

ReadLine(line) ==
    /\ lns.st = "read" /\ ~lns.seenInterrupt
    /\ LET z == Terminated(line)
           q == quickscan(z, lns.qss)
           d == Disposition(z, q)
       IN lns' = [lns EXCEPT !.did = d,
                    !.since = After(@, z),
                    !.held = IF d = "held" THEN Held(z) ELSE <<>>,
                    !.qss = IF d = "held" THEN q ELSE QSS_Start,
                    !.st = IF d \in {"sql", "dot"} THEN "ran" ELSE "read"]

\* The statement or the command is over; the next text starts afresh.
Ran ==
    /\ lns.st = "ran"
    /\ lns' = [lns EXCEPT !.st = "read", !.since = <<>>]

\* A line that ^C came before: process_input leaves its loop.
ReadInterrupted ==
    /\ lns.st = "read" /\ lns.seenInterrupt
    /\ lns' = [lns EXCEPT !.st = "leave"]

EndOfInput ==
    /\ lns.st = "read"
    /\ lns' = [lns EXCEPT !.st = "leave"]

\* "This may be incomplete. Let the SQL parser deal with that."
RunRest ==
    /\ lns.st = "leave"
    /\ lns' = [lns EXCEPT !.st = "left", !.did = IF lns.held # <<>> THEN "rest" ELSE "none"]

interrupt_handler ==
    /\ lns.st = "read" /\ ~lns.seenInterrupt
    /\ lns' = [lns EXCEPT !.seenInterrupt = TRUE]

Restart == lns.st = "left" /\ lns' = Idle

LInit == lns = Idle
LNext ==
    \/ /\ lns.st = "read" /\ Len(lns.since) < MaxText
       /\ \E line \in Lines : ReadLine(line)
    \/ Ran \/ ReadInterrupted \/ EndOfInput \/ RunRest \/ interrupt_handler \/ Restart

LSpec == LInit /\ [][LNext]_lvars

-----------------------------------------------------------------------------
TextSoFar == Complete(lns.since, "invalid")

\* Statements are run whole and commands are obeyed between them: what is run
\* ends where a statement of the input ends, whatever literals, comments and
\* trigger bodies hold semicolons, and a line that starts with a dot is a
\* command only when the lines before it are not the middle of a statement.
StatementsWhole ==
    /\ lns.st = "ran" /\ lns.did = "sql" => TextSoFar = "start"
    /\ lns.st = "ran" /\ lns.did = "dot" =>
          LET c == {i \in 1 .. Len(lns.since) : lns.since[i] \in {".", "#"}}
              before == SubSeq(lns.since, 1, (CHOOSE i \in c : \A k \in c : i <= k) - 1)
          IN Complete(before, "invalid") \in {"invalid", "start"}

\* A statement that is complete does not wait for another line: what
\* process_input holds is never complete for sqlite3_complete, and what it
\* dropped without running holds no token.
NothingWaits ==
    lns.st = "read" =>
        /\ lns.held # <<>> => TextSoFar # "start"
        /\ lns.held = <<>> => TextSoFar \in {"invalid", "start"}
=============================================================================
