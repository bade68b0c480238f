---------------------------- MODULE ShellSession ----------------------------
(***************************************************************************)
(* A session of the shell: process_input on standard input and on the      *)
(* files that .read nests in it, the redirection of the output by .output, *)
(* .once, .excel and .testcase with its temporary files and its saved      *)
(* output mode, errors, .bail and ^C.  The lines are chosen one by one; a   *)
(* line is a statement, a part of one, or a dot command.                   *)
(***************************************************************************)
EXTENDS Integers, Sequences

CONSTANTS
    MAX_INPUT_NESTING,  \* as in the code, but smaller
    MaxSignals,         \* bound on the ^C of a session
    MaxTemps            \* bound on the temporary files of a session

VARIABLES ses           \* ShellState: the part of it that these commands use

svars == <<ses>>

\* One call of process_input: whether its input is interactive (p->in is 0),
\* whether errCnt is positive, whether zSql holds part of a statement.
Frame(tty) == [tty |-> tty, errs |-> FALSE, held |-> FALSE]
Settings == [mode |-> "list", echo |-> FALSE]
Ended == [st |-> "off"]
\* by is the command that redirected the output; user and failed are what the
\* user set and whether an error came with .bail on or ^C.
Started(tty) ==
    [st |-> "loop", fr |-> <<Frame(tty)>>, out |-> "stdout", cnt |-> 0, xdg |-> FALSE, tmp |-> 0,
     made |-> 0, disk |-> {}, set |-> Settings, prior |-> Settings, bail |-> FALSE, sig |-> 0,
     by |-> "none", user |-> Settings, failed |-> FALSE, ran |-> "none"]

Top(s) == s.fr[Len(s.fr)]
Below(s) == SubSeq(s.fr, 1, Len(s.fr) - 1)
WithTop(s, f) == [s EXCEPT !.fr[Len(s.fr)] = f]

-----------------------------------------------------------------------------
(* The output.                                                             *)

outputModePush(s) == [s EXCEPT !.prior = s.set]
outputModePop(s) == [s EXCEPT !.set = s.prior]

ResetNoPop(s) == [s EXCEPT !.out = "stdout", !.xdg = FALSE, !.by = "none"]
output_reset(s) ==
    LET t == IF s.out # "pipe" /\ s.xdg THEN [outputModePop(s) EXCEPT !.xdg = FALSE] ELSE s
    IN [t EXCEPT !.out = "stdout", !.by = "none"]

\* The file stays while it is shown, and its name while it cannot be deleted.
clearTempFile(s) ==
    IF s.tmp = 0 \/ s.xdg \/ s.tmp \notin s.disk THEN s
    ELSE [s EXCEPT !.disk = @ \ {s.tmp}, !.tmp = 0]

newTempFile(s) == [clearTempFile(s) EXCEPT !.tmp = s.made + 1, !.made = @ + 1]

\* The user's own settings are those set while no spreadsheet is pending.
Own(s) == IF s.xdg THEN s ELSE [s EXCEPT !.user = s.set]

ExitKeepsOutput(s) == IF s.cnt = 0 THEN s ELSE [s EXCEPT !.cnt = @ - 1]

\* The end of every dot command.
meta_command_exit(s) ==
    CASE s.cnt = 0 -> s
      [] s.cnt = 1 -> output_reset([s EXCEPT !.cnt = 0])
      [] OTHER -> [s EXCEPT !.cnt = @ - 1]

-----------------------------------------------------------------------------
(* The loop of process_input.                                              *)

Reading == ses.st = "loop"
tty == Top(ses).tty
MayGoOn == ~Top(ses).errs \/ ~ses.bail \/ tty
\* A line can be read: ^C is forgotten by interactive input, and ends the rest.
MayRead == Reading /\ MayGoOn /\ (ses.sig = 0 \/ tty)
InputLine == [ses EXCEPT !.sig = 0, !.failed = IF tty THEN FALSE ELSE @]

Failed(s) == [s EXCEPT !.failed = @ \/ s.bail]
Counted(s, rc) == IF rc = 1 THEN Failed(WithTop(s, [Top(s) EXCEPT !.errs = TRUE])) ELSE s

\* A dot command with result rc: 2 leaves the loop.
Command(s, rc) ==
    LET t == Counted([meta_command_exit(s) EXCEPT !.ran = "dot"], rc)
    IN [t EXCEPT !.st = IF rc = 2 THEN "leave" ELSE @]
DotLine == MayRead /\ ~Top(ses).held
Meta == clearTempFile(InputLine)

\* A statement, run where p->out points; the redirection of .once ends here.
SqlLine(rc) ==
    /\ MayRead
    /\ LET s == WithTop([InputLine EXCEPT !.ran = "sql"], [Top(InputLine) EXCEPT !.held = FALSE])
           t == IF s.cnt > 0 THEN [output_reset(s) EXCEPT !.cnt = 0] ELSE clearTempFile(s)
       IN ses' = Counted(t, rc)

Part ==
    /\ MayRead
    /\ ses' = WithTop([InputLine EXCEPT !.ran = "none"], [Top(InputLine) EXCEPT !.held = TRUE])

Other(rc) == DotLine /\ ses' = Command(Meta, rc)
Bail(on) == DotLine /\ ses' = Command([Meta EXCEPT !.bail = on], 0)
Echo(on) == DotLine /\ ses' = Own(Command([Meta EXCEPT !.set.echo = on], 0))
ModeSet(m) == DotLine /\ ses' = Own(Command([Meta EXCEPT !.set.mode = m], 0))

-----------------------------------------------------------------------------
(* .output, .once and .excel, .testcase and .check.                        *)

\* what is a file, a pipe, "off", or "x" and "e", which go to a temporary file;
\* opens tells whether the file or the pipe can be opened.
Redirect(cmd, what, opens) ==
    /\ DotLine /\ (what \in {"x", "e"} => ses.made < MaxTemps)
    /\ LET s == output_reset([Meta EXCEPT !.cnt = IF cmd = "output" THEN 0 ELSE 2])
           t == newTempFile(outputModePush([s EXCEPT !.xdg = TRUE]))
           u == CASE what = "x" -> [t EXCEPT !.set = [mode |-> "csv", echo |-> FALSE]]
                  [] what = "e" -> t
                  [] OTHER -> s
           v == CASE what = "stdout" -> u
                  [] what = "pipe" /\ opens -> [u EXCEPT !.out = "pipe"]
                  [] what \in {"x", "e"} /\ opens -> [u EXCEPT !.out = "temp", !.disk = @ \cup {u.tmp}]
                  [] what = "file" /\ opens -> [u EXCEPT !.out = "file"]
                  [] OTHER -> u
           rc == IF what # "stdout" /\ (what = "off" \/ ~opens) THEN 1 ELSE 0
       IN ses' = Command([v EXCEPT !.by = IF v.out = "stdout" THEN "none" ELSE cmd], rc)

\* A wrong option leaves before anything is changed.
RedirectUsage == DotLine /\ ses' = Command(Meta, 1)

Testcase == DotLine /\ ses' = Command([output_reset(Meta) EXCEPT !.out = "testcase", !.by = "testcase"], 0)
Check(rc) == DotLine /\ ses' = Command(output_reset(Meta), rc)

-----------------------------------------------------------------------------
(* .read and the ends of the loop.                                         *)

\* p->in is the file; process_input is called, unless it is nested too deep.
ReadCommand(opens) ==
    /\ DotLine
    /\ ses' = IF opens /\ Len(ses.fr) < MAX_INPUT_NESTING
              THEN [Meta EXCEPT !.fr = Append(@, Frame(FALSE)), !.ran = "none"]
              ELSE Command(Meta, 1)

InputEnds == Reading /\ MayGoOn /\ ses' = [ses EXCEPT !.st = "leave", !.ran = "none"]
Bailed == Reading /\ ~MayGoOn /\ ses' = [ses EXCEPT !.st = "leave", !.ran = "none"]
Broken == Reading /\ MayGoOn /\ ses.sig > 0 /\ ~tty /\ ses' = [ses EXCEPT !.st = "leave", !.ran = "none"]

\* After the loop: the text that is left is run, and process_input returns to
\* the .read that called it, or to main.
ReturnForgets(rc) ==
    /\ ses.st = "leave" /\ (rc = 1 => Top(ses).held)
    /\ ses' = IF Len(ses.fr) = 1 THEN [ses EXCEPT !.st = "close"]
              ELSE Command([ses EXCEPT !.st = "loop", !.fr = Below(ses)], 0)
Return(rc) ==
    /\ ses.st = "leave" /\ (rc = 1 => Top(ses).held)
    /\ LET s == Counted([ses EXCEPT !.ran = "none"], rc)
       IN ses' = IF Len(s.fr) = 1 THEN [s EXCEPT !.st = "close"]
                 ELSE [Command([s EXCEPT !.st = "loop", !.fr = Below(s)], IF Top(s).errs THEN 1 ELSE 0)
                       EXCEPT !.ran = "none"]

\* The end of main, with the temporary file deleted.
Close ==
    /\ ses.st = "close"
    /\ ses' = clearTempFile([output_reset(ses) EXCEPT !.st = "exit", !.xdg = FALSE, !.ran = "none"])

\* The third ^C ends the program at once.
interrupt ==
    /\ ses.st \in {"loop", "leave"} /\ ses.sig < MaxSignals
    /\ ses' = [ses EXCEPT !.sig = @ + 1, !.st = IF ses.sig >= 2 THEN "exit" ELSE @,
                        !.failed = TRUE, !.ran = "none"]

SInit == ses = Ended
SessionBegin == ses.st = "off" /\ \E t \in BOOLEAN : ses' = Started(t)
SessionAgain == ses.st = "exit" /\ ses' = Ended
SNext ==
    \/ SessionBegin \/ SessionAgain
    \/ ses.st = "loop" /\ \E rc \in 0 .. 1 : SqlLine(rc)
    \/ ses.st = "loop" /\ Part
    \/ ses.st = "loop" /\ \E rc \in 0 .. 2 : Other(rc)
    \/ ses.st = "loop" /\ \E on \in BOOLEAN : Bail(on)
    \/ ses.st = "loop" /\ (Echo(TRUE) \/ ModeSet("json"))
    \/ ses.st = "loop" /\ \E cmd \in {"output", "once"} : \E what \in {"stdout", "off", "file", "pipe", "x", "e"} :
          \E opens \in BOOLEAN : Redirect(cmd, what, opens)
    \/ ses.st = "loop" /\ \E opens \in BOOLEAN : Redirect("excel", "x", opens)
    \/ ses.st = "loop" /\ RedirectUsage
    \/ ses.st = "loop" /\ Testcase
    \/ ses.st = "loop" /\ \E rc \in 0 .. 2 : Check(rc)
    \/ ses.st = "loop" /\ \E opens \in BOOLEAN : ReadCommand(opens)
    \/ ses.st = "loop" /\ (InputEnds \/ Bailed \/ Broken)
    \/ ses.st = "leave" /\ \E rc \in 0 .. 1 : Return(rc)
    \/ ses.st = "close" /\ Close
    \/ ses.st \in {"loop", "leave"} /\ interrupt

SSpec == SInit /\ [][SNext]_svars

-----------------------------------------------------------------------------
Live == ses.st \in {"loop", "leave", "close"}

\* .excel, .once -x and .output -x borrow the output mode and give it back:
\* when no spreadsheet is pending the mode and the flags are the user's, even
\* after one redirection replaced another or the file could not be written.
ModeRestored == Live /\ ~ses.xdg => ses.set = ses.user

\* The redirection of .once and .excel ends with the next statement or command
\* at the latest: it is pending only with one command to go, and no pipe is
\* left open by a later redirection.
OnceEnds ==
    Live => /\ ses.by \in {"once", "excel"} => ses.cnt = 1
            /\ ses.out = "pipe" => ~ses.xdg
            /\ ses.xdg /\ ses.cnt = 0 => ses.by \in {"output", "none"}

\* An error with .bail on and ^C stop every input that is not interactive, the
\* nested ones and those that read them: no further line is obeyed.
StopsEverywhere ==
    ses.st = "loop" /\ ses.ran # "none" /\ ses.failed =>
        \/ Top(ses).errs
        \/ tty
=============================================================================
