----------------------------- MODULE ShellMain -----------------------------
(***************************************************************************)
(* main of the shell: the first pass over the command line, which finds    *)
(* the database, the initialization file and the commands; the             *)
(* initialization file; the second pass, which sets the options again and  *)
(* runs the -cmd commands; the commands of the command line, or standard   *)
(* input.  An argument is [opt, val, name, dot]: the option it reads as,    *)
(* "none" when it is none; its text; whether it does not start with a dash, *)
(* and whether it starts with a dot.                                       *)
(***************************************************************************)
EXTENDS Integers, Sequences, SequencesExt

CONSTANTS
    CommandLines,   \* the argv[1..argc-1] of the runs, sequences of arguments
    InitFiles,      \* what an initialization file may do: [found, sets, fails]
    VfsNames        \* the values of -vfs that name a VFS

VARIABLES mn        \* main: its phase, its loop counter and the ShellState

mvars == <<mn>>

OutputModes == {"html", "list", "quote", "line", "column", "json", "markdown", "table", "box", "csv",
          "ascii", "tabs"}
Flags == {"echo", "eqp", "eqpfull", "stats", "scanstats", "backslash", "safe"}

\* The ShellState that main_init leaves, as far as options set it, and the two
\* statics bail_on_error and stdin_is_interactive.
main_init ==
    [mode |-> "list", cMode |-> "list", colSeparator |-> "|", rowSeparator |-> "nl",
     nullValue |-> "", showHeader |-> FALSE, flags |-> {}, openMode |-> "unspec",
     nofollow |-> FALSE, szMax |-> "0", bail |-> FALSE, interactive |-> TRUE]

\* How many arguments an option takes in the first pass, and how many the
\* second one skips.
TakesOne == {"separator", "nullvalue", "newline", "cmd", "init", "heap", "threadsafe", "mmap", "vfs",
             "maxsize", "nonce"}
TakesTwo == {"pagecache", "lookaside"}
Takes(o) == IF o \in TakesOne THEN 1 ELSE IF o \in TakesTwo THEN 2 ELSE 0
SkipsCmdTwice(o) == IF o = "cmd" THEN 2 ELSE Takes(o)
Skips(o) ==
    CASE o \in {"threadsafe", "nonce"} -> 2
      [] o = "memtrace" -> 1
      [] OTHER -> Takes(o)

NeedsValue == {"separator", "newline", "nullvalue", "maxsize"}
OpenModes == {"append", "deserialize", "readonly"}
Known == OutputModes \cup Flags \cup OpenModes \cup TakesOne \cup TakesTwo \cup
         {"nofollow", "header", "noheader", "bail", "version", "interactive", "batch", "memtrace",
          "help"}

\* What the first pass sets.
FirstSets(o, v, s) ==
    CASE o = "batch" -> [s EXCEPT !.interactive = FALSE]
      [] o \in OpenModes -> [s EXCEPT !.openMode = o]
      [] o = "maxsize" -> [s EXCEPT !.szMax = v]
      [] o = "nofollow" -> [s EXCEPT !.nofollow = TRUE]
      [] o = "bail" -> [s EXCEPT !.bail = TRUE]
      [] OTHER -> s

\* The separators that go with a mode of the command line.
ModeSets(o, s) ==
    CASE o = "quote" -> [s EXCEPT !.mode = o, !.colSeparator = ",", !.rowSeparator = "nl"]
      [] o = "csv" -> [s EXCEPT !.mode = o, !.colSeparator = ","]
      [] o = "ascii" -> [s EXCEPT !.mode = o, !.colSeparator = "unit", !.rowSeparator = "record"]
      [] o = "tabs" -> [s EXCEPT !.mode = "list", !.colSeparator = "tab", !.rowSeparator = "nl"]
      [] OTHER -> [s EXCEPT !.mode = o]

\* What the second pass sets; bail_on_error "should already be set".
SecondSets(o, v, s) ==
    CASE o \in OutputModes -> ModeSets(o, s)
      [] o \in Flags -> [s EXCEPT !.flags = @ \cup {o}]
      [] o \in OpenModes \cup {"maxsize", "nofollow", "batch"} -> FirstSets(o, v, s)
      [] o = "separator" -> [s EXCEPT !.colSeparator = v]
      [] o = "newline" -> [s EXCEPT !.rowSeparator = v]
      [] o = "nullvalue" -> [s EXCEPT !.nullValue = v]
      [] o \in {"header", "noheader"} ->
            [s EXCEPT !.showHeader = o = "header", !.flags = @ \cup {"headerset"}]
      [] o = "interactive" -> [s EXCEPT !.interactive = TRUE]
      [] OTHER -> s

-----------------------------------------------------------------------------
Off == [ph |-> "off"]
argc == Len(mn.argv)
Arg(i) == mn.argv[i]
Val(i) == IF i <= argc THEN Arg(i).val ELSE "null"
NotOpen == [st |-> "closed"]
OpenedAs(s) == [st |-> "open", openMode |-> s.openMode, nofollow |-> s.nofollow, szMax |-> s.szMax]
MainOpenDb(o, s) == IF o = NotOpen THEN OpenedAs(s) ELSE o

MainStart(argv) ==
    /\ mn.ph = "off"
    /\ mn' = [ph |-> "first", argv |-> argv, i |-> 1, set |-> main_init, db |-> "null",
              azCmd |-> <<>>, init |-> "null", vfs |-> "null", base |-> main_init,
              opened |-> NotOpen, ran |-> <<>>, rc |-> 0]

Leave(m, rc) == [m EXCEPT !.ph = "exit", !.rc = rc]

\* One argument of the first pass: a name is the database or a command, and
\* then is looked at as an option like any other argument.  A missing value
\* ends the program (that of -nonce by a fault), except for -maxsize.
FirstPass ==
    /\ mn.ph = "first" /\ mn.i <= argc
    /\ LET a == Arg(mn.i)
           o == a.opt
           n == mn.i + Takes(o)
           m == [mn EXCEPT
                   !.i = n + 1,
                   !.db = IF a.name /\ @ = "null" THEN a.val ELSE @,
                   !.azCmd = IF a.name /\ mn.db # "null" THEN Append(@, a) ELSE @,
                   !.init = IF o = "init" THEN Val(n) ELSE @,
                   !.vfs = IF o = "vfs" THEN Val(n) ELSE @,
                   !.set = FirstSets(o, Val(n), @)]
       IN mn' = CASE n > argc /\ o = "maxsize" -> [mn EXCEPT !.i = @ + 1]
                  [] n > argc /\ o # "maxsize" -> Leave(mn, 1)
                  [] OTHER -> m

\* sqlite3_initialize, the VFS, and the database when its file exists.
Initialize(exists) ==
    /\ mn.ph = "first" /\ mn.i > argc
    /\ mn' = IF mn.vfs # "null" /\ mn.vfs \notin VfsNames THEN Leave(mn, 1)
             ELSE [mn EXCEPT !.ph = "rc", !.db = IF @ = "null" THEN ":memory:" ELSE @,
                             !.opened = IF exists /\ mn.db # "null" THEN MainOpenDb(@, mn.set) ELSE @]

\* The file of -init, or ~/.sqliterc; what it runs may change the settings.
process_sqliterc(f) ==
    /\ mn.ph = "rc"
    /\ LET s == [k \in DOMAIN mn.set |-> IF f.found /\ k \in DOMAIN f.sets THEN f.sets[k] ELSE mn.set[k]]
           m == [mn EXCEPT !.ph = "second", !.i = 1, !.set = s, !.base = s,
                           !.ran = IF f.found THEN Append(@, [what |-> "sqliterc", rc |-> f.fails]) ELSE @]
       IN mn' = IF s.bail /\ (IF f.found THEN f.fails # 0 ELSE mn.init # "null") THEN Leave(m, 1) ELSE m

\* One argument of the second pass, -cmd with its command aside.
SecondPass ==
    /\ mn.ph = "second" /\ mn.i <= argc
    /\ LET a == Arg(mn.i)
           o == a.opt
           n == mn.i + Skips(o)
           s == SecondSets(o, Val(n), mn.set)
       IN /\ a.name \/ o # "cmd" \/ mn.i = argc
          /\ mn' = CASE a.name \/ (o = "cmd" /\ mn.i = argc) -> [mn EXCEPT !.i = @ + 1]
                     [] ~a.name /\ o \notin Known -> Leave(mn, 1)
                     [] ~a.name /\ o \in {"version", "help"} -> Leave(mn, 0)
                     [] ~a.name /\ o \in NeedsValue /\ n > argc -> Leave(mn, 1)
                     [] OTHER -> [mn EXCEPT !.i = n + 1, !.set = [s EXCEPT !.cMode = s.mode]]

\* A command: a dot command may ask for the end (2); SQL opens the database.
Runs(a, rc, m) ==
    [m EXCEPT !.ran = Append(@, [what |-> a.val, rc |-> rc]), !.rc = rc,
              !.opened = IF a.dot THEN @ ELSE MainOpenDb(@, m.set)]

SecondPassCmd(rc) ==
    /\ mn.ph = "second" /\ mn.i < argc /\ ~Arg(mn.i).name /\ Arg(mn.i).opt = "cmd"
    /\ rc = 2 => Arg(mn.i + 1).dot
    /\ LET m == [Runs(Arg(mn.i + 1), rc, mn) EXCEPT !.i = @ + Skips("cmd") + 1, !.set.cMode = mn.set.mode]
       IN mn' = IF rc # 0 /\ mn.set.bail THEN Leave(m, IF rc = 2 THEN 0 ELSE rc) ELSE m

SecondPassDone ==
    /\ mn.ph = "second" /\ mn.i > argc
    /\ mn' = [mn EXCEPT !.ph = IF mn.azCmd = <<>> THEN "stdin" ELSE "args", !.i = 1]

\* The commands of the command line, up to the first that fails.
RunArgAnyway(rc) ==
    /\ mn.ph = "args" /\ mn.i <= Len(mn.azCmd)
    /\ rc = 2 => mn.azCmd[mn.i].dot
    /\ mn' = [Runs(mn.azCmd[mn.i], rc, mn) EXCEPT !.i = @ + 1]
RunArg(rc) ==
    /\ mn.ph = "args" /\ mn.i <= Len(mn.azCmd)
    /\ rc = 2 => mn.azCmd[mn.i].dot
    /\ LET m == [Runs(mn.azCmd[mn.i], rc, mn) EXCEPT !.i = @ + 1]
       IN mn' = IF rc # 0 THEN Leave(m, IF rc = 2 THEN 0 ELSE rc) ELSE m

ReadStdin ==
    /\ mn.ph = "stdin"
    /\ mn' = [mn EXCEPT !.ran = Append(@, [what |-> "stdin", rc |-> 0]), !.ph = "close"]

\* The databases are closed, the output reset and the temporary file deleted.
Cleanup ==
    /\ mn.ph = "close" \/ (mn.ph = "args" /\ mn.i > Len(mn.azCmd))
    /\ mn' = [mn EXCEPT !.ph = "exit", !.opened = NotOpen]

MainAgain == mn.ph = "exit" /\ mn' = Off

MInit == mn = Off
MNext ==
    \/ mn.ph = "off" /\ \E argv \in CommandLines : MainStart(argv)
    \/ FirstPass
    \/ mn.ph = "first" /\ \E exists \in BOOLEAN : Initialize(exists)
    \/ mn.ph = "rc" /\ \E f \in InitFiles : process_sqliterc(f)
    \/ SecondPass
    \/ mn.ph = "second" /\ \E rc \in 0 .. 2 : SecondPassCmd(rc)
    \/ SecondPassDone
    \/ mn.ph = "args" /\ \E rc \in 0 .. 2 : RunArg(rc)
    \/ ReadStdin \/ Cleanup \/ MainAgain

MSpec == MInit /\ [][MNext]_mvars

-----------------------------------------------------------------------------
\* Reference: the command line read once, each option with its values.
RECURSIVE Parsed(_, _)
Parsed(argv, i) ==
    IF i > Len(argv) THEN <<>>
    ELSE LET a == argv[i]
             n == IF a.name THEN i ELSE i + Takes(a.opt)
         IN IF n > Len(argv) THEN <<>>
            ELSE <<[a EXCEPT !.opt = IF a.name THEN "none" ELSE @,
                             !.val = IF a.name THEN @ ELSE argv[n].val, !.dot = argv[n].dot]>>
                    \o Parsed(argv, n + 1)
AskedFor == Parsed(mn.argv, 1)
NamesGiven == SelectSeq(AskedFor, LAMBDA a : a.name)

\* The settings that the options ask for, on top of those of the init file.
AskedSettings ==
    FoldLeft(LAMBDA s, a : IF a.name THEN s ELSE SecondSets(a.opt, a.val, s), mn.base, AskedFor)
Everywhere == mn.ph \in {"args", "stdin"} /\ mn.i = 1

\* The two passes read the same options: an option takes the same number of
\* arguments in both, and the name of a database or a command is no option.
Uniform ==
    \A i \in 1 .. Len(mn.argv) :
        mn.argv[i].opt \notin {"threadsafe", "nonce", "memtrace"} /\ (mn.argv[i].name => mn.argv[i].opt = "none")

\* The second pass sets every option of the command line, the last one winning
\* and winning over the initialization file, and the database, opened before
\* that file or by the first command, is opened as the options ask.  The
\* options that one pass skips differently from the other are left out, and
\* -bail, which only the first pass sets.
OptionsTakeEffect ==
    mn.ph \in {"args", "stdin"} /\ Uniform =>
        /\ Everywhere => [mn.set EXCEPT !.cMode = ""] = [AskedSettings EXCEPT !.cMode = ""]
        /\ Everywhere => mn.db = IF NamesGiven = <<>> THEN ":memory:" ELSE NamesGiven[1].val
        /\ mn.ph \in {"args", "stdin"} /\ mn.opened # NotOpen => mn.opened = OpenedAs(AskedSettings)

\* Everything that is run is run once and in order: the initialization file,
\* the -cmd commands, then the other commands or standard input.  After a
\* command that fails or asks for the end nothing is run, except that without
\* -bail a -cmd or the initialization file is followed by the rest.
CommandsInOrder ==
    LET cmds == SelectSeq(AskedFor, LAMBDA a : ~a.name /\ a.opt = "cmd")
        Whats(q) == [k \in 1 .. Len(q) |-> q[k].val]
        all == Whats(cmds) \o (IF Len(NamesGiven) > 1 THEN Whats(Tail(NamesGiven)) ELSE <<"stdin">>)
        first == IF mn.ran # <<>> /\ mn.ran[1].what = "sqliterc" THEN 1 ELSE 0
    IN mn.ph = "exit" /\ Uniform =>
        /\ \A k \in first + 1 .. Len(mn.ran) :
              k - first <= Len(all) /\ mn.ran[k].what = all[k - first]
        /\ \A k \in 1 .. Len(mn.ran) - 1 :
              mn.ran[k].rc # 0 => k - first <= Len(cmds) /\ ~mn.set.bail
=============================================================================
