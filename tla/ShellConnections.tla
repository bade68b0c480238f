------------------------- MODULE ShellConnections -------------------------
(***************************************************************************)
(* The database connections of the shell: open_db, which every command     *)
(* that needs a database calls, .open, .connection, the end of main, and   *)
(* the handler of ^C, which may run between any two steps and interrupts   *)
(* globalDb.                                                               *)
(***************************************************************************)
EXTENDS Integers, FiniteSets, Sequences, SequencesExt

CONSTANTS
    Files,          \* the names given to .open
    Content,        \* what each holds: "absent", "database", "append", "zip" or "other"
    Unopenable,     \* the names that sqlite3_open_v2 fails on
    Asks,           \* the ways of opening that the command line and .open choose from
    NAux,           \* ArraySize(aAuxDb), smaller than in the code
    MaxHandles      \* bound on the connections of a session

VARIABLES con       \* the connections of ShellState, and the handles

kvars == <<con>>

NoHandle == 0
Slots == 0 .. NAux - 1
NoName == "null"
Limits == {0, 1}

\* h[k] is connection k: whether it is open, whether its open failed, the file
\* and the mode it was opened with, the limit it was given, and the mode that
\* .open was asked for ("none" when a statement opened it).
Handle(name, mode, ok, limit) ==
    [open |-> TRUE, ok |-> ok, name |-> name, mode |-> mode, limit |-> limit, asked |-> "none"]

Quiet == [st |-> "off"]
ConnStart(name, mode, limit) ==
    [st |-> "idle", db |-> NoHandle, globalDb |-> NoHandle, aux |-> [i \in Slots |-> NoHandle], act |-> 0,
     zDbFilename |-> [i \in Slots |-> IF i = 0 THEN name ELSE NoName], openMode |-> mode,
     szMax |-> limit, h |-> <<>>, hit |-> NoHandle, ask |-> [mode |-> mode, file |-> name]]

-----------------------------------------------------------------------------
(* open_db.                                                                *)

deduceDatabaseType(name) ==
    CASE Content[name] \in {"absent", "database"} -> "normal"
      [] Content[name] = "append" -> "append"
      [] Content[name] = "zip" -> "zipfile"
      [] OTHER -> "unspec"

OpenMode(s) ==
    LET name == s.zDbFilename[s.act]
    IN IF s.openMode # "unspec" THEN s.openMode
       ELSE IF name = NoName THEN "normal" ELSE deduceDatabaseType(name)

\* Modes that open the file itself, and may fail to.
ByName == {"append", "readonly", "unspec", "normal"}

\* s with one more connection, that p->db and globalDb point to.
Opened(s, handle) ==
    LET k == Cardinality(DOMAIN s.h) + 1
    IN [s EXCEPT !.h = [j \in 1 .. k |-> IF j = k THEN handle ELSE s.h[j]], !.db = k, !.globalDb = k]

\* open_db on a session without a connection.  With OPEN_DB_KEEPALIVE a failure
\* leaves a second, in-memory connection behind the one globalDb has; without,
\* it ends the program.  hex tells whether readHexDb succeeds.
open_db(s, keepalive, hex) ==
    LET name == s.zDbFilename[s.act]
        mode == OpenMode(s)
        t == [s EXCEPT !.openMode = mode]
        fails == mode \in ByName /\ name \in Unopenable
        limit == IF mode = "deserialize" \/ (mode = "hexdb" /\ hex) THEN s.szMax ELSE 0
        bad == Opened(t, Handle(name, mode, FALSE, 0))
    IN CASE ~fails -> Opened(t, Handle(name, mode, TRUE, limit))
         [] fails /\ keepalive ->
               [Opened(bad, Handle(NoName, "memory", TRUE, 0)) EXCEPT !.globalDb = bad.db]
         [] OTHER -> [bad EXCEPT !.st = "exit"]

Room == Cardinality(DOMAIN con.h) + 2 <= MaxHandles

\* The closed connection: only that it is closed matters.
Gone == [Handle(NoName, "unspec", TRUE, 0) EXCEPT !.open = FALSE]
close_db(s, k) == IF k = NoHandle THEN s ELSE [s EXCEPT !.h[k] = Gone]

-----------------------------------------------------------------------------
(* A statement: the database is opened first if it is not.                 *)

SqlOpens(hex) ==
    /\ con.st = "idle" /\ (con.db = NoHandle => Room)
    /\ LET s == IF con.db = NoHandle THEN open_db(con, FALSE, hex) ELSE con
       IN con' = [s EXCEPT !.st = IF @ = "exit" THEN @ ELSE "running"]
SqlDone == con.st = "running" /\ con' = [con EXCEPT !.st = "idle"]

\* .open: a wrong option leaves --nofollow and --maxsize set.
OpenUsage(limit) ==
    /\ con.st = "idle"
    /\ con' = [con EXCEPT !.szMax = IF limit = 0 THEN @ ELSE limit]

OpenCloseSticky(file, mode) ==
    /\ con.st = "idle" /\ Room
    /\ con' = [close_db(con, con.db) EXCEPT
                 !.st = "reopen", !.db = NoHandle, !.zDbFilename[con.act] = NoName,
                 !.openMode = IF mode = "unspec" THEN @ ELSE mode,
                 !.szMax = 0, !.ask = [mode |-> mode, file |-> file]]
\* .open closes the connection, and clears what --maxsize has set ...
OpenClose(file, mode) ==
    /\ con.st = "idle" /\ Room
    /\ con' = [close_db(con, con.db) EXCEPT
                 !.st = "reopen", !.db = NoHandle, !.zDbFilename[con.act] = NoName, !.openMode = mode,
                 !.szMax = 0, !.ask = [mode |-> mode, file |-> file]]

\* ... and opens the file, or else a temporary database.
OpenFile(hex) ==
    /\ con.st = "reopen"
    /\ LET file == con.ask.file
           named == file # NoName \/ con.openMode = "hexdb"
           s == [con EXCEPT !.zDbFilename[con.act] = file]
           t == open_db(s, named, hex)
       IN con' = IF t.st = "exit" THEN t ELSE [t EXCEPT !.st = "idle", !.h[t.db].asked = con.ask.mode]

-----------------------------------------------------------------------------
(* .connection.                                                            *)

\* The slot that becomes active is emptied: p->db owns its connection now.
ConnectionKeeps(i) ==
    /\ con.st = "idle" /\ i # con.act
    /\ con' = [con EXCEPT !.aux[con.act] = con.db, !.act = i, !.db = con.aux[i], !.globalDb = con.aux[i]]
ConnectionSilent(i) ==
    /\ con.st = "idle" /\ i # con.act
    /\ con' = [con EXCEPT !.aux = [con.aux EXCEPT ![con.act] = con.db, ![i] = NoHandle],
                          !.act = i, !.db = con.aux[i]]
Connection(i) ==
    /\ con.st = "idle" /\ i # con.act
    /\ con' = [con EXCEPT !.aux = [con.aux EXCEPT ![con.act] = con.db, ![i] = NoHandle],
                          !.act = i, !.db = con.aux[i], !.globalDb = con.aux[i]]

\* The active connection is not closed.
CloseConnection(i) ==
    /\ con.st = "idle" /\ i # con.act
    /\ con' = [close_db(con, con.aux[i]) EXCEPT !.aux[i] = NoHandle]

\* The end of main: p->db, then the other connections, one after the other.
Quit ==
    /\ con.st = "idle"
    /\ con' = [close_db(con, con.db) EXCEPT !.st = "quit"]
QuitAux(i) ==
    /\ con.st = "quit" /\ con.aux[i] # NoHandle
    /\ con' = [close_db(con, con.aux[i]) EXCEPT !.aux[i] = NoHandle]
QuitDone ==
    /\ con.st = "quit" /\ \A i \in Slots : con.aux[i] = NoHandle
    /\ con' = [con EXCEPT !.st = "exit", !.db = NoHandle]

\* ^C: sqlite3_interrupt on globalDb, if there is one.
InterruptDb ==
    /\ con.st \in {"idle", "running", "reopen", "quit"} /\ con.hit = NoHandle
    /\ con' = [con EXCEPT !.hit = con.globalDb]
Interrupted == con.st # "off" /\ con.hit # NoHandle /\ con' = [con EXCEPT !.hit = NoHandle]

KInit == con = Quiet
ConnBegin(name, mode, limit) == con.st = "off" /\ con' = ConnStart(name, mode, limit)
ConnAgain == con.st = "exit" /\ con' = Quiet
KNext ==
    \/ con.st = "off" /\ \E name \in Files : \E mode \in Asks \ {"hexdb"} : \E limit \in Limits : ConnBegin(name, mode, limit)
    \/ con.st = "idle" /\ \E hex \in BOOLEAN : SqlOpens(hex)
    \/ SqlDone
    \/ con.st = "idle" /\ \E limit \in Limits : OpenUsage(limit)
    \/ con.st = "idle" /\ \E f \in Files \cup {NoName} : \E mode \in Asks : OpenClose(f, mode)
    \/ con.st = "reopen" /\ \E hex \in BOOLEAN : OpenFile(hex)
    \/ con.st = "idle" /\ \E i \in Slots : Connection(i) \/ CloseConnection(i)
    \/ con.st = "idle" /\ Quit
    \/ con.st = "quit" /\ (\E i \in Slots : QuitAux(i))
    \/ con.st = "quit" /\ QuitDone
    \/ InterruptDb \/ Interrupted \/ ConnAgain

KSpec == KInit /\ [][KNext]_kvars

-----------------------------------------------------------------------------
On == con.st # "off"
Owners(k) == Cardinality({i \in Slots : con.aux[i] = k}) + (IF con.db = k THEN 1 ELSE 0)

\* Every connection that opened is owned once, by p->db or by a slot of
\* aAuxDb, until it is closed, and what the shell owns is open: switching,
\* closing and reopening neither lose a connection nor use a closed one.
ConnectionsOwned ==
    On /\ con.st \in {"idle", "running", "reopen"} =>
        \A k \in DOMAIN con.h :
            /\ con.h[k].open /\ con.h[k].ok => Owners(k) = 1
            /\ ~con.h[k].open => Owners(k) = 0

\* ^C reaches the statement that runs: globalDb is the connection it runs on,
\* except on the in-memory one that stands in for a file that .open failed on.
InterruptReaches ==
    con.st = "running" => con.globalDb = con.db \/ con.h[con.db].mode = "memory"

\* .open opens the file with the mode asked, or that its content shows, however
\* the earlier connections of the session were opened.
OpenedAsAsked ==
    On => \A k \in DOMAIN con.h :
        LET c == con.h[k]
        IN c.asked # "none" /\ c.ok /\ c.name # NoName =>
               c.mode = IF c.asked = "unspec" THEN deduceDatabaseType(c.name) ELSE c.asked

-----------------------------------------------------------------------------
(***************************************************************************)
(* Files that the shell writes and reads for the user: the temporary file  *)
(* of the SQL function edit(), the text of a database that .open --hexdb   *)
(* reads, and the copies that .backup, .save and .restore make.            *)
(***************************************************************************)

CONSTANTS
    Edited,         \* the values given to edit()
    HexTexts,       \* the lines that follow an .open --hexdb
    PageMin, PageMax, \* 512 and 65536
    LineBytes,      \* 16, the bytes of one line
    NPages, StepPages, \* pages of the database that is copied; 100 pages at a time
    MaxFaults       \* bound on busy answers and on changes of the source

VARIABLE fil        \* the operation and its files

gvars == <<fil>>

NoFile == [exists |-> FALSE, z |-> <<>>]
Holding(z) == [exists |-> TRUE, z |-> z]

-----------------------------------------------------------------------------
(* edit(VALUE).                                                            *)

HasCrnl(z) == \E i \in 1 .. Len(z) - 1 : z[i] = "cr" /\ z[i + 1] = "nl"
\* "\r\n" becomes "\n".  The byte after the last one was never set: it may be "\n".
NewlinesBackAll(z, after) == SelectSeq(z, LAMBDA c : c # "cr")
NewlinesBack(z, after) ==
    LET next(i) == IF i < Len(z) THEN z[i + 1] ELSE after
        kept(i) == IF z[i] # "cr" \/ next(i) # "nl" THEN <<z[i]>> ELSE IF i < Len(z) THEN <<>> ELSE <<"nl">>
    IN FlattenSeq([i \in DOMAIN z |-> kept(i)])

FilesIdle == [st |-> "idle"]
\* The errors before the file has a name: no editor, NULL.
EditRefused == [st |-> "edited", ok |-> FALSE, value |-> <<>>, bin |-> FALSE, by |-> "nobody", temp |-> NoFile, ret |-> <<>>]
EditWrite(v, bin) ==
    /\ fil.st = "idle"
    /\ LET e == [EditRefused EXCEPT !.value = v, !.bin = bin]
       IN fil' \in {EditRefused,
                    e,                                                              \* fopen fails
                    [e EXCEPT !.st = "writefail", !.temp = Holding(<<>>)],            \* fwrite is short
                    [e EXCEPT !.st = "written", !.temp = Holding(v)]}
\* What an editor may do: nothing, other line ends, other text, remove the file.
Editor ==
    /\ fil.st = "written"
    /\ \E by \in {"nobody", "lineends", "text", "removed"} : \E rc \in 0 .. 1 :
          LET z == fil.temp.z
              turned == FlattenSeq([i \in DOMAIN z |->
                            IF z[i] = "nl" /\ ~(i > 1 /\ z[i - 1] = "cr") THEN <<"cr", "nl">> ELSE <<z[i]>>])
          IN fil' = [fil EXCEPT !.st = IF rc = 0 THEN "back" ELSE "writefail", !.by = by,
                        !.temp = IF by = "removed" THEN NoFile
                                 ELSE Holding(CASE by = "lineends" -> turned [] by = "text" -> <<"a", "cr", "nl">>
                                                [] OTHER -> z)]
\* edit_func_end: unlink.
EditEnd(s) == NoFile
EditFail ==
    /\ fil.st = "writefail"
    /\ fil' = [fil EXCEPT !.st = "edited", !.temp = EditEnd(fil)]
EditRead ==
    /\ fil.st = "back"
    /\ \E full \in BOOLEAN : \E after \in {"a", "nl"} :
          LET z == fil.temp.z
              asis == fil.bin \/ HasCrnl(fil.value)
              ok == fil.temp.exists /\ full
          IN fil' = [fil EXCEPT !.st = "edited", !.temp = EditEnd(fil), !.ok = ok,
                        !.ret = IF ~ok THEN <<>> ELSE IF asis THEN z ELSE NewlinesBack(z, after)]
FilesDone == fil.st \in {"edited", "hexed", "copied"} /\ fil' = FilesIdle

-----------------------------------------------------------------------------
(* .open --hexdb.                                                          *)

PowerOf2(n) == \E e \in 0 .. 16 : n = 2 ^ e
HexHeader(l) == l.k = "size" /\ l.n >= 0 /\ l.pg >= PageMin /\ l.pg <= PageMax /\ PowerOf2(l.pg)
\* The first line that ends the text, after line `from'.
HexEnd(lines, from) == SelectInSubSeq(lines, from + 1, Len(lines), LAMBDA l : l.k = "end")
HexStopAtOnce(lines, ok) == IF ok THEN HexEnd(lines, 1) ELSE Min({1, Len(lines)})
\* A text that is refused is read to its end as well.
HexStop(lines, ok) == HexEnd(lines, Min({1, Len(lines)}))
HexFitsHalf(k, n) == k < n /\ k >= 0
\* One line: a page line moves the offset, a line of bytes that fits is stored.
HexFits(k, n) == k + LineBytes <= n /\ k >= 0
HexLine(s, l) ==
    LET k == s.iOffset + l.n
    IN CASE l.k = "page" -> [s EXCEPT !.iOffset = l.n]
         [] l.k = "data" /\ HexFits(k, Len(s.a)) ->
              [s EXCEPT !.a = [i \in DOMAIN s.a |-> IF i - 1 \in k .. k + LineBytes - 1 THEN l.x[i - k] ELSE s.a[i]]]
         [] OTHER -> s
\* src is where the text is: a file, the script that is read, or the terminal.
\* Anything but the script is closed afterwards, standard input as well.
readHexDb(src, lines) ==
    LET ok == lines # <<>> /\ HexHeader(Head(lines))
        end == HexStop(lines, ok)
        body == SubSeq(lines, 2, IF end = 0 THEN Len(lines) ELSE end - 1)
        n == IF ok THEN ((lines[1].n + lines[1].pg - 1) \div lines[1].pg) * lines[1].pg ELSE 0
        rest == IF src # "script" \/ end = 0 THEN <<>> ELSE SubSeq(lines, end + 1, Len(lines))
    IN [st |-> "hexed", src |-> src, lines |-> lines, ok |-> ok, rest |-> rest, closed |-> src # "script",
        a |-> IF ok THEN FoldLeft(HexLine, [iOffset |-> 0, a |-> [i \in 1 .. n |-> 0]], body).a ELSE <<>>]
OpenHexDb(src, lines) == fil.st = "idle" /\ fil' = readHexDb(src, lines)

-----------------------------------------------------------------------------
(* .backup and .save, .restore.  Page versions: every transaction of       *)
(* another connection on the source rewrites all pages.                    *)

Whole(v) == [i \in 1 .. NPages |-> v]
\* old is what the target holds before; an --async target has no journal.
CopyBegin(cmd, async) ==
    /\ fil.st = "idle"
    /\ fil' = [st |-> "copying", cmd |-> cmd, async |-> async /\ cmd = "backup", src |-> 2, seen |-> 2, copy |-> <<>>,
               target |-> Whole(1), nTimeout |-> 0, slept |-> 0, rc |-> 0, why |-> "none", open |-> TRUE]
\* The other file cannot be opened, or sqlite3_backup_init fails.
CopyRefused == fil.st = "copying" /\ fil.copy = <<>> /\ fil' = [fil EXCEPT !.st = "copied", !.rc = 1, !.open = FALSE]
SourceChanges ==
    /\ fil.st = "copying" /\ fil.src < 2 + MaxFaults
    /\ fil' = [fil EXCEPT !.src = @ + 1]

\* sqlite3_backup_step: it begins again when the source has changed; the target's
\* transaction commits with the last page.
StepPagesOf(s) ==
    LET had == IF s.seen = s.src THEN s.copy ELSE <<>>
        some == Min({StepPages, NPages - Len(had)})
    IN had \o [i \in 1 .. some |-> s.src]
\* sqlite3_backup_finish without SQLITE_DONE rolls the target back, if it can.
Abandoned(s) ==
    IF s.async THEN [i \in 1 .. NPages |-> IF i <= Len(s.copy) THEN s.copy[i] ELSE s.target[i]] ELSE s.target

GivesUpAtOnce(s) == TRUE
GivesUp(s) == s.cmd = "backup" \/ s.nTimeout >= 3
SucceededNotError(answer) == answer # "error"
Succeeded(answer) == answer = "done"
CopyEnd(s, answer) ==
    [s EXCEPT !.st = "copied", !.rc = IF Succeeded(answer) THEN 0 ELSE 1, !.why = answer, !.open = FALSE,
              !.target = IF answer = "done" THEN Whole(s.src) ELSE Abandoned(s)]
CopyStep ==
    /\ fil.st = "copying"
    /\ LET now == StepPagesOf(fil) IN
       \/ fil' = IF Len(now) = NPages THEN CopyEnd([fil EXCEPT !.copy = now], "done")
                 ELSE [fil EXCEPT !.copy = now, !.seen = fil.src]
       \/ fil' = IF GivesUp(fil) THEN CopyEnd(fil, "busy")
                 ELSE [fil EXCEPT !.nTimeout = @ + 1, !.slept = @ + 1]
       \/ \E answer \in {"locked", "error"} : fil' = CopyEnd(fil, answer)

GInit == fil = FilesIdle
GNext ==
    \/ fil.st = "idle" /\ \E v \in Edited : \E bin \in BOOLEAN : EditWrite(v, bin)
    \/ Editor \/ EditFail \/ EditRead \/ FilesDone
    \/ fil.st = "idle" /\ \E src \in {"file", "script", "terminal"} : \E lines \in HexTexts : OpenHexDb(src, lines)
    \/ fil.st = "idle" /\ \E cmd \in {"backup", "restore"} : \E async \in BOOLEAN : CopyBegin(cmd, async)
    \/ CopyRefused \/ SourceChanges \/ CopyStep

GSpec == GInit /\ [][GNext]_gvars

-----------------------------------------------------------------------------
\* edit() gives back the value it was given when the editor changes nothing or only
\* the line ends of the file (a text that ends in "\r" excepted: the loop reads one
\* byte too far); and, whatever fails, leaves no file behind.
EditFaithful ==
    fil.st = "edited" =>
        /\ ~fil.temp.exists
        /\ fil.ok /\ (fil.by = "nobody" \/ (fil.by = "lineends" /\ ~fil.bin /\ ~HasCrnl(fil.value))) =>
              \/ fil.ret = fil.value
              \/ ~fil.bin /\ fil.value # <<>> /\ Last(fil.value) = "cr"

\* --hexdb: each byte is what the last line that holds it says, zero if none does;
\* a line that would not fit in the database is ignored as a whole.
HexOffset(lines, i) ==
    LET p == SelectLastInSubSeq(lines, 2, i, LAMBDA l : l.k = "page") IN IF p = 0 THEN 0 ELSE lines[p].n
HexDbExact ==
    fil.st = "hexed" /\ fil.ok =>
        LET lines == fil.lines
            end == HexEnd(lines, 1)
            at(i) == HexOffset(lines, i) + lines[i].n
            holding(b) == {i \in 2 .. (IF end = 0 THEN Len(lines) ELSE end) :
                lines[i].k = "data" /\ at(i) >= 0 /\ at(i) + LineBytes <= Len(fil.a) /\ b - at(i) \in 0 .. LineBytes - 1}
        IN /\ Len(fil.a) >= lines[1].n /\ Len(fil.a) % lines[1].pg = 0 /\ Len(fil.a) < lines[1].n + lines[1].pg
           /\ \A b \in 0 .. Len(fil.a) - 1 :
                 fil.a[b + 1] = IF holding(b) = {} THEN 0 ELSE lines[Max(holding(b))].x[b - at(Max(holding(b))) + 1]

\* A script goes on after the text of the database, also when the text is refused: no
\* line of it is taken for a command.
HexDbResumes ==
    fil.st = "hexed" /\ fil.src = "script" =>
        \A i \in DOMAIN fil.lines :
            i > Len(fil.lines) - Len(fil.rest) => \E j \in 1 .. i - 1 : fil.lines[j].k = "end"

\* A copy that is reported as made is one whole version of the source, the last one,
\* however often other connections wrote to it between the steps.
BackupWhole == fil.st = "copied" /\ fil.rc = 0 => fil.target = Whole(fil.src)

\* One that fails leaves the target as it was (without --async), closes its connection,
\* and a .restore does not give up on a busy source that is free within three waits.
BackupFailsClean ==
    /\ fil.st = "copied" /\ fil.rc = 1 => ~fil.open /\ (fil.async \/ fil.target = Whole(1))
    /\ fil.st = "copied" /\ fil.rc = 1 /\ fil.cmd = "restore" /\ fil.why = "busy" => fil.slept = 3
=============================================================================
