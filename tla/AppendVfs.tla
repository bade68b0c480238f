----------------------------- MODULE AppendVfs -----------------------------
(***************************************************************************)
(* The append VFS of the shell: a database that lives behind a prefix (an  *)
(* executable, say), found again by a mark at the very end of the file.    *)
(* Lengths are counted in cells of 512 bytes; the mark takes 25 bytes, so  *)
(* a file that ends in a mark is recognised by its length modulo 512.      *)
(***************************************************************************)
EXTENDS Integers, Sequences

CONSTANTS
    Handles,        \* connections that may have the file open
    Originals,      \* the files that may be there at the start
    Pages,          \* contents of a database page
    RoundUp,        \* APND_ROUNDUP, in cells
    MaxSize,        \* APND_MAX_SIZE, in cells
    MaxFile,        \* bound: cells of the underlying file
    Faulty          \* the underlying VFS may fail a call

VARIABLES
    disk,           \* the underlying file: its cells, how the last one is filled
    hnd,            \* the ApndFile of each connection
    acall,           \* the call in progress of each connection
    orig            \* the file before anything was appended to it

avars == <<disk, hnd, acall, orig>>

Cell(k, v) == [k |-> k, v |-> v]
Zero == Cell("zero", 0)
Mark(n) == Cell("mark", n)
Page(i, v) == Cell(IF i = 0 THEN "hdr" ELSE "data", v)

\* ApndFile: "closed", "base" (a pass-through) or "apnd".
Handle(st, p, m) == [st |-> st, iPgOne |-> p, iMark |-> m]
Closed == Handle("closed", 0, -1)
NoAppend == [op |-> "none", i |-> 0, v |-> <<>>]

\* Mutant: rounded down.
StartRounddown(n) == (n \div RoundUp) * RoundUp

\* APND_START_ROUNDUP
StartRoundup(n) == ((n + RoundUp - 1) \div RoundUp) * RoundUp

\* xWrite of the underlying VFS at a cell: a hole reads as zeroes.
Stored(d, i, c) ==
    [j \in 1 .. (IF i < Len(d) THEN Len(d) ELSE i + 1) |->
        CASE j = i + 1 -> c
          [] j # i + 1 /\ j <= Len(d) -> d[j]
          [] OTHER -> Zero]
PutPage(d, i, c) ==
    [cells |-> Stored(d.cells, i, c),
     tail |-> IF i >= Len(d.cells) - 1 THEN "full" ELSE d.tail]
PutMark(d, i, p) ==
    [cells |-> Stored(d.cells, i, Mark(p)),
     tail |-> IF i >= Len(d.cells) THEN "mark" ELSE d.tail]
\* xTruncate of the underlying VFS, to the end of the mark at cell i.
Cropped(d, i) == [cells |-> SubSeq(d.cells, 1, i + 1), tail |-> "mark"]

\* The offset the mark at the end of the file names, -1 when there is none.
apndReadMark(d) ==
    LET n == Len(d.cells)
    IN IF n > 0 /\ d.tail = "mark" /\ d.cells[n].k = "mark" /\ d.cells[n].v <= n - 2
       THEN d.cells[n].v ELSE -1

apndIsAppendvfsDatabase(d) ==
    LET m == apndReadMark(d) IN m >= 0 /\ d.cells[m + 1].k = "hdr"

apndIsOrdinaryDatabaseFile(d) ==
    /\ ~apndIsAppendvfsDatabase(d)
    /\ d.tail = "full" /\ d.cells # <<>> /\ d.cells[1].k = "hdr"

\* The handle an open makes; Closed is SQLITE_CANTOPEN.
apndOpen(d, create) ==
    LET m == apndReadMark(d)
    IN CASE apndIsOrdinaryDatabaseFile(d) -> Handle("base", 0, -1)
         [] ~apndIsOrdinaryDatabaseFile(d) /\ m >= 0 -> Handle("apnd", m, Len(d.cells) - 1)
         [] ~apndIsOrdinaryDatabaseFile(d) /\ m < 0 ->
                IF create THEN Handle("apnd", StartRoundup(Len(d.cells)), -1) ELSE Closed

apndFileSize(h) ==
    IF h.st = "base" THEN Len(disk.cells)
    ELSE IF h.iMark >= 0 THEN h.iMark - h.iPgOne ELSE 0

apndRead(h, i) == disk.cells[h.iPgOne + i + 1]

Seen(h) == [i \in 1 .. apndFileSize(h) |-> apndRead(h, i - 1)]

\* SQLite's locks let one connection write at a time.
Ready(c) == hnd[c].st # "closed" /\ \A d \in Handles : acall[d] = NoAppend

OpenHandle(c, create) ==
    /\ hnd[c] = Closed /\ apndOpen(disk, create) # Closed
    /\ hnd' = [hnd EXCEPT ![c] = apndOpen(disk, create)]
    /\ UNCHANGED <<disk, acall, orig>>

\* apndClose, or the death of the process with a call half done.
apndClose(c) ==
    /\ hnd[c] # Closed
    /\ hnd' = [hnd EXCEPT ![c] = Closed]
    /\ acall' = [acall EXCEPT ![c] = NoAppend]
    /\ UNCHANGED <<disk, orig>>

\* A write to a plain database goes straight to the underlying VFS.
BaseWrite(c, i, v) ==
    /\ Ready(c) /\ hnd[c].st = "base" /\ i <= apndFileSize(hnd[c])
    /\ i < MaxFile
    /\ disk' = PutPage(disk, i, Page(i, v))
    /\ UNCHANGED <<hnd, acall, orig>>

\* The mark of a database that ends after n cells; iMark only moves when
\* the write succeeds.
apndWriteMark(c, n, next) ==
    LET h == hnd[c]
    IN  /\ disk' = PutMark(disk, h.iPgOne + n, h.iPgOne)
        /\ hnd' = [hnd EXCEPT ![c].iMark = h.iPgOne + n]
        /\ acall' = [acall EXCEPT ![c] = next]
        /\ UNCHANGED orig

\* Mutant: a page that begins at the mark fits before it.
NeedsLate(h, i) == h.iMark < 0 \/ h.iPgOne + i > h.iMark

Needs(h, i) == h.iMark < 0 \/ h.iPgOne + i + 1 > h.iMark

\* apndWrite: a page beyond the mark moves the mark first.
apndWrite(c, i, v) ==
    LET h == hnd[c]
    IN  /\ Ready(c) /\ h.st = "apnd"
        /\ i + 1 < MaxSize /\ h.iPgOne + i + 2 <= MaxFile
        /\ IF Needs(h, i)
           THEN apndWriteMark(c, i + 1, [op |-> "write", i |-> i, v |-> Page(i, v)])
           ELSE /\ disk' = PutPage(disk, h.iPgOne + i, Page(i, v))
                /\ UNCHANGED <<hnd, acall, orig>>

\* ... and then stores the page.
apndWriteData(c) ==
    /\ acall[c].op = "write"
    /\ disk' = PutPage(disk, hnd[c].iPgOne + acall[c].i, acall[c].v)
    /\ acall' = [acall EXCEPT ![c] = NoAppend]
    /\ UNCHANGED <<hnd, orig>>

\* apndTruncate: the mark first, then the underlying file.
apndTruncate(c, n) ==
    /\ Ready(c) /\ hnd[c].st = "apnd" /\ n < apndFileSize(hnd[c])
    /\ apndWriteMark(c, n, [op |-> "cut", i |-> n, v |-> <<>>])

apndTruncateBase(c) ==
    /\ acall[c].op = "cut"
    /\ disk' = Cropped(disk, hnd[c].iMark)
    /\ acall' = [acall EXCEPT ![c] = NoAppend]
    /\ UNCHANGED <<hnd, orig>>

\* The second half of a call fails; a first half that fails changes nothing.
IoError(c) ==
    /\ Faulty /\ acall[c] # NoAppend
    /\ acall' = [acall EXCEPT ![c] = NoAppend]
    /\ UNCHANGED <<disk, hnd, orig>>

AInit ==
    /\ disk \in Originals
    /\ orig = disk
    /\ hnd = [c \in Handles |-> Closed]
    /\ acall = [c \in Handles |-> NoAppend]

ANext == \E c \in Handles :
    \/ \E create \in BOOLEAN : OpenHandle(c, create)
    \/ apndClose(c)
    \/ \E i \in 0 .. MaxSize, v \in Pages : BaseWrite(c, i, v) \/ apndWrite(c, i, v)
    \/ \E n \in 0 .. MaxSize : apndTruncate(c, n)
    \/ apndWriteData(c) \/ apndTruncateBase(c) \/ IoError(c)

ASpec == AInit /\ [][ANext]_avars

-----------------------------------------------------------------------------

\* The database the file holds, as the connection that has it open sees it or
\* as the next one will find it, and whether a truncation was left undone.
Opened == {c \in Handles : hnd[c] # Closed}
TheHandle == IF Opened = {} THEN apndOpen(disk, TRUE) ELSE hnd[CHOOSE c \in Opened : TRUE]
Database == Seen(TheHandle)
InProgress == IF Opened = {} THEN NoAppend ELSE acall[CHOOSE c \in Opened : TRUE]
Ragged ==
    /\ TheHandle.st = "apnd" /\ TheHandle.iMark >= 0
    /\ TheHandle.iMark + 1 # Len(disk.cells)
PageCells == [k : {"hdr", "data"}, v : Pages]

File == INSTANCE PlainFile WITH
    content <- Database, pend <- InProgress, ragged <- Ragged,
    Cells <- PageCells, Limit <- MaxSize

\* The file the database was appended to is never touched.
PrefixIntact ==
    apndIsOrdinaryDatabaseFile(orig) \/ apndIsAppendvfsDatabase(orig)
        \/ SubSeq(disk.cells, 1, Len(orig.cells)) = orig.cells

\* Through the append VFS one connection at a time has a plain file: pages change only
\* as written, through closing, dying half way through a call, failed calls and opening
\* again; and what precedes the database in the file stays as it is.
AppendIsAFile == File!PSpec /\ []PrefixIntact
=============================================================================
