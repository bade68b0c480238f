------------------------------- MODULE FileIo -------------------------------
(***************************************************************************)
(* The SQL functions readfile and writefile and the table-valued function  *)
(* fsdir of shell.c, over a small file system.                             *)
(*                                                                         *)
(* A path is a sequence of names, the root is <<>>.  The file system maps  *)
(* the existing paths to nodes [t, data, perm, mtime]: a directory, a file *)
(* with its content, or a symbolic link with its target.  The system calls *)
(* are external, modelled as far as the code looks at them; each returns   *)
(* an errno ("ok" for success) and the new file system.                    *)
(***************************************************************************)
EXTENDS Integers, Sequences, FiniteSets, SequencesExt

CONSTANTS
    Trees,         \* the file systems to start from
    Paths,         \* the paths used as arguments and by other processes
    Contents,      \* what a file may hold
    Umask,         \* permission bits (a set) taken from a new directory
    Perms,         \* the permissions (sets of bits) writefile is given
    MTimes,         \* the modification times writefile is given; -1 for none
    IoFaults,      \* "none", and the calls that may fail: "write", ...
    MaxLinks,      \* ELOOP after this many symbolic links
    MaxChanges     \* changes by other processes during one fsdir query

VARIABLES
    fs,            \* the file system
    io,            \* the last writefile or readfile: arguments, result, fs before
    walk,          \* the fsdir cursor
    dirs           \* open directory handles of the process

fvars == <<fs, io, walk, dirs>>

NoIo == [op |-> "none"]
NoWalk == [st |-> "closed"]
NoTime == -1

------------------------------------------------------------------------------
(***************************************************************************)
(* System calls (external).                                                *)
(***************************************************************************)
Node(t, data, perm, mtime) == [t |-> t, data |-> data, perm |-> perm, mtime |-> mtime]

\* Where a path leads, symbolic links followed; whole says that only the last
\* component may be missing.
RECURSIVE Resolve(_, _, _)
Resolve(f, p, fuel) ==
    IF p = <<>> THEN [err |-> "ok", p |-> p, whole |-> TRUE]
    ELSE LET d == Resolve(f, Front(p), fuel)
             q == Append(d.p, Last(p))
         IN  IF d.err # "ok" THEN [d EXCEPT !.whole = FALSE]
             ELSE IF f[d.p].t # "dir" THEN [err |-> "ENOTDIR", p |-> q, whole |-> FALSE]
             ELSE IF q \notin DOMAIN f THEN [err |-> "ENOENT", p |-> q, whole |-> TRUE]
             ELSE IF f[q].t # "link" THEN [err |-> "ok", p |-> q, whole |-> TRUE]
             ELSE IF fuel = 0 THEN [err |-> "ELOOP", p |-> q, whole |-> FALSE]
             ELSE Resolve(f, f[q].data, fuel - 1)

\* lstat: the last component is not followed.
LResolve(f, p) ==
    IF p = <<>> THEN Resolve(f, p, MaxLinks)
    ELSE LET d == Resolve(f, Front(p), MaxLinks)
             q == Append(d.p, Last(p))
         IN  IF d.err # "ok" THEN [d EXCEPT !.whole = FALSE]
             ELSE IF f[d.p].t # "dir" THEN [err |-> "ENOTDIR", p |-> q, whole |-> FALSE]
             ELSE [err |-> IF q \in DOMAIN f THEN "ok" ELSE "ENOENT", p |-> q, whole |-> TRUE]

Put(f, p, node) == [q \in DOMAIN f \cup {p} |-> IF q = p THEN node ELSE f[q]]
Call(err, f) == [err |-> err, fs |-> f]

\* mkdir and symlink need a free name in an existing directory.
Make(f, p, node) ==
    LET r == LResolve(f, p)
    IN  IF r.err = "ok" THEN Call("EEXIST", f)
        ELSE IF r.err = "ENOENT" /\ r.whole THEN Call("ok", Put(f, r.p, node))
        ELSE Call(r.err, f)
mkdir(f, p, perm) == Make(f, p, Node("dir", <<>>, perm \ Umask, 0))
symlink(f, target, p) == Make(f, p, Node("link", target, {}, 0))

\* fopen(.., "wb") follows links, creates or truncates.
fopen(f, p) ==
    LET r == Resolve(f, p, MaxLinks)
    IN  IF r.err = "ENOENT" /\ r.whole THEN Call("ok", Put(f, r.p, Node("file", <<>>, {}, 0)))
        ELSE IF r.err # "ok" THEN Call(r.err, f)
        ELSE IF f[r.p].t = "dir" THEN Call("EISDIR", f)
        ELSE Call("ok", [f EXCEPT ![r.p].data = <<>>])

\* write, chmod and utimes on the node a path leads to.
Update(f, p, node(_)) ==
    LET r == Resolve(f, p, MaxLinks)
    IN  IF r.err # "ok" THEN Call(r.err, f) ELSE Call("ok", [f EXCEPT ![r.p] = node(@)])

------------------------------------------------------------------------------
(***************************************************************************)
(* writefile(FILE, DATA, MODE, MTIME).  kind is the file type in MODE,     *)
(* "none" without one.  Results of writeFile: 0, 1 or 2, with errno.       *)
(***************************************************************************)
\* Mutant: the innermost directory is not made.
MakeAllButOne(f, p) ==
    FoldLeft(LAMBDA s, k : LET m == mkdir(s.fs, SubSeq(p, 1, k), {"u", "g"})
                           IN  IF s.err # "ok" THEN s ELSE IF m.err = "EEXIST" THEN s ELSE m,
             Call("ok", f), [k \in 1..(Len(p) - 2) |-> k])

\* makeDirectory: every directory above the file, from the top, until one
\* cannot be made or is something else.
makeDirectory(f, p) ==
    FoldLeft(LAMBDA s, k :
                LET d == SubSeq(p, 1, k)
                    r == Resolve(s.fs, d, MaxLinks)
                IN  IF s.err # "ok" THEN s
                    ELSE IF r.err # "ok" THEN mkdir(s.fs, d, {"u", "g"})
                    ELSE IF s.fs[r.p].t # "dir" THEN Call("ENOTDIR", s.fs) ELSE s,
             Call("ok", f), [k \in 1..(Len(p) - 1) |-> k])

\* Mutant: the mode is changed before the type is looked at.
WriteDirAnyway(f, p, perm) ==
    LET m == mkdir(f, p, perm)
        r == Resolve(f, p, MaxLinks)
    IN  IF m.err # "EEXIST" \/ r.err # "ok" THEN m
        ELSE Call(IF f[r.p].t = "dir" THEN "ok" ELSE "EEXIST", [f EXCEPT ![r.p].perm = perm])

WriteDir(f, p, perm) ==
    LET m == mkdir(f, p, perm)
        r == Resolve(f, p, MaxLinks)
    IN  IF m.err # "EEXIST" THEN m
        ELSE IF r.err # "ok" THEN Call("EEXIST", f)
        ELSE IF f[r.p].t # "dir" THEN Call("EEXIST", f)
        ELSE Call("ok", [f EXCEPT ![r.p].perm = perm])

\* Mutant: a short write goes unnoticed.
WriteUnchecked(f, p, data, kind, perm, fault) ==
    LET o == fopen(f, p)
        w == Update(o.fs, p, LAMBDA n : [n EXCEPT !.data = IF fault = "write" THEN <<>> ELSE data])
    IN  IF o.err # "ok" THEN [res |-> 1, err |-> o.err, fs |-> f]
        ELSE [res |-> 0, err |-> "ok", fs |-> w.fs]

\* The file is truncated first; a short write, or a chmod that fails, is 2.
WriteFileData(f, p, data, kind, perm, fault) ==
    LET o == fopen(f, p)
        w == Update(o.fs, p, LAMBDA n : [n EXCEPT !.data = IF fault = "write" THEN <<>> ELSE data])
        c == IF kind = "none" \/ fault \in {"write", "chmod"} THEN w
             ELSE Update(w.fs, p, LAMBDA n : [n EXCEPT !.perm = perm])
    IN  IF o.err # "ok" THEN [res |-> 1, err |-> o.err, fs |-> f]
        ELSE IF fault = "write" \/ (fault = "chmod" /\ kind # "none")
        THEN [res |-> 2, err |-> "EIO", fs |-> c.fs]
        ELSE [res |-> 0, err |-> "ok", fs |-> c.fs]

OneCall(c) == [res |-> IF c.err = "ok" THEN 0 ELSE 1, err |-> c.err, fs |-> c.fs]
SetTime(w, p, mtime, fault) ==
    IF w.res # 0 \/ mtime = NoTime THEN w
    ELSE OneCall(IF fault = "utimes" THEN Call("EPERM", w.fs)
                 ELSE Update(w.fs, p, LAMBDA n : [n EXCEPT !.mtime = mtime]))
\* a: the arguments of writefile.
writeFile(f, a) ==
    SetTime(CASE a.kind = "link" -> OneCall(symlink(f, a.data, a.p))
              [] a.kind = "dir" -> OneCall(WriteDir(f, a.p, a.perm))
              [] OTHER -> WriteFileData(f, a.p, a.data, a.kind, a.perm, a.fault),
            a.p, a.mtime, a.fault)

\* With ENOENT the missing directories are made and the whole is tried again.
SecondTry(one, mk, a) == IF mk.err = "ok" THEN writeFile(mk.fs, a) ELSE [one EXCEPT !.fs = mk.fs]
FirstTry(one, a) ==
    IF one.res = 1 /\ one.err = "ENOENT" THEN SecondTry(one, makeDirectory(one.fs, a.p), a) ELSE one
WriteEnded(a, fin) ==
    /\ fs' = fin.fs
    /\ io' = [op |-> "writefile", p |-> a.p, data |-> a.data, kind |-> a.kind, perm |-> a.perm,
              mtime |-> a.mtime, fault |-> a.fault, old |-> fs,
              ret |-> IF fin.res = 0 THEN "ok" ELSE IF a.kind = "none" THEN "null" ELSE "error"]
    /\ UNCHANGED <<walk, dirs>>
writefileFunc(p, data, kind, perm, mtime, fault) ==
    LET a == [p |-> p, data |-> data, kind |-> kind, perm |-> perm, mtime |-> mtime, fault |-> fault]
    IN  WriteEnded(a, FirstTry(writeFile(fs, a), a))

\* readfile(FILE): the content, or NULL for what cannot be opened.  fopen(..,
\* "rb") opens a directory, whose size and reads fail.
readFileContents(f, p) ==
    LET r == Resolve(f, p, MaxLinks)
    IN  IF r.err # "ok" THEN [k |-> "null"]
        ELSE IF f[r.p].t = "dir" THEN [k |-> "error"]
        ELSE [k |-> "blob", data |-> f[r.p].data]

------------------------------------------------------------------------------
(***************************************************************************)
(* fsdir(PATH, DIR).  A level of the cursor is an open directory with the  *)
(* names readdir has still to return; readdir may leave out a name that    *)
(* has been removed since opendir.  "." and ".." are not modelled.         *)
(***************************************************************************)
Children(f, d) == {q[Len(q)] : q \in {x \in DOMAIN f : x # <<>> /\ Front(x) = d}}

\* An unusable constraint on an input column makes the plan unusable; without
\* a path there is nothing to read (idxNum 0).
fsdirBestIndex(path, dir) ==
    IF path = "unusable" \/ dir = "unusable" THEN "constraint"
    ELSE IF path = "none" THEN "idx0" ELSE IF dir = "none" THEN "idx1" ELSE "idx2"

\* Mutant: what the first row is is not remembered.
FilterPlain(plan, base, p) ==
    LET zPath == IF plan = "idx2" THEN base \o p ELSE p
        r     == LResolve(fs, zPath)
    IN  /\ walk' = IF plan \in {"idx0", "constraint"} \/ r.err # "ok" THEN [st |-> "error", lvl |-> <<>>]
                   ELSE [st |-> "row", zPath |-> zPath, top |-> zPath, real |-> r.p,
                         isDir |-> FALSE, lvl |-> <<>>, rows |-> <<zPath>>,
                         first |-> fs, touched |-> {}]
        /\ UNCHANGED <<fs, io, dirs>>

\* xOpen and xFilter: the entry named by the arguments is the first row.
fsdirFilter(plan, base, p) ==
    LET zPath == IF plan = "idx2" THEN base \o p ELSE p
        r     == LResolve(fs, zPath)
    IN  /\ walk' = IF plan \in {"idx0", "constraint"} THEN [st |-> "error", lvl |-> <<>>]
                   ELSE IF r.err # "ok" THEN [st |-> "error", lvl |-> <<>>]
                   ELSE [st |-> "row", zPath |-> zPath, top |-> zPath, real |-> r.p,
                         isDir |-> fs[r.p].t = "dir", lvl |-> <<>>, rows |-> <<zPath>>,
                         first |-> fs, touched |-> {}]
        /\ UNCHANGED <<fs, io, dirs>>

\* Levels that readdir finds at their end: whatever it has not returned is gone.
Exhausted(l) == \A n \in l.rest : LResolve(fs, Append(l.dir, n)).err # "ok"

\* xNext: open the directory just returned, then return the next entry of the
\* innermost directory that has one, closing the exhausted ones.
fsdirNext ==
    /\ walk.st = "row"
    /\ LET r    == Resolve(fs, walk.zPath, MaxLinks)
           fail == walk.isDir /\ (r.err # "ok" \/ (r.err = "ok" /\ fs[r.p].t # "dir"))
           opened == IF walk.isDir /\ ~fail
                     THEN Append(walk.lvl, [dir |-> walk.zPath, rest |-> Children(fs, r.p)])
                     ELSE walk.lvl
           n    == Len(opened)
       IN  \/ /\ fail
              /\ walk' = [st |-> "error", lvl |-> walk.lvl]
              /\ UNCHANGED dirs
           \/ /\ ~fail
              /\ \E k \in 1..n : \E name \in opened[k].rest :
                     LET zPath == Append(opened[k].dir, name)
                         s     == LResolve(fs, zPath)
                         lvl   == Append(SubSeq(opened, 1, k - 1),
                                         [opened[k] EXCEPT !.rest = @ \ {name}])
                     IN  /\ \A i \in (k + 1)..n : Exhausted(opened[i])
                         /\ dirs' = dirs + (n - Len(walk.lvl)) - (n - k)
                         /\ walk' = IF s.err # "ok" THEN [st |-> "error", lvl |-> lvl]
                                    ELSE [walk EXCEPT !.zPath = zPath, !.lvl = lvl,
                                                      !.isDir = (fs[s.p].t = "dir"),
                                                      !.rows = Append(@, zPath)]
           \/ /\ ~fail /\ \A i \in 1..n : Exhausted(opened[i])
              /\ walk' = [walk EXCEPT !.st = "eof", !.lvl = <<>>, !.zPath = <<>>]
              /\ dirs' = dirs + (n - Len(walk.lvl)) - n
    /\ UNCHANGED <<fs, io>>

\* Mutant: only the innermost level is closed.
CloseInnermost ==
    /\ walk.st # "closed"
    /\ walk' = NoWalk
    /\ dirs' = dirs - (IF walk.lvl = <<>> THEN 0 ELSE 1)
    /\ UNCHANGED <<fs, io>>

\* xClose at any time: the levels still open are closed (fsdirResetCursor).
fsdirClose ==
    /\ walk.st # "closed"
    /\ walk' = NoWalk
    /\ dirs' = dirs - Len(walk.lvl)
    /\ UNCHANGED <<fs, io>>

\* Another process adds or removes a file while the query runs.
Meddle(p) ==
    /\ walk.st = "row" /\ p # <<>> /\ Cardinality(walk.touched) < MaxChanges
    /\ IF p \in DOMAIN fs
       THEN /\ Children(fs, p) = {}
            /\ fs' = [q \in DOMAIN fs \ {p} |-> fs[q]]
       ELSE /\ Front(p) \in DOMAIN fs /\ fs[Front(p)].t = "dir"
            /\ \E t \in {"file", "dir"} : fs' = Put(fs, p, Node(t, <<>>, {}, 0))
    /\ walk' = [walk EXCEPT !.touched = @ \cup {p}]
    /\ UNCHANGED <<io, dirs>>

------------------------------------------------------------------------------
FileInit == fs \in Trees /\ io = NoIo /\ walk = NoWalk /\ dirs = 0

\* One call or query in each session; the next one starts from a given tree.
Fresh == walk = NoWalk /\ io = NoIo /\ fs \in Trees
EndSession ==
    /\ walk = NoWalk /\ ~Fresh
    /\ io' = NoIo /\ fs' = CHOOSE f \in Trees : TRUE
    /\ UNCHANGED <<walk, dirs>>

FileNext ==
    \/ /\ Fresh
       /\ \E p \in Paths, perm \in Perms, mtime \in MTimes, fault \in IoFaults :
              \/ \E d \in Contents, kind \in {"none", "file"} :
                     writefileFunc(p, d, kind, perm, mtime, fault)
              \/ writefileFunc(p, <<>>, "dir", perm, mtime, fault)
              \/ \E to \in Paths : writefileFunc(p, to, "link", perm, mtime, fault)
    \/ EndSession
    \/ Fresh /\ \E a \in {"none", "eq", "unusable"}, b \in {"none", "eq", "unusable"}, p, q \in Paths \cup {<<>>} :
           fsdirFilter(fsdirBestIndex(a, b), q, p)
    \/ fsdirNext
    \/ fsdirClose
    \/ \E p \in Paths : Meddle(p)

FileSpec == FileInit /\ [][FileNext]_fvars

------------------------------------------------------------------------------
\* A writefile that reports success has done what it was asked to: the named
\* object has the type asked for, readfile returns exactly the content
\* written, a link leads where it was pointed, and a modification time that
\* was given is set, whatever was there before and whichever directories had
\* to be made.
WritefileHonest ==
    io.op = "writefile" /\ io.ret = "ok" =>
        LET r == Resolve(fs, io.p, MaxLinks)
            l == LResolve(fs, io.p)
        IN  /\ io.kind = "link" => fs[l.p].t = "link" /\ fs[l.p].data = io.data
            /\ io.kind = "dir" => fs[r.p].t = "dir"
            /\ io.kind \in {"none", "file"} =>
                   readFileContents(fs, io.p) = [k |-> "blob", data |-> io.data]
            /\ io.kind = "file" => fs[r.p].perm = io.perm
            /\ io.mtime # NoTime => fs[r.p].mtime = io.mtime

\* A writefile that fails without an I/O error has changed nothing that
\* existed: it may leave directories, or a link it has made, behind.
WritefileFailsClean ==
    io.op = "writefile" /\ io.ret # "ok" /\ io.fault = "none" =>
        \A q \in DOMAIN io.old : q \in DOMAIN fs /\ fs[q] = io.old[q]

\* Missing directories are no reason to fail: a file whose path leads through
\* directories or through nothing, and does not end in a directory or in a
\* link to nowhere, is written.
Writable(f, p) ==
    /\ \A k \in 1..(Len(p) - 1) :
           LET r == Resolve(f, SubSeq(p, 1, k), MaxLinks)
               l == LResolve(f, SubSeq(p, 1, k))
           IN  IF r.err = "ok" THEN f[r.p].t = "dir" ELSE l.err = "ENOENT"
    /\ LET r == Resolve(f, p, MaxLinks)
           l == LResolve(f, p)
       IN  IF l.err = "ok" THEN r.err = "ok" /\ f[r.p].t = "file" ELSE TRUE
WritefileMakesDirectories ==
    /\ io.op = "writefile" /\ io.kind \in {"none", "file"} /\ io.fault = "none"
    /\ Writable(io.old, io.p)
    => io.ret = "ok"

\* fsdir returns every file below its argument once, a directory before what
\* is in it: what was there from the beginning and stayed is in the result,
\* and nothing else but what another process added meanwhile.
Below(f, top) == {q \in DOMAIN f : Len(q) >= Len(top) /\ SubSeq(q, 1, Len(top)) = top}
Stable(q) == \A k \in 0..Len(q) : SubSeq(q, 1, k) \notin walk.touched
FsdirComplete ==
    walk.st \in {"row", "eof"} =>
        LET real(q) == walk.real \o SubSeq(q, Len(walk.top) + 1, Len(q))
            R       == {real(q) : q \in ToSet(walk.rows)}
        IN  /\ Cardinality(R) = Len(walk.rows)
            /\ \A i \in DOMAIN walk.rows :
                   i > 1 => \E j \in 1..(i - 1) : walk.rows[j] = Front(walk.rows[i])
            /\ R \subseteq Below(walk.first, walk.real) \cup walk.touched
            /\ walk.st = "eof" /\ Stable(walk.top) =>
                   \A q \in Below(walk.first, walk.real) : Stable(q) => q \in R

\* Every directory handle belongs to a level of the cursor, so that a query
\* that ends, fails or is abandoned in the middle leaves none open.
FsdirHandles == dirs = IF walk = NoWalk THEN 0 ELSE Len(walk.lvl)

\* writefile, whole: it reports success only for what is on the disk, leaves no trace
\* of what it could not do, and makes the directories that are missing.
WritefileContract == WritefileHonest /\ WritefileFailsClean /\ WritefileMakesDirectories
==============================================================================
