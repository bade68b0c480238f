-------------------------------- MODULE Sha3 --------------------------------
(***************************************************************************)
(* sha3() and sha3_query() of the shell (ext/misc/shathree.c in shell.c).  *)
(*                                                                         *)
(* The Keccak permutation is opaque: a state is the sequence of blocks     *)
(* absorbed so far, each the bytes XORed into the rate part before one     *)
(* permutation, and the block being loaded.  Two inputs get the same       *)
(* digest here exactly when they are absorbed as the same blocks.  The     *)
(* build is little-endian (ixMask = 0).                                    *)
(***************************************************************************)
EXTENDS Integers, Sequences, FiniteSets, SequencesExt, Bitwise

CONSTANTS
    WordBytes,     \* 8, the bytes of a lane
    StateBytes,    \* 200, the bytes of the Keccak state
    HashSizes,     \* the sizes sha3() accepts, in bytes: 28, 32, 48, 64
    DefaultSize,   \* 32
    Hashed,        \* [type, z, aligned]: arguments of sha3()
    Sizes,         \* second arguments, 0 when there is none
    Chunks,        \* [z, aligned]: what a caller may add with SHA3Update
    MaxChunks,     \* at most this many of them
    SqlArgs        \* sequences of statements: arguments of sha3_query()

VARIABLE sha       \* the context, what has been added, and the result

------------------------------------------------------------------------------
KeccakF1600Step(p) ==
    [p EXCEPT !.done = Append(@, p.x), !.x = [i \in DOMAIN p.x |-> 0], !.nLoaded = 0]

SHA3Init(nByte) ==
    LET bytes == ((nByte + WordBytes \div 2 - 1) \div (WordBytes \div 2)) * (WordBytes \div 2)
        nRate == StateBytes - 2 * bytes
    IN  [done |-> <<>>, x |-> [i \in 0..nRate - 1 |-> 0], nRate |-> nRate, nLoaded |-> 0]

\* One byte at the load position, the permutation when the block is full.
LoadByte(p, b) ==
    LET q == [p EXCEPT !.x[p.nLoaded] = @ ^^ b, !.nLoaded = @ + 1]
    IN  IF q.nLoaded = q.nRate THEN KeccakF1600Step(q) ELSE q

\* A whole lane at once.
LoadWord(p, w) ==
    LET at == (p.nLoaded \div WordBytes) * WordBytes
        q  == [p EXCEPT !.x = [i \in DOMAIN @ |->
                  IF i \in at..at + WordBytes - 1 THEN @[i] ^^ w[i - at + 1] ELSE @[i]],
                        !.nLoaded = @ + WordBytes]
    IN  IF q.nLoaded >= q.nRate THEN KeccakF1600Step(q) ELSE q

\* Mutant: the load position is not looked at.
UpdateAnywhere(p, z, aligned) ==
    LET nWord == IF aligned THEN Len(z) \div WordBytes ELSE 0
        words == [k \in 1..nWord |-> SubSeq(z, (k - 1) * WordBytes + 1, k * WordBytes)]
    IN  FoldLeft(LAMBDA s, b : LoadByte(s, b),
                 FoldLeft(LAMBDA s, w : LoadWord(s, w), p, words),
                 SubSeq(z, nWord * WordBytes + 1, Len(z)))

\* Whole lanes first when both the load position and the data are aligned.
SHA3Update(p, z, aligned) ==
    LET nWord == IF p.nLoaded % WordBytes = 0 /\ aligned THEN Len(z) \div WordBytes ELSE 0
        words == [k \in 1..nWord |-> SubSeq(z, (k - 1) * WordBytes + 1, k * WordBytes)]
    IN  FoldLeft(LAMBDA s, b : LoadByte(s, b),
                 FoldLeft(LAMBDA s, w : LoadWord(s, w), p, words),
                 SubSeq(z, nWord * WordBytes + 1, Len(z)))

SHA3Final(p) ==
    IF p.nLoaded = p.nRate - 1 THEN SHA3Update(p, <<134>>, FALSE)
    ELSE LET q == SHA3Update(p, <<6>>, FALSE)
         IN  SHA3Update([q EXCEPT !.nLoaded = p.nRate - 1], <<128>>, FALSE)

Digest(p, n) == [st |-> "hash", blocks |-> SHA3Final(p).done, size |-> n]
Failed == [st |-> "error"]

------------------------------------------------------------------------------
NoHash == [op |-> "idle"]

sha3Func(v, size) ==
    LET n == IF size = 0 THEN DefaultSize ELSE size
    IN  /\ sha = NoHash
        /\ sha' = [op |-> "sha3", arg |-> v, n |-> n,
                   ret |-> IF n \notin HashSizes THEN Failed
                           ELSE IF v.type = "null" THEN [st |-> "null"]
                           ELSE Digest(SHA3Update(SHA3Init(n), v.z, v.aligned), n)]

\* A caller that adds its content in pieces (as sha3_query does).
Start == /\ sha = NoHash
         /\ sha' = [op |-> "stream", cx |-> SHA3Init(DefaultSize), fed |-> <<>>, n |-> 0]
Feed(c) ==
    /\ sha.op = "stream" /\ sha.n < MaxChunks
    /\ sha' = [sha EXCEPT !.cx = SHA3Update(@, c.z, c.aligned), !.fed = @ \o c.z, !.n = @ + 1]

(***************************************************************************)
(* sha3_query.  A statement is [sql, kind, rows]; a value [t, z], z the    *)
(* bytes of a text or blob or the big-endian bytes of a number.  A step    *)
(* that fails ends the statement's rows like the end of the result.        *)
(***************************************************************************)
Decimal10(n) == IF n < 10 THEN <<48 + n>> ELSE <<48 + (n \div 10), 48 + (n % 10)>>
\* Mutant: no length.
NoLength(letter, n) == <<letter, 58>>

hash_step_vformat(letter, n) == <<letter>> \o Decimal10(n) \o <<58>>

\* The pieces added for a value, a row and a statement.
ValuePieces(v) ==
    CASE v.t = "null" -> <<<<78>>>>
      [] v.t = "int" -> <<<<73>> \o v.z>>
      [] v.t = "float" -> <<<<70>> \o v.z>>
      [] v.t = "text" -> <<hash_step_vformat(84, Len(v.z)), v.z>>
      [] v.t = "blob" -> <<hash_step_vformat(66, Len(v.z)), v.z>>

Joined(ss) == FoldLeft(LAMBDA x, y : x \o y, <<>>, ss)
RowPieces(row) == <<<<82>>>> \o Joined([k \in DOMAIN row |-> ValuePieces(row[k])])
StatementPieces(s) ==
    IF s.kind = "empty" THEN <<>>
    ELSE <<hash_step_vformat(83, Len(s.sql)), s.sql>>
         \o Joined([k \in DOMAIN s.rows |-> RowPieces(s.rows[k])])
Pieces(ss) == Joined([k \in DOMAIN ss |-> StatementPieces(ss[k])])

sha3QueryFunc(ss, size) ==
    LET n   == IF size = 0 THEN DefaultSize ELSE size
        bad == \E k \in DOMAIN ss : ss[k].kind \in {"bad", "write"}
    IN  /\ sha = NoHash
        /\ sha' = [op |-> "query", arg |-> ss, n |-> n,
                   ret |-> IF n \notin HashSizes \/ bad THEN Failed
                           ELSE Digest(FoldLeft(LAMBDA cx, z : SHA3Update(cx, z, FALSE),
                                                SHA3Init(n), Pieces(ss)), n)]

EndHash == sha # NoHash /\ sha' = NoHash

ShaInit == sha = NoHash
ShaNext ==
    \/ sha = NoHash /\ \E v \in Hashed, s \in Sizes : sha3Func(v, s)
    \/ Start
    \/ \E c \in Chunks : Feed(c)
    \/ sha = NoHash /\ \E ss \in SqlArgs, s \in Sizes : sha3QueryFunc(ss, s)
    \/ EndHash

ShaSpec == ShaInit /\ [][ShaNext]_sha

------------------------------------------------------------------------------
\* The sponge's padding of a message to blocks of r bytes: 06 00 ... 00 80.
PaddedBlocks(msg, r) ==
    LET n   == Len(msg) \div r + 1
        pad == n * r - Len(msg)
        all == [i \in 1..n * r |->
                  IF i <= Len(msg) THEN msg[i]
                  ELSE (IF i = Len(msg) + 1 THEN 6 ELSE 0) + (IF i = n * r THEN 128 ELSE 0)]
    IN  [k \in 1..n |-> [i \in 0..r - 1 |-> all[(k - 1) * r + i + 1]]]

\* However the content is cut into pieces and wherever they lie in memory
\* (lanes or single bytes, a piece ending in the middle of a lane or exactly
\* at the end of a block, the padding falling into one byte), SHA3Update and
\* SHA3Final absorb exactly the padded message.
Sha3AbsorbsMessage ==
    /\ sha.op = "stream" => SHA3Final(sha.cx).done = PaddedBlocks(sha.fed, sha.cx.nRate)
    /\ sha.op = "sha3" /\ sha.ret.st = "hash" =>
           sha.ret.blocks = PaddedBlocks(sha.arg.z, StateBytes - 2 * sha.n)

\* sha3_query tells any two results apart: two runs of statements get the
\* same digest only if they are the same statements with the same rows, value
\* by value and type by type (the segments need no delimiters).
Sha3QueryInjective ==
    sha.op = "query" /\ sha.ret.st = "hash" =>
        \A ss \in SqlArgs :
            (\A k \in DOMAIN ss : ss[k].kind \notin {"bad", "write"})
            /\ Joined(Pieces(ss)) = Joined(Pieces(sha.arg))
            => SelectSeq(ss, LAMBDA s : s.kind # "empty")
               = SelectSeq(sha.arg, LAMBDA s : s.kind # "empty")

==============================================================================
