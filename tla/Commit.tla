------------------------------- MODULE Commit -------------------------------
(***************************************************************************)
(* The commit path of one mvSQLite namespace: a client transaction         *)
(* (mvclient), the retries it makes, and Server::commit of mvstore, which  *)
(* runs on FoundationDB transactions.                                      *)
(*                                                                         *)
(* FoundationDB is modelled by its contract.  A transaction reads the      *)
(* state at its read version; when it commits, the resolver refuses it if  *)
(* a key of its read conflict set was written after that version.  `mod'   *)
(* holds, per conflict key, the version of the last write conflict, and    *)
(* `ver' the last version handed out.  A commit may also succeed while its *)
(* reply says that it failed (commit_unknown_result).                      *)
(***************************************************************************)
EXTENDS Naturals, FiniteSets

CONSTANTS
    Tx,                  \* client transactions; the idempotency key of t is t
    Page,                \* page indexes
    Hash,                \* page contents, named by their blake3 hash
    Owner,               \* namespace lock owners
    Plan,                \* what a transaction may do, see PlanType
    NoTx, NoOwner,       \* "none" for an idempotency key and a lock owner
    MaxAttempts,         \* requests one transaction may send (bound)
    MaxVersion,          \* versions the cluster may hand out (bound)
    CommitMultiPhaseThreshold, PlccReadSetSizeThreshold,
    IntervalEntryMaxSize, IntervalScanSize, IntervalMaxSize

VARIABLES
    ver,      \* last committed version of the cluster
    idx,      \* page index: (page, version) -> hash, as a set of entries
    content,  \* the hashes whose content is stored
    ci,       \* content index: version of the last bump of a hash, 0 if absent
    lwv,      \* last write version and the idempotency key stored with it
    clog,     \* changelog: version -> pages written, or "infinite"
    nslock,   \* the namespace lock in the namespace metadata
    mod,      \* the resolver: version of the last write conflict of each key
    tx,       \* client side of each transaction
    att,      \* server side of each request of each transaction
    applied   \* history: the versions at which a transaction was applied

dbVars == <<idx, content, ci, lwv, clog, nslock, mod>>
vars == <<ver, idx, content, ci, lwv, clog, nslock, mod, tx, att, applied>>

Attempt == 1..MaxAttempts

\* The pages a transaction reads and writes, whether it sends its read set,
\* which written pages travel inside the commit request (fast writes, the
\* others are uploaded by batch/write before), and the lock owner it names.
PlanType == [useReadSet : BOOLEAN, reads : SUBSET Page,
             writes : UNION {[S -> Hash] : S \in SUBSET Page},
             fast : SUBSET Page, owner : Owner \cup {NoOwner}]

ASSUME PlanAssumption == Plan \subseteq PlanType
ASSUME NoneAssumption == NoTx \notin Tx /\ NoOwner \notin Owner
ASSUME BoundAssumption == MaxAttempts \in Nat /\ MaxVersion \in Nat

NoLock == [owner |-> NoOwner, snapshot |-> 0, rolling |-> FALSE, nonce |-> 0]
NoReads == [pages |-> {}, cis |-> {}, lwv |-> FALSE, token |-> FALSE, nsmd |-> FALSE]
Full == [some |-> FALSE, pages |-> {}]

Interval == [some : BOOLEAN, pages : SUBSET Page]
Result == {"none", "committed", "conflict", "gone", "badref", "error"}
ConflictSet == [pages : SUBSET Page, cis : SUBSET Hash,
                lwv : BOOLEAN, token : BOOLEAN, nsmd : BOOLEAN]
AttemptType == [pc : {"idle", "sent", "phase1", "phase2", "replied"}, rv : Nat,
                rc : ConflictSet, put : SUBSET Hash, res : Result, version : Nat, interval : Interval]
Running(pc, rv, rc, put) ==
    [pc |-> pc, rv |-> rv, rc |-> rc, put |-> put, res |-> "none", version |-> 0,
     interval |-> Full]
IdleAttempt == Running("idle", 0, NoReads, {})
Sent == Running("sent", 0, NoReads, {})

TxType == [st : {"new", "open", "flushed", "committing", "committed", "conflict", "failed"},
           assumed : Nat, plan : Plan, n : Nat]

LockType == [owner : Owner \cup {NoOwner}, snapshot : Nat, rolling : BOOLEAN, nonce : Nat]
ModType == [pages : [Page -> Nat], cis : [Hash -> Nat], lwv : Nat, token : Nat, nsmd : Nat]
IndexEntry == [page : Page, ver : Nat, hash : Hash]
LogEntry == [ver : Nat, pages : SUBSET Page, infinite : BOOLEAN]

TypeOK ==
    /\ ver \in Nat
    /\ idx \subseteq IndexEntry
    /\ content \subseteq Hash
    /\ ci \in [Hash -> Nat]
    /\ lwv \in [key : Tx \cup {NoTx}, ver : Nat]
    /\ clog \subseteq LogEntry
    /\ nslock \in LockType
    /\ mod \in ModType
    /\ tx \in [Tx -> TxType]
    /\ att \in [Tx -> [Attempt -> AttemptType]]
    /\ applied \in [Tx -> SUBSET Nat]

-----------------------------------------------------------------------------
(* What a transaction sends                                                 *)

Assumed(t) == tx[t].assumed
Reads(t) == tx[t].plan.reads
Written(t) == DOMAIN tx[t].plan.writes
HashOf(t, p) == tx[t].plan.writes[p]
Hashes(t) == {HashOf(t, p) : p \in Written(t)}
FastPages(t) == tx[t].plan.fast \cap Written(t)
FastHashes(t) == {HashOf(t, p) : p \in FastPages(t)}
UploadedHashes(t) == {HashOf(t, p) : p \in Written(t) \ FastPages(t)}

\* commit.rs 71-83, 209: large commits run in two phases; a small one whose
\* read set is known and small is checked page by page (PLCC).
MultiPhase(t) == Cardinality(Written(t)) >= CommitMultiPhaseThreshold
Plcc(t) ==
    /\ ~MultiPhase(t)
    /\ Cardinality(Reads(t)) <= PlccReadSetSizeThreshold
    /\ tx[t].plan.useReadSet

-----------------------------------------------------------------------------
(* Reading the changelog and the namespace version                          *)

\* Mutant: the exclusive end is cut off by two entries.
ReadIntervalOffByOne(from, to, inclusive) ==
    LET range == {e \in clog : from <= e.ver /\ e.ver <= to}
        counted == {e \in range : e.ver # from /\
                      (inclusive \/ \E f \in range : e.ver < f.ver /\ f.ver < to)}
    IN  IF /\ {from, to} \subseteq {e.ver : e \in range}
           /\ \A e \in counted : ~e.infinite
        THEN [some |-> TRUE, pages |-> UNION {e.pages : e \in counted}]
        ELSE Full

\* Mutant: the entry the client comes from may be missing.
ReadIntervalNoStart(from, to, inclusive) ==
    LET range == {e \in clog : from <= e.ver /\ e.ver <= to}
        counted == {e \in range : e.ver # from /\ (inclusive \/ e.ver # to)}
    IN  IF /\ \E e \in range : e.ver = to
           /\ \A e \in counted : ~e.infinite
        THEN [some |-> TRUE, pages |-> UNION {e.pages : e \in counted}]
        ELSE Full

\* stat.rs 100-202: the pages written after `from' up to `to'.  Both ends must
\* be in the changelog and the scan must reach `to' within its limit; Full
\* makes the client drop its whole cache.
ReadInterval(from, to, inclusive) ==
    LET range == {e \in clog : from <= e.ver /\ e.ver <= to}
        counted == {e \in range : e.ver # from /\ (inclusive \/ e.ver # to)}
        out == UNION {e.pages : e \in counted}
    IN  IF from = to THEN [some |-> TRUE, pages |-> {}]
        ELSE IF /\ from < to
                /\ {from, to} \subseteq {e.ver : e \in range}
                /\ Cardinality(range) <= IntervalScanSize
                /\ \A e \in counted : ~e.infinite
                /\ Cardinality(out) <= IntervalMaxSize
             THEN [some |-> TRUE, pages |-> out]
             ELSE Full

\* stat.rs 51-80: the version a new transaction starts from.  A transaction
\* that names no owner is given the lock's snapshot while the lock is held.
StatGone(o) == o # NoOwner /\ (nslock.owner # o \/ nslock.rolling)
StatVersion(o) ==
    IF nslock.owner # NoOwner /\ o = NoOwner THEN nslock.snapshot ELSE lwv.ver

-----------------------------------------------------------------------------
(* Phase 2 of Server::commit: the early returns, in the order of the code   *)

\* commit.rs 186-205
LockVerdict(t) ==
    LET o == tx[t].plan.owner
    IN  IF nslock.owner = NoOwner THEN (IF o = NoOwner THEN "none" ELSE "gone")
        ELSE IF o = NoOwner THEN "conflict"
        ELSE IF o # nslock.owner \/ nslock.rolling THEN "gone"
        ELSE "none"

\* Mutant: a retry of a page-checked commit skips the idempotency check too.
GoesThroughLwvNonPlcc(t, k) == ~Plcc(t)

\* commit.rs 216-222: only the first request may skip the idempotency check.
GoesThroughLwv(t, k) == ~Plcc(t) \/ k # 1

\* commit.rs 237-241: the database-level conflict check.
LwvConflict(t) == ~Plcc(t) /\ Assumed(t) < lwv.ver

\* commit.rs 257-286: some page of the read set has a newer version.
PlccConflict(t) ==
    Plcc(t) /\ \E e \in idx : e.page \in Reads(t) /\ e.ver > Assumed(t)

Phase2Verdict(t, k) ==
    IF LockVerdict(t) # "none" THEN LockVerdict(t)
    ELSE IF GoesThroughLwv(t, k) /\ lwv.key = t THEN "committed"
    ELSE IF LwvConflict(t) \/ PlccConflict(t) THEN "conflict"
    ELSE "none"

\* The read conflict sets.  The content index is read for every written page
\* (commit.rs 135-143, for fast writes write.rs 122-138).  The delta base of a
\* fast write adds the versions of its page up to the read version, which can
\* only make the commit fail more often; CommitFails covers that.
Phase1Reads(t) == [NoReads EXCEPT !.cis = Hashes(t)]

\* Mutant: the LWV is read as a snapshot whatever the kind of commit.
Phase2ReadsSnapshotLwv(t) ==
    [NoReads EXCEPT !.pages = IF Plcc(t) THEN Reads(t) ELSE {}, !.nsmd = TRUE]

\* Mutant: the namespace metadata is taken from the cache without a conflict.
Phase2ReadsCachedLock(t) ==
    [NoReads EXCEPT !.pages = IF Plcc(t) THEN Reads(t) ELSE {}, !.lwv = ~Plcc(t)]

Phase2Reads(t) ==
    [NoReads EXCEPT !.pages = IF Plcc(t) THEN Reads(t) ELSE {}, !.lwv = ~Plcc(t),
                    !.nsmd = TRUE]

SinglePhaseReads(t) == [Phase2Reads(t) EXCEPT !.cis = Hashes(t)]

\* f with v at the members of S: a versionstamp, or a write conflict at v.
Touch(f, S, v) == [x \in DOMAIN f |-> IF x \in S THEN v ELSE f[x]]

\* The resolver after a transaction that wrote these keys committed at v.
WriteConflicts(P, H, keys, v) ==
    [pages |-> Touch(mod.pages, P, v), cis |-> Touch(mod.cis, H, v),
     lwv |-> IF "lwv" \in keys THEN v ELSE mod.lwv,
     token |-> IF "token" \in keys THEN v ELSE mod.token,
     nsmd |-> IF "nsmd" \in keys THEN v ELSE mod.nsmd]

\* The resolver's check.
NotModifiedSince(rc, rv) ==
    /\ \A p \in rc.pages : mod.pages[p] <= rv
    /\ \A h \in rc.cis : mod.cis[h] <= rv
    /\ rc.lwv => mod.lwv <= rv
    /\ rc.token => mod.token <= rv
    /\ rc.nsmd => mod.nsmd <= rv

\* write.rs 118-138, 213-217: content whose index entry exists is not written
\* again, its index entry is only bumped.
Unstored(H) == {h \in H : ci[h] = 0}

-----------------------------------------------------------------------------
(* The client                                                               *)

Init ==
    /\ ver = 0
    /\ idx = {}
    /\ content = {}
    /\ ci = [h \in Hash |-> 0]
    /\ lwv = [key |-> NoTx, ver |-> 0]
    /\ clog = {}
    /\ nslock = NoLock
    /\ mod = [pages |-> [p \in Page |-> 0], cis |-> [h \in Hash |-> 0],
              lwv |-> 0, token |-> 0, nsmd |-> 0]
    /\ tx \in [Tx -> [st : {"new"}, assumed : {0}, plan : Plan, n : {0}]]
    /\ att = [t \in Tx |-> [k \in Attempt |-> IdleAttempt]]
    /\ applied = [t \in Tx |-> {}]

\* lib.rs 180-247: a transaction starts at the version stat returns.
CreateTransaction(t) ==
    /\ tx[t].st = "new"
    /\ ~StatGone(tx[t].plan.owner)
    /\ tx' = [tx EXCEPT ![t] = [tx[t] EXCEPT !.st = "open",
                                             !.assumed = StatVersion(tx[t].plan.owner)]]
    /\ UNCHANGED <<ver, dbVars, att, applied>>

\* lib.rs 572-627, server.rs 1354-1432, write.rs 74-235: the written pages that
\* are not sent as fast writes are uploaded.  A hash the transaction has seen
\* when it read its snapshot is not sent again.
WriteMany(t) ==
    /\ tx[t].st = "open"
    /\ UploadedHashes(t) # {}
    /\ ver < MaxVersion
    /\ \E seen \in SUBSET {e.hash : e \in {f \in idx : f.ver <= Assumed(t)}} :
         LET push == UploadedHashes(t) \ seen
         IN  /\ ver' = IF push = {} THEN ver ELSE ver + 1
             /\ content' = content \cup Unstored(push)
             /\ ci' = Touch(ci, push, ver + 1)
             /\ mod' = WriteConflicts({}, push, {}, ver + 1)
    /\ tx' = [tx EXCEPT ![t] = [tx[t] EXCEPT !.st = "flushed"]]
    /\ UNCHANGED <<idx, lwv, clog, nslock, att, applied>>

\* lib.rs 249-300, 681-703: the first request.  A transaction without writes
\* sends none.
SendCommit(t) ==
    /\ tx[t].st = IF UploadedHashes(t) = {} THEN "open" ELSE "flushed"
    /\ Written(t) # {}
    /\ 1 \in Attempt
    /\ tx' = [tx EXCEPT ![t] = [tx[t] EXCEPT !.st = "committing", !.n = 1]]
    /\ att' = [att EXCEPT ![t][1] = Sent]
    /\ UNCHANGED <<ver, dbVars, applied>>

\* lib.rs 270-310, 717-748: the reply did not arrive or was a server error, so
\* the same commit is sent again.  The previous request may still be running.
Retry(t) ==
    /\ tx[t].st = "committing"
    /\ tx[t].n + 1 \in Attempt
    /\ tx' = [tx EXCEPT ![t] = [tx[t] EXCEPT !.n = tx[t].n + 1]]
    /\ att' = [att EXCEPT ![t][tx[t].n + 1] = Sent]
    /\ UNCHANGED <<ver, dbVars, applied>>

\* Mutant: the HTTP status is handed on as it is.
ClientOutcomeStatus(res) == res

\* lib.rs 292-325, 681-703: the answer to the current request.
ClientOutcome(res) ==
    IF res \in {"gone", "badref"} THEN "failed" ELSE res

Receive(t) ==
    /\ tx[t].st = "committing"
    /\ att[t][tx[t].n].pc = "replied"
    /\ att[t][tx[t].n].res \in {"committed", "conflict", "gone", "badref"}
    /\ tx' = [tx EXCEPT ![t] = [tx[t] EXCEPT !.st = ClientOutcome(att[t][tx[t].n].res)]]
    /\ UNCHANGED <<ver, dbVars, att, applied>>

-----------------------------------------------------------------------------
(* The server                                                               *)

Answer(res, v, i) ==
    [pc |-> "replied", rv |-> 0, rc |-> NoReads, put |-> {}, res |-> res, version |-> v,
     interval |-> i]

\* Mutant: the idempotent answer carries the read version of the retry.
ReplyReadVersion(t, k, res) ==
    att' = [att EXCEPT ![t][k] = Answer(res, IF res = "committed" THEN ver ELSE 0, Full)]

\* An answer of the checks; the one that says "committed" is the idempotent
\* one, with the stored version and no changelog (commit.rs 229-235).
Reply(t, k, res) ==
    att' = [att EXCEPT ![t][k] = Answer(res, IF res = "committed" THEN lwv.ver ELSE 0, Full)]

\* commit.rs 105-112: with CausalReadRisky the read version may be older than
\* the version the client started from.
BehindClient(t, k) ==
    /\ att[t][k].pc = "sent"
    /\ Assumed(t) > 0
    /\ Reply(t, k, "conflict")
    /\ UNCHANGED <<ver, dbVars, tx, applied>>

\* commit.rs 135-150: a page that should have been uploaded is not stored.
PagesExist(t) == \A h \in UploadedHashes(t) \ FastHashes(t) : ci[h] # 0

BadPageReference(t, k) ==
    /\ att[t][k].pc = "sent"
    /\ ~PagesExist(t)
    /\ Reply(t, k, "badref")
    /\ UNCHANGED <<ver, dbVars, tx, applied>>

\* commit.rs 98-150, 179-286: a single-phase commit reads everything at one
\* read version, and either answers at once or goes on to commit.
SinglePhaseChecks(t, k) ==
    /\ att[t][k].pc = "sent"
    /\ ~MultiPhase(t)
    /\ PagesExist(t)
    /\ IF Phase2Verdict(t, k) # "none" THEN Reply(t, k, Phase2Verdict(t, k))
       ELSE att' = [att EXCEPT ![t][k] =
                Running("phase2", ver, SinglePhaseReads(t), Unstored(FastHashes(t)))]
    /\ UNCHANGED <<ver, dbVars, tx, applied>>

\* commit.rs 98-150: phase 1 of a large commit reads the content index only.
MultiPhaseChecks(t, k) ==
    /\ att[t][k].pc = "sent"
    /\ MultiPhase(t)
    /\ PagesExist(t)
    /\ att' = [att EXCEPT ![t][k] =
           Running("phase1", ver, Phase1Reads(t), Unstored(FastHashes(t)))]
    /\ UNCHANGED <<ver, dbVars, tx, applied>>

\* commit.rs 152-175, 179-286: phase 1 commits the fast writes and the commit
\* token; phase 2 then reads at exactly the version of that commit, the token
\* in its conflict set.
CommitPhase1(t, k) ==
    /\ att[t][k].pc = "phase1"
    /\ ver < MaxVersion
    /\ NotModifiedSince(att[t][k].rc, att[t][k].rv)
    /\ ver' = ver + 1
    /\ content' = content \cup att[t][k].put
    /\ ci' = Touch(ci, FastHashes(t), ver + 1)
    /\ mod' = WriteConflicts({}, FastHashes(t), {"token"}, ver + 1)
    /\ IF Phase2Verdict(t, k) # "none" THEN Reply(t, k, Phase2Verdict(t, k))
       ELSE att' = [att EXCEPT ![t][k] =
                Running("phase2", ver + 1, [Phase2Reads(t) EXCEPT !.token = TRUE], {})]
    /\ UNCHANGED <<idx, lwv, clog, nslock, tx, applied>>

\* Mutant: a large commit leaves an empty, ordinary changelog entry.
ChangelogEntryEmpty(t, v) ==
    [ver |-> v, infinite |-> FALSE,
     pages |-> IF Cardinality(Written(t)) >= IntervalEntryMaxSize THEN {} ELSE Written(t)]

\* commit.rs 332-342
ChangelogEntry(t, v) ==
    LET infinite == Cardinality(Written(t)) >= IntervalEntryMaxSize
    IN  [ver |-> v, infinite |-> infinite, pages |-> IF infinite THEN {} ELSE Written(t)]

\* commit.rs 246-254, 288-355: the final FoundationDB transaction.  A large
\* commit takes the whole page and content index as its write conflict range.
ApplyWrites(t, k, v) ==
    /\ ver' = v
    /\ idx' = idx \cup {[page |-> p, ver |-> v, hash |-> HashOf(t, p)] : p \in Written(t)}
    /\ content' = content \cup att[t][k].put
    /\ ci' = Touch(ci, Hashes(t), v)
    /\ lwv' = [key |-> t, ver |-> v]
    /\ clog' = clog \cup {ChangelogEntry(t, v)}
    /\ mod' = WriteConflicts(IF MultiPhase(t) THEN Page ELSE Written(t),
                             IF MultiPhase(t) THEN Hash ELSE Hashes(t), {"lwv"}, v)
    /\ applied' = [applied EXCEPT ![t] = @ \cup {v}]
    /\ UNCHANGED <<nslock, tx>>

\* commit.rs 354-382: the commit succeeds.  The reply carries the changelog
\* between the client's version and this one; it is lost in a server error
\* when FoundationDB cannot tell that the commit succeeded.
CommitPhase2(t, k) ==
    /\ att[t][k].pc = "phase2"
    /\ ver < MaxVersion
    /\ NotModifiedSince(att[t][k].rc, att[t][k].rv)
    /\ ApplyWrites(t, k, ver + 1)
    /\ \/ att' = [att EXCEPT ![t][k] =
                   Answer("committed", ver', ReadInterval(Assumed(t), ver, FALSE)')]
       \/ att' = [att EXCEPT ![t][k] = Answer("error", 0, Full)]

\* commit.rs 161, 355; server.rs 860-886: a FoundationDB error (a conflict, a
\* timeout, a crash of the server) is answered with a server error.
CommitFails(t, k) ==
    /\ att[t][k].pc \in {"sent", "phase1", "phase2"}
    /\ Reply(t, k, "error")
    /\ UNCHANGED <<ver, dbVars, tx, applied>>

\* Mutant: the collector leaves the commit token alone.
DeleteKeepingToken(h) ==
    /\ ci[h] # 0
    /\ ver < MaxVersion
    /\ \A e \in idx : e.hash # h
    /\ ver' = ver + 1
    /\ content' = content \ {h}
    /\ ci' = [ci EXCEPT ![h] = 0]
    /\ mod' = WriteConflicts({}, {h}, {}, ver + 1)
    /\ UNCHANGED <<idx, lwv, clog, nslock, tx, att, applied>>

\* gc.rs 347-462, seen from the commit path: content that no page refers to is
\* deleted together with its index entry, and the commit token is cleared.
DeleteUnreferencedContent(h) ==
    /\ ci[h] # 0
    /\ ver < MaxVersion
    /\ \A e \in idx : e.hash # h
    /\ ver' = ver + 1
    /\ content' = content \ {h}
    /\ ci' = [ci EXCEPT ![h] = 0]
    /\ mod' = WriteConflicts({}, {h}, {"token"}, ver + 1)
    /\ UNCHANGED <<idx, lwv, clog, nslock, tx, att, applied>>

Client(t) ==
    CreateTransaction(t) \/ WriteMany(t) \/ SendCommit(t) \/ Retry(t) \/ Receive(t)
Server(t, k) ==
    \/ BehindClient(t, k) \/ BadPageReference(t, k)
    \/ SinglePhaseChecks(t, k) \/ MultiPhaseChecks(t, k)
    \/ CommitPhase1(t, k) \/ CommitPhase2(t, k) \/ CommitFails(t, k)

Next ==
    \/ \E t \in Tx : Client(t)
    \/ \E t \in Tx, k \in Attempt : Server(t, k)
    \/ \E h \in Hash : DeleteUnreferencedContent(h)

Spec == Init /\ [][Next]_vars

-----------------------------------------------------------------------------
(* Properties                                                               *)

\* Serializability of the committed transactions: between the version a
\* transaction started from and the version it was applied at, nobody else
\* wrote a page it read; without a read set, nobody else committed at all.
\* This is what mvstore-stress asserts (inmem.rs 49-76) and what the LWV and
\* page-level checks of commit.rs 209-286 and their conflict ranges are for.
ReadsNotOverwritten ==
    \A t, u \in Tx : t # u =>
        \A c \in applied[t], d \in applied[u] :
            Assumed(t) < d /\ d < c => Plcc(t) /\ Reads(t) \cap Written(u) = {}

\* A commit that is answered with a version was applied at that version, also
\* when the answer is the idempotent one of a retry (commit.rs 229-235).
CommittedIsApplied ==
    \A t \in Tx, k \in Attempt :
        att[t][k].res = "committed" => att[t][k].version \in applied[t]

\* A retry, and any commit checked against the LWV, is never applied on top of
\* an earlier application of the same transaction: the idempotency key stops a
\* later request, the content index in the conflict set a concurrent one
\* (commit.rs 135-143, 211-254).
RetryNotReapplied ==
    [][\A t \in Tx, k \in Attempt :
         /\ k # 1 \/ ~Plcc(t)
         /\ att'[t][k] # att[t][k]
         /\ applied'[t] # applied[t]
         => lwv.key # t]_vars

\* Every page version refers to stored content, whatever the collector deletes
\* between the phases of a commit: a commit bumps the content index of its
\* pages blindly, so it relies on the content index reads of commit.rs 135-150
\* and, across the two phases, on the commit token of 152-175.
NoDanglingReference == \A e \in idx : e.hash \in content

\* A client that refreshes its page cache from the interval of stat keeps no
\* page that changed: whatever version it comes from, a page outside the
\* interval has no version in between (stat.rs 82-88, 100-202).
StatIntervalComplete ==
    \A from \in 0..ver :
        LET i == ReadInterval(from, StatVersion(NoOwner), TRUE)
        IN  i.some => \A e \in idx :
                from < e.ver /\ e.ver <= StatVersion(NoOwner) => e.page \in i.pages

\* The changelog in a commit reply names every page that others wrote since
\* the client's version (commit.rs 358-378): the client keeps the rest.
CommitIntervalComplete ==
    \A t, u \in Tx, k \in Attempt : t # u /\ att[t][k].interval.some =>
        \A d \in applied[u] : Assumed(t) < d /\ d < att[t][k].version =>
            Written(u) \subseteq att[t][k].interval.pages

\* The idempotency key makes a commit that is sent again take effect once
\* (commit.rs 216-235).
AppliedAtMostOnce == \A t \in Tx : Cardinality(applied[t]) <= 1
=============================================================================
