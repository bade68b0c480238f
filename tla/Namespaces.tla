----------------------------- MODULE Namespaces -----------------------------
(***************************************************************************)
(* Namespace administration: create, rename, delete and list, and the      *)
(* cache through which a server resolves namespace keys to ids.            *)
(*                                                                         *)
(* Each operation is a loop around one FoundationDB transaction.  All of   *)
(* its reads see the snapshot it starts with.  It is refused if a key that *)
(* it read was written before it commits; the outcome of a commit may also *)
(* be unknown, and the loop then starts again whether or not it was        *)
(* applied.  A namespace created on demand by the data plane takes the     *)
(* steps of a create request, after a lookup that found nothing.           *)
(***************************************************************************)
EXTENDS Integers, FiniteSets

CONSTANTS
    Admin,      \* concurrent administrative requests
    MaxKey,     \* namespace keys are 1 .. MaxKey, in their encoded order
    MaxId,      \* namespaces created (bound)
    ListLimit,  \* entries of one range read of list_namespace
    CacheTtl,   \* time_to_live of nskey_cache, in ticks
    CacheTti,   \* time_to_idle of nskey_cache, in ticks
    MaxLookup   \* ticks that a lookup is under way (bound)

VARIABLES
    nskey,  \* key -> id, 0 where there is no namespace
    nsmd,   \* ids with a metadata key
    data,   \* ids with keys in their data range
    lastId, \* the last versionstamp given to a namespace
    req,    \* state of each administrative request
    list,   \* the listing
    cache,  \* nskey_cache of a server
    flight, \* the lookup of each key that is under way
    late    \* history: ids written to after they were deleted

namesVars == <<nskey, nsmd, data, lastId, req, list, cache, flight, late>>

ASSUME NamespacesAssumption ==
    /\ {MaxKey, MaxId, ListLimit, CacheTtl, CacheTti} \subseteq Nat \ {0}
    /\ MaxLookup \in Nat

NsKey == 1 .. MaxKey
Id == 1 .. MaxId
\* A bound on what an age can be before it is as good as never.
Never == CacheTtl + MaxLookup + 1

\* unknown: the transaction was applied, and the handler does not know.
NoRequest == [op |-> "idle", key |-> 1, to |-> 1, id |-> 0, stale |-> FALSE, unknown |-> FALSE]
\* The keys listed so far and those of them that were listed again; stable
\* (history): the keys that have existed throughout.
NotListing == [on |-> FALSE, cursor |-> 1, out |-> {}, again |-> {}, stable |-> {}]
\* off (history): ticks since the key was last bound to the id.
NotCached == [id |-> 0, age |-> 0, idle |-> 0, off |-> 0]
NoLookup == [on |-> FALSE, id |-> 0, age |-> 0, off |-> 0]

NamesInit ==
    /\ nskey = [k \in NsKey |-> 0] /\ nsmd = {} /\ data = {} /\ lastId = 0
    /\ req = [r \in Admin |-> NoRequest]
    /\ list = NotListing
    /\ cache = [k \in NsKey |-> NotCached]
    /\ flight = [k \in NsKey |-> NoLookup]
    /\ late = {}

-----------------------------------------------------------------------------
(* The handlers of /api/create_namespace, rename_namespace and             *)
(* delete_namespace                                                        *)

\* Does the handler return after its reads (422 or 404)?
Refused(op, key, to) ==
    CASE op = "create" -> nskey[key] # 0
      [] op = "rename" -> nskey[to] # 0 \/ nskey[key] = 0
      [] op = "delete" -> nskey[key] = 0

\* The reads of one attempt of request r.
ReadsOf(r, op, key, to) ==
    req' = [req EXCEPT ![r] =
              IF Refused(op, key, to) THEN NoRequest
              ELSE [op |-> op, key |-> key, to |-> to, id |-> nskey[key],
                    stale |-> FALSE, unknown |-> FALSE]]

Begin(r) ==
    /\ req[r].op = "idle"
    /\ \E op \in {"create", "rename", "delete"}, key, to \in NsKey :
          /\ op # "rename" => to = key
          /\ ~Refused(op, key, to)
          /\ ReadsOf(r, op, key, to)
    /\ UNCHANGED <<nskey, nsmd, data, lastId, list, cache, flight, late>>

\* Mutant: rename looks up the new key at a snapshot, without a conflict range.
ReadKeysOld(q) == {q.key}

\* The keys that the transaction of q reads with a conflict range.
ReadKeys(q) == {q.key, q.to}

\* The rows of the key table after q has been applied, with the id that it
\* creates.
Bindings(q, id) ==
    CASE q.op = "create" -> [nskey EXCEPT ![q.key] = id]
      [] q.op = "rename" -> [nskey EXCEPT ![q.key] = 0, ![q.to] = q.id]
      [] q.op = "delete" -> [nskey EXCEPT ![q.key] = 0]

\* Mutant: the data of the namespace stays.
DataAfterKept(q) == data

\* clear_range over the data of a deleted namespace.
DataAfter(q) == IF q.op = "delete" THEN data \ {q.id} ELSE data

\* History: is an entry of the cache, or a lookup, in line with the key table?
Seen(c, id) == IF c.id = id THEN [c EXCEPT !.off = 0] ELSE c

\* Write a transaction: the key table, the metadata key, the data range.  Any
\* other transaction that has read a written key will be refused.
Apply(r, next) ==
    LET q == req[r]
        new == Bindings(q, lastId + 1)
    IN  /\ q.op # "idle" /\ ~q.stale /\ ~q.unknown
        /\ q.op = "create" => lastId < MaxId
        /\ nskey' = new
        /\ lastId' = IF q.op = "create" THEN lastId + 1 ELSE lastId
        /\ nsmd' = CASE q.op = "create" -> nsmd \cup {lastId + 1}
                     [] q.op = "rename" -> nsmd
                     [] q.op = "delete" -> nsmd \ {q.id}
        /\ data' = DataAfter(q)
        /\ list' = [list EXCEPT !.stable = {k \in @ : new[k] # 0}]
        /\ req' = [x \in Admin |->
                     IF x = r THEN next
                     ELSE [req[x] EXCEPT !.stale =
                             @ \/ \E k \in ReadKeys(req[x]) : new[k] # nskey[k]]]
        /\ cache' = [k \in NsKey |-> Seen(cache[k], new[k])]
        /\ flight' = [k \in NsKey |-> Seen(flight[k], new[k])]
        /\ UNCHANGED late

\* The commit succeeds: 201 or 200.
Succeeds(r) == Apply(r, NoRequest)

\* The commit is applied, but the handler learns only that it may have been.
SucceedsUnknown(r) == Apply(r, [req[r] EXCEPT !.unknown = TRUE])

\* on_error: the loop starts again, or (400) the error cannot be retried.  A
\* commit that was not applied fails because of a conflict or of any other
\* error.
Again(r) ==
    /\ req[r].op # "idle"
    /\ \/ ReadsOf(r, req[r].op, req[r].key, req[r].to)
       \/ req' = [req EXCEPT ![r] = NoRequest]
    /\ UNCHANGED <<nskey, nsmd, data, lastId, list, cache, flight, late>>

-----------------------------------------------------------------------------
(* /api/list_namespace                                                     *)

ListBegin ==
    /\ list = NotListing
    /\ list' = [NotListing EXCEPT !.on = TRUE, !.stable = {k \in NsKey : nskey[k] # 0}]
    /\ UNCHANGED <<nskey, nsmd, data, lastId, req, cache, flight, late>>

\* Mutant: the last key of a batch is the first of the next one.
NextCursorSame(last) == last

\* cursor.push(0x00): the next key after the last one.
NextCursor(last) == last + 1

\* The first ListLimit keys from the cursor on, in a transaction of their own.
Listed ==
    {k \in NsKey : /\ k >= list.cursor /\ nskey[k] # 0
                   /\ Cardinality({j \in list.cursor .. k : nskey[j] # 0}) <= ListLimit}
LastListed == CHOOSE k \in Listed : \A j \in Listed : j <= k

\* An empty batch ends the listing.  The response that is complete is kept
\* until the client has read it.
ListBatch ==
    /\ list.on
    /\ list' = IF Listed = {} THEN [list EXCEPT !.on = FALSE]
               ELSE [list EXCEPT !.cursor = NextCursor(LastListed), !.out = @ \cup Listed,
                                 !.again = @ \cup (list.out \cap Listed)]
    /\ UNCHANGED <<nskey, nsmd, data, lastId, req, cache, flight, late>>

\* The client has read the response, or the response is aborted: a range read
\* failed, or the client went away.
ListRead ==
    /\ list # NotListing
    /\ list' = NotListing
    /\ UNCHANGED <<nskey, nsmd, data, lastId, req, cache, flight, late>>

-----------------------------------------------------------------------------
(* lookup_nskey: try_get_with of the cache.  Lookups of a key that overlap *)
(* are one; a key that is not found is not cached.                         *)

LookupBegin(k) ==
    /\ cache[k].id = 0 /\ ~flight[k].on
    /\ flight' = [flight EXCEPT ![k] = [on |-> TRUE, id |-> nskey[k], age |-> 0, off |-> 0]]
    /\ UNCHANGED <<nskey, nsmd, data, lastId, req, list, cache, late>>

LookupEnd(k) ==
    /\ flight[k].on
    /\ flight' = [flight EXCEPT ![k] = NoLookup]
    /\ cache' = [cache EXCEPT ![k] = 
                  IF flight[k].id = 0 THEN NotCached
                  ELSE [id |-> flight[k].id, age |-> 0, idle |-> 0, off |-> flight[k].off]]
    /\ UNCHANGED <<nskey, nsmd, data, lastId, req, list, late>>

\* A request of the data plane that finds its key in the cache, and uploads a
\* page.
Upload(k) ==
    /\ cache[k].id # 0
    /\ cache' = [cache EXCEPT ![k].idle = 0]
    /\ data' = data \cup {cache[k].id}
    /\ late' = IF cache[k].id \in nsmd THEN late ELSE late \cup {cache[k].id}
    /\ UNCHANGED <<nskey, nsmd, lastId, req, list, flight>>

\* Mutant: entries expire only when nobody uses them.
ExpiredIdle(c) == c.idle >= CacheTti

\* time_to_live and time_to_idle.
Expired(c) == c.age >= CacheTtl \/ c.idle >= CacheTti

\* One tick of the clock.
Off(c, id) == IF c.id = id THEN 0 ELSE IF c.off < Never THEN c.off + 1 ELSE Never
Older(c, id) == [c EXCEPT !.age = @ + 1, !.idle = @ + 1, !.off = Off(c, id)]
Pass ==
    /\ \A k \in NsKey : flight[k].on => flight[k].age < MaxLookup
    /\ cache' = [k \in NsKey |->
                   IF cache[k].id = 0 \/ Expired(Older(cache[k], nskey[k])) THEN NotCached
                   ELSE Older(cache[k], nskey[k])]
    /\ flight' = [k \in NsKey |->
                    IF flight[k].on
                    THEN [flight[k] EXCEPT !.age = @ + 1, !.off = Off(flight[k], nskey[k])]
                    ELSE NoLookup]
    /\ UNCHANGED <<nskey, nsmd, data, lastId, req, list, late>>

Administer(r) == Begin(r) \/ Succeeds(r) \/ SucceedsUnknown(r) \/ Again(r)
Listing == ListBegin \/ ListBatch \/ ListRead
Resolve == (\E k \in NsKey : LookupBegin(k) \/ LookupEnd(k) \/ Upload(k)) \/ Pass

NamesNext == (\E r \in Admin : Administer(r)) \/ Listing \/ Resolve
NamesSpec == NamesInit /\ [][NamesNext]_namesVars

-----------------------------------------------------------------------------
(* Properties                                                              *)

\* Concurrent creates, renames and deletes of the same keys, repeated when
\* their outcome is unknown, neither lose a namespace nor give it two keys: the
\* namespaces with metadata are those with a key, and have one each.
EveryNamespaceHasItsKey ==
    /\ nsmd = {nskey[k] : k \in NsKey} \ {0}
    /\ \A j, k \in NsKey : nskey[j] = nskey[k] /\ nskey[j] # 0 => j = k

\* Nothing of a deleted namespace is left, except what a server wrote to it
\* afterwards because it still had the id in its cache.
DeletedLeavesNothing == data \subseteq nsmd \cup late

\* A server resolves a key to an id only if the key was bound to it within the
\* time to live of the cache (and the time a lookup takes), however often the
\* key is used: the window in which a rename or delete goes unnoticed is
\* bounded.
ResolvesRecent ==
    \A k \in NsKey : cache[k].id # 0 => cache[k].off < CacheTtl + MaxLookup

\* A complete listing, though read in batches at different versions, names
\* every key that existed throughout, and no key twice.
ListingComplete ==
    /\ list.again = {}
    /\ ~list.on => list.stable \subseteq list.out

\* What the administration of namespaces promises: the four above.
NamespacesSound ==
    /\ EveryNamespaceHasItsKey
    /\ DeletedLeavesNothing
    /\ ResolvesRecent
    /\ ListingComplete
=============================================================================
