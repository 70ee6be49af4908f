------------------------------ MODULE SourceList ------------------------------
(***************************************************************************)
(* The sources of subscriptions, their order and the cache rows of the     *)
(* external ones: the requests of SubscriptionService that change them,    *)
(* with their transactions.  A request asks for the rows it needs with     *)
(* several queries, another request may commit between them, and its own   *)
(* writes show to others at its commit.                                    *)
(*                                                                         *)
(* A fetch succeeds or fails at will, and so does a cooldown, since time   *)
(* is left out.  Left out too: references (SubscriptionGraph), comments,   *)
(* visibility, and the Redis copies of the cache, which no request reads.  *)
(***************************************************************************)
EXTENDS Integers, FiniteSets, SequencesExt, Functions

CONSTANTS
    Sub,            \* subscription tokens; a forgotten one stands for a new one
    Item,           \* source ids: hashes of configs and of URLs
    Url,            \* those of external URLs
    Request,        \* slots for the requests in flight at one time
    MaxSources      \* settings.max_sources_per_subscription

ASSUME SourceAssumption ==
    /\ IsFiniteSet(Sub)
    /\ IsFiniteSet(Item)
    /\ Url \subseteq Item
    /\ MaxSources \in Nat \ {0}

VARIABLES
    live,       \* the subscriptions there are
    rows,       \* rows[s][x]: the order_index of source x of s
    cached,     \* the URLs with a row in external_cache
    req         \* req[r]: the request in slot r, or Idle

vars == <<live, rows, cached, req>>

\* A set of sources with their places.
Places == UNION {[X -> 0 .. 2 * MaxSources] : X \in SUBSET Item}
NoRows == [x \in {} |-> 0]

Idle == [pc |-> "idle"]
Active == [pc : {"fetch", "unique", "drop", "limit", "apply", "full"},
           op : {"create", "add", "replace", "remove", "delete", "refresh"},
           s : Sub,
           list : Seq(Item),        \* the sources asked for
           done : Nat,              \* how many of them have been dealt with
           loaded : SUBSET Item,    \* the sources in the identity map
           gone : SUBSET Item,      \* the sources to be deleted
           doomed : SUBSET Url,     \* the cache rows to be deleted
           fetched : SUBSET Url,    \* the cache rows written
           seen : SUBSET Item,      \* seen_ids
           base : 0 .. MaxSources,  \* the order_index to start from
           mine : Places,           \* the rows inserted or updated
           inserted : SUBSET Item]

TypeOK ==
    /\ live \subseteq Sub
    /\ rows \in [Sub -> Places]
    /\ cached \subseteq Url
    /\ req \in [Request -> {Idle} \cup Active]

Init ==
    /\ live = {}
    /\ rows = [s \in Sub |-> NoRows]
    /\ cached = {}
    /\ req = [r \in Request |-> Idle]

Has(s) == DOMAIN rows[s]
Users(u) == {s \in Sub : u \in Has(s)}

\* A mutant that leaves the request's record behind.
FinishKeepingFields(r) == req' = [req EXCEPT ![r].pc = "idle"]
Finish(r) == req' = [req EXCEPT ![r] = Idle]

-----------------------------------------------------------------------------
(* Arrivals.  get_managed_subscription loads the sources.                  *)

Begin(r, op, pc, s, list, gone) ==
    /\ req[r] = Idle
    /\ req' = [req EXCEPT ![r] =
          [pc |-> pc, op |-> op, s |-> s, list |-> list, done |-> 0, loaded |-> Has(s),
           gone |-> gone, doomed |-> {}, fetched |-> {}, seen |-> {}, base |-> 0,
           mine |-> NoRows, inserted |-> {}]]
    /\ UNCHANGED <<live, rows, cached>>

\* What a request may name: its schema allows as many sources as the limit.
Lists == BoundedSeq(Item, MaxSources)

\* POST of a subscription, with its first sources.
Create(r) ==
    \E s \in Sub \ live, list \in Lists :
        /\ \A q \in Request : req[q] # Idle => req[q].s # s
        /\ Begin(r, "create", "limit", s, list, {})

\* POST of sources
Add(r) == \E s \in live, list \in Lists \ {<<>>} : Begin(r, "add", "limit", s, list, {})

\* PUT of sources: those that are not wanted go first.
Replace(r) ==
    \E s \in live, list \in Lists :
        LET gone == Has(s) \ ToSet(list)
        IN  Begin(r, "replace", IF gone = {} THEN "limit" ELSE "unique", s, list, gone)

\* DELETE of sources and of a subscription
RemoveSources(r) == \E s \in live, X \in (SUBSET Item) \ {{}} :
                        Begin(r, "remove", "unique", s, <<>>, X)
Delete(r) == \E s \in live : Begin(r, "delete", "unique", s, <<>>, Item)

\* POST refresh
Refresh(r) == \E s \in live : Begin(r, "refresh", "fetch", s, <<>>, {})

-----------------------------------------------------------------------------
(* refresh, and remove_sources                                             *)

\* refresh_subscription fetches every URL that is not in its cooldown, and
\* writes its cache row; the sources whose fetch fails are to be removed.
FetchAll(r) ==
    LET q == req[r]
    IN  /\ q.pc = "fetch"
        /\ \E skipped \in SUBSET (q.loaded \cap cached) :
              \E failed \in SUBSET ((q.loaded \cap Url) \ skipped) :
                 req' = [req EXCEPT ![r].pc = IF failed = {} THEN "drop" ELSE "unique",
                                    ![r].gone = failed,
                                    ![r].fetched = (q.loaded \cap Url) \ skipped]
        /\ UNCHANGED <<live, rows, cached>>

\* A mutant that deletes the cache rows of all the removed sources.
UniqueAll(r) ==
    LET q == req[r]
    IN  /\ q.pc = "unique"
        /\ req' = [req EXCEPT ![r].pc = "drop", ![r].doomed = q.gone \cap q.loaded \cap Url]
        /\ UNCHANGED <<live, rows, cached>>

\* A mutant that forgets the cache.
UniqueNone(r) ==
    /\ req[r].pc = "unique"
    /\ req' = [req EXCEPT ![r].pc = "drop"]
    /\ UNCHANGED <<live, rows, cached>>

\* _delete_from_cache: the URLs with one source row, over all subscriptions.
Unique(r) ==
    LET q == req[r]
    IN  /\ q.pc = "unique"
        /\ req' = [req EXCEPT ![r].pc = "drop",
              ![r].doomed = {u \in q.gone \cap q.loaded \cap Url : Cardinality(Users(u)) = 1}]
        /\ UNCHANGED <<live, rows, cached>>

\* The rows are deleted and committed.  A replacement goes on from there.
Drop(r) ==
    LET q == req[r]
    IN  /\ q.pc = "drop"
        /\ q.s \in live
        /\ live' = IF q.op = "delete" THEN live \ {q.s} ELSE live
        /\ rows' = [rows EXCEPT ![q.s] = Restrict(@, DOMAIN @ \ q.gone)]
        /\ cached' = (cached \cup q.fetched) \ q.doomed
        /\ IF q.op = "replace"
           THEN req' = [req EXCEPT ![r].pc = "limit", ![r].loaded = @ \ q.gone,
                                   ![r].gone = {}, ![r].doomed = {}]
           ELSE Finish(r)

-----------------------------------------------------------------------------
(* _add_sources_internal                                                   *)

\* The limit is tested against the sources there are, and again for every
\* source of the list.
Limit(r) ==
    LET q == req[r]
        n == Cardinality(Has(q.s))
    IN  /\ q.pc = "limit"
        /\ req' = IF n >= MaxSources
                  THEN [req EXCEPT ![r].pc = "full"]
                  ELSE [req EXCEPT ![r].pc = "apply", ![r].seen = Has(q.s),
                                   ![r].base = IF q.op = "replace" THEN 0 ELSE n]
        /\ UNCHANGED <<live, rows, cached>>

Head1(q) == q.list[q.done + 1]
Exists(q, x) == x \in q.loaded \cup DOMAIN q.mine \cup Has(q.s)

\* The source is written at its place.
Placed(q, x) ==
    [y \in DOMAIN q.mine \cup {x} |-> IF y = x THEN q.base + q.done ELSE q.mine[y]]

More(r, q) == q.pc = "apply" /\ q.done < Len(q.list)

TooMany(r) ==
    LET q == req[r]
    IN  /\ More(r, q)
        /\ Cardinality(q.seen) >= MaxSources
        /\ req' = [req EXCEPT ![r].pc = "full"]
        /\ UNCHANGED <<live, rows, cached>>

\* A mutant that leaves a source that is there where it is.
UpdateInPlace(r) ==
    LET q == req[r]
    IN  /\ More(r, q)
        /\ Cardinality(q.seen) < MaxSources
        /\ Exists(q, Head1(q))
        /\ req' = [req EXCEPT ![r].done = @ + 1, ![r].seen = @ \cup {Head1(q)}]
        /\ UNCHANGED <<live, rows, cached>>

\* A source that is there, or was written for an earlier place of the list, moves.
Update(r) ==
    LET q == req[r]
        x == Head1(q)
    IN  /\ More(r, q)
        /\ Cardinality(q.seen) < MaxSources
        /\ Exists(q, x)
        /\ req' = [req EXCEPT ![r].done = @ + 1, ![r].seen = @ \cup {x},
                              ![r].mine = Placed(q, x)]
        /\ UNCHANGED <<live, rows, cached>>

\* A mutant that does not count what the request has added.
InsertUncounted(r) ==
    LET q == req[r]
        x == Head1(q)
    IN  /\ More(r, q)
        /\ Cardinality(q.seen) < MaxSources
        /\ ~Exists(q, x)
        /\ req' = [req EXCEPT ![r].done = @ + 1,
                              ![r].mine = Placed(q, x), ![r].inserted = @ \cup {x},
                              ![r].fetched = IF x \in Url /\ Users(x) = {} THEN @ \cup {x} ELSE @]
        /\ UNCHANGED <<live, rows, cached>>

\* A new source.  A URL that no subscription has is fetched, which writes its
\* cache row; a fetch that fails ends the request (Abort).  A source another
\* request removed meanwhile is taken for a duplicate.
Insert(r) ==
    LET q == req[r]
        x == Head1(q)
    IN  /\ More(r, q)
        /\ Cardinality(q.seen) < MaxSources
        /\ ~Exists(q, x)
        /\ req' = IF x \in q.seen
                  THEN [req EXCEPT ![r].done = @ + 1]
                  ELSE [req EXCEPT ![r].done = @ + 1, ![r].seen = @ \cup {x},
                              ![r].mine = Placed(q, x), ![r].inserted = @ \cup {x},
                              ![r].fetched = IF x \in Url /\ Users(x) = {} THEN @ \cup {x} ELSE @]
        /\ UNCHANGED <<live, rows, cached>>

\* The rows of the subscription, the request's own writes included.
Written(q) ==
    [x \in Has(q.s) \cup DOMAIN q.mine |->
        IF x \in DOMAIN q.mine THEN q.mine[x] ELSE rows[q.s][x]]

\* An INSERT of a row that appeared fails, an UPDATE of a row that is gone does,
\* and so does either for a subscription that is gone.
Commit(r) ==
    LET q == req[r]
    IN  /\ q.pc = "apply"
        /\ q.done = Len(q.list)
        /\ q.op = "create" \/ q.s \in live
        /\ q.inserted \cap Has(q.s) = {}
        /\ DOMAIN q.mine \ q.inserted \subseteq Has(q.s)
        /\ live' = live \cup {q.s}
        /\ rows' = [rows EXCEPT ![q.s] = Written(q)]
        /\ cached' = cached \cup q.fetched
        /\ Finish(r)

-----------------------------------------------------------------------------

\* An error, a failed fetch or write or a lost client: the open transaction is
\* undone, and what was committed before it stays.
Abort(r) ==
    /\ req[r] # Idle
    /\ Finish(r)
    /\ UNCHANGED <<live, rows, cached>>

\* The subscriptions of an account, or of a provider for a user, go in bulk; the
\* cache is left as it is.  The request takes a free slot for its one step.
Wipe(r) ==
    /\ req[r] = Idle
    /\ \E S \in SUBSET live :
          /\ live' = live \ S
          /\ rows' = [s \in Sub |-> IF s \in S THEN NoRows ELSE rows[s]]
    /\ UNCHANGED <<cached, req>>

Arrive(r) == Create(r) \/ Add(r) \/ Replace(r) \/ RemoveSources(r) \/ Delete(r) \/ Refresh(r)

Handle(r) ==
    \/ FetchAll(r) \/ Unique(r) \/ Drop(r) \/ Limit(r) \/ TooMany(r)
    \/ Update(r) \/ Insert(r) \/ Commit(r)

Next == \E r \in Request : Arrive(r) \/ Handle(r) \/ Abort(r) \/ Wipe(r)

Spec == Init /\ [][Next]_vars

-----------------------------------------------------------------------------
(* Properties.  They hold while requests do not overlap (one slot).         *)

\* README.md:450: MAX_SOURCES_PER_SUBSCRIPTION, over adding, replacing and
\* removing in any order.
SourceLimit == \A s \in Sub : Cardinality(Has(s)) <= MaxSources

\* A URL that some subscription uses has its cache row: removing a source takes
\* only what no other subscription needs, and a source is added without a fetch
\* only where the row is there.
CachedWhileUsed == \A u \in Url : Users(u) # {} => u \in cached

\* subscription_service.py:318: the cache of an external URL is cleared with its
\* last use; only bulk deletion leaves it behind.
CacheGoesWithLastUse ==
    [][\A u \in Url :
        Users(u) # {} /\ u \in cached' /\ Users(u)' = {} => \E r \in Request : Wipe(r)]_vars

\* PUT of sources leaves exactly the sources of the request, in its order; a
\* source it names twice is at the later place.
ReplacedInOrder ==
    [][\A r \in Request :
        LET q == req[r]
            last(i) == \A j \in (i + 1) .. Len(q.list) : q.list[j] # q.list[i]
        IN  Commit(r) /\ q.op = "replace" =>
                /\ DOMAIN rows'[q.s] = ToSet(q.list)
                /\ \A i, j \in DOMAIN q.list :
                      last(i) /\ last(j) /\ i < j =>
                          rows'[q.s][q.list[i]] < rows'[q.s][q.list[j]]]_vars
=============================================================================
