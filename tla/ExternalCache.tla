--------------------------- MODULE ExternalCache ---------------------------
(***************************************************************************)
(* The rows of external_cache, as requests write them at the same time.    *)
(*                                                                         *)
(* Two things make it hard.  A row that a request has written is locked    *)
(* until the request ends, and a request goes on fetching other sites      *)
(* meanwhile: requests wait for each other, and PostgreSQL breaks a cycle  *)
(* by rolling one of them back.  And a request fetches all its sites at    *)
(* once on a single session, which refuses a flush while another is        *)
(* running ("Session is already flushing").                                *)
(*                                                                         *)
(* The copies in Redis are left out: every resolution fetches, so that no  *)
(* request reads them.  The rows of sources change with the commit.        *)
(* Deleting one subscription removes its sources as RemoveSource does.     *)
(***************************************************************************)
EXTENDS FiniteSets

CONSTANTS Subscription, Url,
          Bulk,         \* the sets of subscriptions that are deleted together
          Request,      \* slots for the requests in flight at one time
          None          \* no request in a slot, no subscription

VARIABLES uses,         \* uses[s]: the external sources of s
          row,          \* row[u]: the committed row of u
          req,          \* req[r]: the request in slot r, or None
          quiet,        \* no two requests have overlapped so far
          left          \* while quiet: unused URLs whose row bulk deletion left

vars == <<uses, row, req, quiet, left>>

Kind == {"resolve", "refresh", "add", "remove"}
\* A row with no content holds the error of a fetch that never succeeded.
Row == {"none", "blank", "full"}
\* What a session holds for a row: the statement it has to make.
Write == {"nothing", "insertFull", "insertBlank", "content", "error", "delete"}
Inserts == {"insertFull", "insertBlank"}
Task == {"none", "fetch", "write", "flush",
         "ok", "failed", "clashed", "lost"}
Done == {"none", "ok", "failed", "clashed", "lost"}

Active == [kind : Kind,
           s : Subscription \cup {None},    \* None: it is gone, or a download has read it
           stage : {"fetch", "purge"},
           task : [Url -> Task],        \* the fetch of each URL
           got : SUBSET Url,            \* fetched with success
           write : [Url -> Write],
           dirty : SUBSET Url,          \* writes that no flush has taken yet
           flush : SUBSET Url,          \* writes of the running flush
           held : SUBSET Url,           \* rows written, hence locked
           lost : BOOLEAN,              \* the transaction was rolled back
           doomed : SUBSET Url,         \* sources to remove; the source to add
           clean : SUBSET Url]          \* of these, cache rows still to delete

ASSUME NoneAssumption == None \notin Active

TypeOK ==
    /\ uses \in [Subscription -> SUBSET Url]
    /\ row \in [Url -> Row]
    /\ req \in [Request -> Active \cup {None}]
    /\ quiet \in BOOLEAN
    /\ left \in SUBSET Url

Init ==
    /\ uses = [s \in Subscription |-> {}]
    /\ row = [u \in Url |-> "none"]
    /\ req = [r \in Request |-> None]
    /\ quiet = TRUE
    /\ left = {}

Busy == {r \in Request : req[r] # None}
Used(u) == {s \in Subscription : u \in uses[s]}
\* The transactions that keep others from writing the row of u.
Holders(u) == {r \in Busy : u \in req[r].held}

-----------------------------------------------------------------------------
(* Arrivals.                                                               *)

\* A request that another one is in flight with ends the quiet.
Overlap(unused) ==
    /\ quiet' = (quiet /\ Busy = {})
    /\ left' = IF quiet' THEN left \cup unused ELSE {}

Begin(r, kind, s, urls, doomed) ==
    /\ req[r] = None
    /\ req' = [req EXCEPT ![r] =
           [kind |-> kind, s |-> s, stage |-> "fetch",
            task |-> [u \in Url |-> IF u \in urls THEN "fetch" ELSE "none"],
            got |-> {}, write |-> [u \in Url |-> "nothing"],
            dirty |-> {}, flush |-> {}, held |-> {}, lost |-> FALSE,
            doomed |-> doomed, clean |-> {}]]
    /\ Overlap({})
    /\ UNCHANGED <<uses, row>>

\* A download fetches every external source of the subscription, and needs no more.
Resolve(r, s) == uses[s] # {} /\ Begin(r, "resolve", None, uses[s], {})

\* POST /subs/{token}/refresh; what was fetched within the cooldown is skipped.
Refresh(r, s) ==
    \E due \in SUBSET uses[s] : due # {} /\ Begin(r, "refresh", s, due, {})

\* A new source is fetched unless some subscription has it already (exists).
AddSource(r, s) ==
    \E u \in Url \ uses[s] :
        Begin(r, "add", s, IF Used(u) = {} THEN {u} ELSE {}, {u})

RemoveSource(r, s) == \E u \in uses[s] : Begin(r, "remove", s, {}, {u})

Arrive(r) ==
    \E s \in Subscription :
        Resolve(r, s) \/ Refresh(r, s) \/ AddSource(r, s) \/ RemoveSource(r, s)

\* The subscriptions of an account, or of a provider for a user, are deleted at once,
\* and their sources with them; no one looks at the cache.  Another request may be at
\* work on them.  The deletion takes a free slot for its one step.
Wipe(r) ==
    /\ req[r] = None
    /\ \E gone \in Bulk :
          /\ uses' = [s \in Subscription |-> IF s \in gone THEN {} ELSE uses[s]]
          /\ req' = [x \in Request |->
                         IF req[x] # None /\ req[x].s \in gone THEN [req[x] EXCEPT !.s = None]
                                                              ELSE req[x]]
          /\ Overlap({u \in Url : Used(u) # {} /\ Used(u) \subseteq gone})
          /\ UNCHANGED row

-----------------------------------------------------------------------------
(* The session.                                                            *)

Set(r, q) == req' = [req EXCEPT ![r] = q]
\* A mutant that closes the session and keeps its record.
CloseKeepingRecord(r) == req' = [req EXCEPT ![r].kind = "closed"]
\* The session is closed, which rolls back what is not committed.
Close(r) == Set(r, None)

\* After a failed flush the session refuses every call until it is rolled back
\* (PendingRollbackError); the database has rolled back and holds no lock.
Rolled(q) ==
    [q EXCEPT !.task = [u \in Url |-> IF q.task[u] = "flush" THEN "lost" ELSE q.task[u]],
              !.write = [u \in Url |-> "nothing"],
              !.dirty = {}, !.flush = {}, !.held = {}, !.clean = {}, !.lost = TRUE]

\* The row of u as the session sees it, its own write included.
Sees(q, u) ==
    IF u \notin q.held THEN row[u]
    ELSE CASE q.write[u] \in {"insertFull", "content"} -> "full"
           [] q.write[u] = "insertBlank" -> "blank"
           [] q.write[u] = "delete" -> "none"
           [] OTHER -> row[u]

\* A mutant whose INSERT overwrites the row that is there (ON CONFLICT DO UPDATE).
AppliesOver(write, u) == write \in {"content", "error"} => row[u] # "none"
\* An INSERT finds no row, an UPDATE finds one; a DELETE need not.
Applies(write, u) ==
    CASE write \in Inserts -> row[u] = "none"
      [] write \in {"content", "error"} -> row[u] # "none"
      [] OTHER -> TRUE

\* The task whose flush is running goes on when its last statement is done.
Flushed(q) ==
    [u \in Url |-> IF q.task[u] # "flush" THEN q.task[u]
                   ELSE IF u \in q.got THEN "ok" ELSE "failed"]

\* One statement of a flush, in whatever order the ORM sends them; it waits while
\* another transaction holds the row.
Statement(r, u) ==
    LET q == req[r]
        next == [q EXCEPT !.flush = @ \ {u}, !.held = @ \cup {u}]
    IN  /\ u \in q.flush
        /\ Holders(u) \subseteq {r}
        /\ IF u \in q.held \/ Applies(q.write[u], u)
           THEN Set(r, IF next.flush = {} THEN [next EXCEPT !.task = Flushed(q)] ELSE next)
           ELSE Set(r, Rolled(q))       \* IntegrityError, StaleDataError
        /\ UNCHANGED <<uses, row, quiet, left>>

\* A mutant of the database: no deadlock detection.
NeverDeadlocked(r) == FALSE
\* Every statement r could make waits for a transaction that waits in turn.
Deadlocked(r) ==
    \E ring \in SUBSET Busy :
        /\ r \in ring
        /\ \A x \in ring : /\ req[x].flush # {}
                           /\ \A u \in req[x].flush : (Holders(u) \ {x}) \cap ring # {}

\* PostgreSQL picks a victim (DeadlockDetectedError).
Victim(r) ==
    /\ req[r] # None
    /\ Deadlocked(r)
    /\ Set(r, Rolled(req[r]))
    /\ UNCHANGED <<uses, row, quiet, left>>

-----------------------------------------------------------------------------
(* One fetch (_fetch_and_cache), of the many of a request.                 *)

\* create_or_update_cache: content, or last_error and the count of errors.
WriteFor(found, got) ==
    IF found THEN IF got THEN "content" ELSE "error"
             ELSE IF got THEN "insertFull" ELSE "insertBlank"

\* fetch() ends, after retries, with content or with ExternalFetchError; then the
\* session looks for the row, which on a session rolled back is an error.
Look(r, u) ==
    LET q == req[r]
    IN  /\ q.task[u] = "fetch"
        /\ \E got \in BOOLEAN :
               Set(r, [q EXCEPT
                   !.task[u] = IF ~q.lost THEN "write" ELSE IF got THEN "lost" ELSE "failed",
                   !.write[u] = IF q.lost THEN "nothing" ELSE WriteFor(row[u] # "none", got),
                   !.got = IF got THEN @ \cup {u} ELSE @])
        /\ UNCHANGED <<uses, row, quiet, left>>

\* flush(): takes what is dirty, or is refused while another one is running.  A new
\* row is then left to the next flush of the session; a change of a row is dropped
\* when the running flush ends and resets what was modified meanwhile.
Flush(r, u) ==
    LET q == req[r]
    IN  /\ q.task[u] = "write"
        /\ IF q.lost
           THEN Set(r, [q EXCEPT !.task[u] = IF u \in q.got THEN "lost" ELSE "failed"])
           ELSE IF q.flush # {}
           THEN Set(r, [q EXCEPT !.task[u] = IF u \in q.got THEN "clashed" ELSE "failed",
                                 !.dirty = IF q.write[u] \in Inserts THEN @ \cup {u} ELSE @])
           ELSE Set(r, [q EXCEPT !.task[u] = "flush",
                                 !.flush = q.dirty \cup {u}, !.dirty = {}])
        /\ UNCHANGED <<uses, row, quiet, left>>

-----------------------------------------------------------------------------
(* The end of a request.                                                   *)

Fetched(q) == q.stage = "fetch" /\ \A u \in Url : q.task[u] \in Done
\* A mutant that goes on after the transaction was lost.
NeverSpoilt(q) == FALSE
\* A lost transaction makes the next call of the request raise.
Spoilt(q) == q.lost

\* The sources the request removes.
Refused(q) ==
    IF q.kind = "refresh" THEN {u \in Url : q.task[u] \in {"failed", "clashed", "lost"}}
    ELSE IF q.kind = "remove" THEN q.doomed ELSE {}

\* A mutant that deletes the cache row of every removed source.
UniqueAnyway(gone) == gone
\* get_unique_ids: those with a single row in sources, whosever it is.
Unique(gone) == {u \in gone : \E s \in Subscription : Used(u) = {s}}

\* _delete_from_cache, before the sources go.
Sweep(r) ==
    LET q == req[r]
        gone == Refused(q)
    IN  /\ Fetched(q) /\ ~Spoilt(q)
        /\ q.kind # "resolve"
        /\ q.kind = "add" => \A u \in Url : q.task[u] \in {"none", "ok"}
        /\ Set(r, [q EXCEPT !.stage = "purge",
                            !.doomed = IF q.kind = "add" THEN @ ELSE gone,
                            !.clean = Unique(gone)])
        /\ UNCHANGED <<uses, row, quiet, left>>

\* delete_cache: the row, if the session finds one.
Purge(r, u) ==
    LET q == req[r]
    IN  /\ q.stage = "purge" /\ q.flush = {} /\ u \in q.clean
        /\ IF Sees(q, u) = "none"
           THEN Set(r, [q EXCEPT !.clean = @ \ {u}])
           ELSE Set(r, [q EXCEPT !.clean = @ \ {u}, !.write[u] = "delete",
                                 !.flush = q.dirty \cup {u}, !.dirty = {}])
        /\ UNCHANGED <<uses, row, quiet, left>>

\* What is still dirty is written by the flush of the last statements.
FlushRest(r) ==
    LET q == req[r]
    IN  /\ q.stage = "purge" /\ q.clean = {} /\ q.flush = {} /\ q.dirty # {}
        /\ Set(r, [q EXCEPT !.flush = q.dirty, !.dirty = {}])
        /\ UNCHANGED <<uses, row, quiet, left>>

\* The subscription has been deleted: neither it nor its sources can be written.
Orphan(q) == q.s = None
\* Another request has added the source first: the primary key of sources.
Taken(q) == ~Orphan(q) /\ q.kind = "add" /\ q.doomed \cap uses[q.s] # {}

Commit(r) ==
    LET q == req[r]
    IN  /\ q.stage = "purge" /\ q.clean = {} /\ q.flush = {} /\ q.dirty = {}
        /\ ~Spoilt(q) /\ ~Orphan(q) /\ ~Taken(q)
        /\ uses' = [uses EXCEPT ![q.s] = IF q.kind = "add" THEN @ \cup q.doomed
                                                           ELSE @ \ q.doomed]
        /\ row' = [u \in Url |-> Sees(q, u)]
        /\ left' = {u \in left : Used(u)' = {}}
        /\ Close(r)
        /\ UNCHANGED quiet

\* A resolution commits nothing; a source that could not be fetched is not added;
\* a lost transaction, a subscription that is gone or a source that is there by now
\* ends in an error.
GiveUp(r) ==
    LET q == req[r]
    IN  /\ \/ /\ Fetched(q)
              /\ \/ q.kind = "resolve" \/ Spoilt(q)
                 \/ q.kind = "add" /\ \E u \in Url : q.task[u] \in {"failed", "lost"}
           \/ q.stage = "purge" /\ (Spoilt(q) \/ Orphan(q) \/ Taken(q))
        /\ Close(r)
        /\ UNCHANGED <<uses, row, quiet, left>>

\* The client or the worker goes away.
Abort(r) ==
    /\ req[r] # None
    /\ Close(r)
    /\ UNCHANGED <<uses, row, quiet, left>>

Step(r) ==
    /\ req[r] # None
    /\ \/ \E u \in Url :
           Look(r, u) \/ Flush(r, u)
             \/ Statement(r, u) \/ Purge(r, u)
       \/ Victim(r) \/ Sweep(r) \/ FlushRest(r) \/ Commit(r) \/ GiveUp(r)

Next == \E r \in Request : Arrive(r) \/ Wipe(r) \/ Step(r) \/ Abort(r)

\* Fetches time out, queries return, and those that wait for a row get it in turn.
Fairness == \A r \in Request : SF_vars(Step(r))

Spec == Init /\ [][Next]_vars
FairSpec == Spec /\ Fairness

-----------------------------------------------------------------------------
(* Properties.                                                             *)

\* As long as requests come one after the other, every source that a subscription
\* has is backed by stored content, whatever fetches fail, flushes clash and requests
\* are cut off; and a row without a source is one that bulk deletion left, to be used
\* again or stay (services/subscription_service.py: refresh_subscription,
\* remove_sources, _add_external_source).
CacheServesUse ==
    quiet => \A u \in Url :
                row[u] = IF Used(u) = {} /\ u \notin left THEN "none" ELSE "full"

\* Stored content is replaced or deleted, never turned into a row with an error
\* alone: not when a fetch fails, nor when a request that saw no row inserts one
\* after another request has (create_or_update_cache).
ContentKept == [][\A u \in Url : row[u] = "full" => row'[u] # "blank"]_vars

\* What a refresh leaves behind, whoever else wrote the rows meanwhile: a source it
\* fetched and kept has its content stored; a source it took away was fetched without
\* success, or its write met the flush of another fetch of the same refresh, never
\* because the transaction was lost (refresh_subscription).
RefreshSettles ==
    [][\A r \in Request :
           LET q == req[r]
           IN  q # None /\ req'[r] = None /\ <<uses, row>>' # <<uses, row>> /\ q.kind = "refresh"
               => /\ \A u \in q.got \cap uses'[q.s] : row'[u] = "full"
                  /\ \A u \in (uses[q.s] \ uses'[q.s]) \cap q.got :
                         \E v \in Url \ {u} : q.task[u] = "clashed" /\ q.task[v] \in {"ok", "failed"}]_vars

\* Requests that wait for the rows of each other all end (external_cache_repository:
\* every write of a row is made on the way, and kept locked to the end).
RequestsEnd == \A r \in Request : req[r] # None ~> req[r] = None
=============================================================================
