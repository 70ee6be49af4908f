# v2hub-api in TLA+

Specifications of the v2hub-api service (`src/src/v2hub_api`, Python, FastAPI over
PostgreSQL and Redis), TLC runs that check them on small instances, and TLAPS proofs of
their main properties for every instance. Paths below are relative to `src/src/v2hub_api`
unless they begin with `src/`.

Run a model with `tlc -config <run>.cfg <MC module>.tla`, a proof with `tlapm <module>.tla`.
`PROJECT.json` maps every definition to the lines it models, and lists runs, mutants,
hazards, findings and theorems.

## 1. The system

v2hub keeps *subscriptions*: lists of proxy configs that VPN clients download by token. An
entry of a list (a *source*) is a config, an external URL that serves configs, or a
reference to another subscription. *Users* own subscriptions; *providers* create them for
users who have consented; an *administrator* (a bot, mostly) manages accounts, bans and the
whitelist.

Every request is one coroutine on one asyncio event loop, with a database session of its
own. Requests interleave wherever a handler awaits a query, a Redis call or a fetch, and
several worker processes may run. There are no background workers in this code, although
`src/README.md:22` and `:972` speak of Celery. PostgreSQL runs at READ COMMITTED, no handler
locks a row (`SELECT ... FOR UPDATE` is never used), and nothing is committed that a handler
does not commit itself (`db/session.py:54-73`, whose docstring says otherwise).

### Inventory

| component | state | operations | what makes it correct |
|---|---|---|---|
| **Provider connections** `services/provider_authorization_service.py`, `api/endpoints/me.py`, `provider.py`, `admin/provider_authorization.py` | `provider_authorizations` (PENDING, APPROVED, REVOKED) | ask, relay, approve, reject, revoke, disconnect | quota of approved providers; only what is pending is approved; no row without its accounts; a rejection keeps subscriptions |
| **Accounts and invites** `services/user_service.py`, `provider_service.py`, `utils/auth_hmac.py`, `api/endpoints/admin/users.py`, `providers.py`, `provider_authorization.py` | `users`, `providers`, links handed out | create, (de)activate, rename, delete with cascades; hand out a link for a user without an account, and take it back | an id, a name, an owner stand for one row; a link connects its user to the provider that holds it; what names a deleted account goes with it |
| **Subscriptions and references** `services/subscription_service.py` | `subscriptions`, INTERNAL_TOKEN rows of `sources` | create, add, replace, remove, delete; the recursive cycle and depth check | no cycles, bounded depth, no dangling references, no groundless refusals |
| **Source lists and cache rows** the same service, `services/cache_service.py` | `sources` with `order_index`, `external_cache` | the same requests, and refresh | source limit; requested order; a cache row as long as its URL is used, no longer |
| **Resolver** `services/resolver_service.py` | none between requests; one accumulator per resolution | resolve a token into a list of configs | bounded, no duplicates, ordered; nothing hidden or out of depth shows; ends on cycles |
| **Cache of external sites (L2)** `services/cache_service.py`, `db/repositories/external_cache_repository.py` | `external_cache`, locks on its rows | look up, fetch, insert, update, delete, from concurrent fetches on one session | stored content is kept; rows and sources match; a refresh stores what it fetched; requests that wait for each other end |
| **Abuse guard** `services/ban_service.py`, `whitelist_service.py`, `utils/rate_limiter.py`, `middlewares/rate_limit_middleware.py` | Redis: bans, violation counters, sorted sets of request times, whitelist; the limiter's back-off | check a request, count it, record a violation, ban; the administrator bans, unbans, looks, edits the whitelist | bans are earned and stand; violations are forgotten in time |
| Dependencies `api/dependencies.py` | none | authenticate, require an approved connection | (as guards of the first component) |
| Database session, repositories `db/` | transactions, identity map | commit, rollback | (as atomicity of the steps) |
| Cache in Redis (L1) `services/cache_service.py` | copies with a TTL | read, write, delete | not modelled |
| HTTP client `utils/http_client.py` | none beyond one call | fetch with retries | an outcome of `Look` in `ExternalCache` |
| Parser, URL validator, statistics, schemas, wiring, deployment | - | - | not modelled |

Interactions: endpoints call services, which call repositories on the shared session;
subscription requests ask the connection component whether the provider is approved
(`api/dependencies.py:188`) and clean `external_cache`; the resolver reads what subscription
requests write; account deletion reaches every table by foreign keys; the guard runs before
every endpoint.

### What is hard

* **Check, then act.** Quotas, limits, status tests and the cycle check are queries of their
  own; the write comes one or more awaits later, without a lock.
* **Stale instances.** The session's identity map returns what was read first; an UPDATE by
  key overwrites what another request has committed.
* **Several transactions in one request.** Replacing sources commits the removal, then adds.
* **A recursion with a memo** decides what references may be stored; another recursion, on
  shared accumulators, flattens what was stored.
* **One session, many fetches.** All fetches of a request run at once on its session, which
  refuses a flush while another is running and every call after a failed flush.
* **Locks kept while fetching.** A row of `external_cache` that a request has written is
  locked until the request ends, and the request goes on fetching other sites: requests
  wait for each other, in cycles too.
* **Names that change hands.** An invite is handed out by one request and redeemed by
  another, which finds the provider by a name that may belong to someone else by then.
* **Redis calls that fail one by one**, with failures hidden, and keys whose deadline is set
  by a second call.

`PROJECT.json` lists the hazards line by line, with the properties that cover each.

## 2. Modules

```
ProviderConsent            what the connection API promises, atomic steps
   ^ refined by
ProviderAuth               the handlers, one query at a time        ProviderAuth_proofs
Directory                  what the accounts API promises, atomic steps
   ^ refined by
Accounts                   the handlers, one query at a time        Accounts_proofs, Accounts_refinement
SubscriptionGraph          references and the cycle/depth check     SubscriptionGraph_proofs
SourceList                 source rows, order, cache rows           SourceList_proofs
ExternalCache              cache rows, locks, sessions              ExternalCache_proofs
Resolver                   one resolution                           Resolver_proofs
AbuseGuard                 bans, limits, counters, whitelist, time  AbuseGuard_proofs
MC<module>                 the instance TLC checks
```

### ProviderConsent and ProviderAuth

`ProviderConsent` is the abstract specification: accounts, `auth[u][p]` (the status of the
authorization row, `NONE` without a row) and `subs[u][p]` (the provider's subscriptions for
the user), with one atomic step per request. `ProviderAuth` extends it with request slots and
splits every handler at its awaits. A record in `req` holds what the coroutine holds: the
step it is at (`pc`), and the status it read (`row`: the instance in the identity map, which
later `session.get()` calls return unchanged).

| action | code |
|---|---|
| `ConnectionRequested` ... `ProviderCalled` | who may call; `api/dependencies.py` and the head of each endpoint |
| `ReadRow` | the first read of the row and the test on its status |
| `Insert`, `Reset` | `add_authorization`, `reinitialize_authorization` |
| `Count`, `Grant` | the quota query of `grant()`, then its update |
| `List`, `Wipe`, `Erase`, `Revoke` | reject, revoke and disconnect |
| `CountSubs`, `InsertSub`, `Load`, `DeleteSub` | subscriptions of an approved provider |
| `Abort` | an error, a lost client or a restart before the commit |
| `AccountStep` | the admin API on accounts, one step each |

Abstractions: a write and its commit are one step, since the written row is locked between
them. Account handlers are atomic here (`Accounts` takes them apart), names and secrets are
left out. Hashes are not reused: a user who
returns has a new one. A user who owns a provider cannot be deleted (`owner_hash` is NOT NULL
and not cascaded by the ORM), so `User` stands for accounts that own none.

### Directory and Accounts

`Directory` is what a client of the accounts API sees: `accounts[id]` and `brands[n]` hold at
most one account and one provider, `invited` the links handed out, `connected` the rows made
by following one, and every request is one atomic step. `Accounts` has the tables as sets of
rows, whose unique columns and foreign keys are guards (`UserFits`, `ProviderFits`,
`NameFits`), and splits the handlers at their queries. The refinement maps `accounts` to what
`get_by_user_id` returns and `brands` to what `get_by_name` does; that these are sets of one
row at most is `KeysHold`.

| action | code |
|---|---|
| `CreateUser`, `InsertUser` | `user_service.create_user`: the look-up, then the INSERT |
| `SetUserActive`, `UpdateUser` | `set_active` |
| `DeleteUser`, `LoadOwned`, `EraseUser` | `delete_user`: the flush loads the account's provider and fails when there is one (`owner_hash` cannot be set to NULL), then the DELETE with the cascades of the database |
| `CreateProvider`, `InsertProvider`, `SetProviderActive`, `SetProvider`, `DeleteProvider`, `EraseProvider` | the same for `provider_service` |
| `UpdateProviderName`, `CheckName`, `RenameProvider` | `update_provider_name`: the row, the name, the UPDATE |
| `CreateConnection`, `HandOut` | `POST /providers/{user_id}` for a user without an account: a link signed for the id and the provider's hash |
| `ProcessRequest`, `RelayFind`, `RelayCheck`, `InsertUser`, `FindAuth`, `InsertAuth` | the bot brings the link back: provider by name, user by id or created, HMAC, row |
| `Forget` | the row goes (by the handlers of `ProviderAuth`) |
| `Abort` | an error, a lost client or a restart before the commit |

Abstractions: a write and its commit are one step (in the relay, whose user is created and
committed before the row, they are two). An HMAC is what it signs. Arrivals that the first
query ends are left out, since they leave no trace. `provider_url` and the refreshing of
tokens, single UPDATEs of a column that no guard reads, are left out.

### SubscriptionGraph

`refs` is the graph of INTERNAL_TOKEN sources. A request that adds references carries the
call stack of `_check_circular_reference`: a frame is a token and its references still to
follow, the tokens of the stack are `visited`, `memo` is `checked`. `Follow` is one recursive
call (raise, answer from the memo, or descend with one query), `Return` writes the memo,
`Pass` ends the check of a target and `Commit` writes the rows. `Prune` is the first
transaction of a replacement. `Remove`, `Delete` (with `delete_internal_references`) and
`Wipe` (bulk deletions, which leave references behind) are single transactions.

Abstractions: one URL per token, no sources other than references, references of a
request become visible at its commit. The code checks no owner on references (the comment at
`db/models/source.py:33` says "same user only"), so the model does not either. The depth is
measured below the new target only; that references added *above* make chains longer than
the limit is accepted by the code, and `OpenedOnce` in the resolver shows what such a chain
does when it is read.

### SourceList

`rows[s]` maps the sources of a subscription to their `order_index`, `cached` is the set of
URLs with a row in `external_cache`. Each request runs through `Unique` (which cache rows are
used once), `Drop` (the removal and its commit), `Limit`, one `Update`/`Insert`/`TooMany` per
source of the list, and `Commit`; `FetchAll` is refresh. `Abort` undoes the open transaction
only, so a replacement that stops after `Drop` has lost its old sources. `Written` is the order
the rows of a request get at its commit.

Abstractions: time is left out, so a cooldown and a fetch go either way. The Redis copies of
the cache are left out since no request reads one: `get_from_cache_only` is reached only in
the cooldown branch of the resolver, whose lookup (`services/resolver_service.py:250-266`)
never matches. What a resolution writes to `external_cache` is rolled back with its session
(`ExternalCache` has it, with its locks). A list has at most `MaxSources` entries, by the schema. The two queries of
`get_by_pk` and `exists` for one source are one step.

### ExternalCache

`row[u]` is the committed row of a URL (none, blank: an error without content, or full),
`uses[s]` the external sources of a subscription. A request holds its session: the task of
each fetch, what is dirty, what the running flush has still to send, the rows it has written
(`held`, locked until it ends) and whether its transaction was `lost`.

| action | code |
|---|---|
| `Resolve`, `Refresh`, `AddSource`, `RemoveSource` | the requests that reach the cache: downloads, `refresh_subscription`, `_add_external_source`, `remove_sources` |
| `Wipe` | bulk deletion (`delete_by_provider`, the cascades of accounts): sources go, rows stay; a request at work on a subscription that goes cannot commit |
| `Look` | the fetch ends, with content or with ExternalFetchError, and the session looks the row up |
| `Flush` | `flush()` of `create`/`update`; refused while another flush of the session runs, and after a failed one |
| `Statement` | one INSERT, UPDATE or DELETE; it waits while another transaction holds the row, and loses the transaction when it does not apply |
| `Victim` | PostgreSQL breaks a cycle of waiting transactions |
| `Sweep`, `Purge`, `FlushRest` | `_delete_from_cache` for the sources that go, and the flush of what is left |
| `Commit`, `GiveUp`, `Abort` | the end: commit, rollback, a client that is gone |

Abstractions: the Redis copies are left out, since no request reads them; a URL's content is
full or not; the statements of a flush come in any order; a new row whose flush was refused
stays pending for the next flush, while a change of an existing row that was refused is
dropped when the running flush ends (SQLAlchemy resets what was modified meanwhile); rows of
`sources` change with the commit; the deletion of one subscription is a removal of its sources,
source by source. A bulk deletion looks at no row of the cache, so the rows of the URLs it takes
the last use of stay behind, with requests that come one after the other too; nothing ever removes
them unless some subscription uses the URL again. `left` (for the property only) names them, and
`CacheServesUse` allows for no other row without a source. The database is external: row locks, its deadlock detector
and the refused session are modelled from how the code relies on them. `SourceList` has the
same clean-up seen from the lists, for requests that do not overlap and with limits and order;
`ExternalCache` has it with overlap and locks, without them.

### Resolver

The stack holds the calls of `_resolve_recursive`, each with the sources it has still to
apply. The gathered I/O of a call returns before anything is applied, and the outcomes are
applied in the order of the sources, so a call's outcomes are a constant of the resolution
(`world`), and what is left is the order of application. `Skip` drops what is not eligible at
this depth, `ApplyConfig`, `ApplyUrl` (with truncation), `AddFetched` (one config of an external
source), `ApplyToken` and `LoseToken` (a reference, its comments, the recursion) and `Return`
are the rest. `resolved`, `result`, `comments` and the two flags are the shared accumulator.

Abstractions: what is stored does not change during one resolution; a failed fetch is an
empty list; titles and descriptions are left out.

The reference definition has no memory and no limit. A *route* is a chain of references from
the root, a *place* a route, the sources it goes by, and an item of the source at its end
(`Routes`, `Steps`, `Places`); `Before` is the order of the sources with every reference
replaced by what it stands for. The list is compared with the places: nothing else is in it
(`OnlyMeant`), none is missing (`NothingMissed`), and they stand in the order of their first
places (`OrderPreserved`). The code resolves a subscription at its first place only, so that
the last two are no matter of course: they say that the later places add nothing and move
nothing. They hold for lists that are whole, of sources with the default `max_depth`; without
the second condition the one is refuted (`EverythingMeant`, finding 3).

### AbuseGuard

A handler (`Request`, `Look`, `BanIp`, `UnbanIp`) takes a slot; each of its steps is one
call to Redis that is carried out and answered: `Check` (is_banned), `Info`, `Purge`, `White`,
`CheckLimit` (the Lua script), `Incr`, `Expire`, `Ban`, `Reset`, `Set`, `Unban`. Bans are
checked before the whitelist, as in the code.

Any call may go unanswered. `Resend` is the client's second attempt (`retry_on_timeout`,
`services/cache_service.py:350`), `Fail` the handler's `except` branch after it (let the request
through, go on, or keep away from Redis for a while: `backoff`), `Abort` a restart or a lost
client. In each case the call is lost, or it *stays behind* in a free slot (`call = "left"`) and
Redis carries it out later, at any time, in any order, with nobody to hear the answer. So an
INCR can count one violation twice, and then answers 2, which keeps the service from setting
the deadline; and an EXPIRE can come late, or after the counter it was meant for.

Time passes in `Tick`, between any two calls. A ban is kept as the time it has left, an entry of
a sorted set as its age, so time needs no bound. The value of a ban says when it ends, and its
key lives a little longer (a ban of value 0), until `Evict`, `Purge` or the next tick.

Three variables are there for the properties only. `recent` has the ages of the last violations
that handlers recorded. `blind` marks a handler that does not know of a ban: it began before the
ban was written, or its own GET failed. `loose` marks a counter with which something went wrong:
it was raised by an INCR left behind, or the EXPIRE that its first violation calls for was
given up or had not been carried out when a tick passed. The code does not repair such a
counter (`services/ban_service.py:192` sets a deadline on the answer 1 only): it stands without a
deadline until a ban or the administrator deletes it. `CounterMortal` and `BanEarned` say that
this is the only way: every other counter has its deadline or a handler about to set it, and
bans on violations of one window alone, however bans, resets and unbans meet on the way.

Abstractions: entries of one tick are one entry (as two requests of one millisecond are one
member of the sorted set); a script's clock is that of the tick it runs in, though the caller
passes it (`utils/rate_limiter.py:169`); a call is sent twice at most, as redis-py does by
default; Redis itself keeps its data; counts are not told apart from
`MaxViolations` on (the code tests `== 1` and `>=` only); the back-off is read where the
answer before it arrives, and a script under way at that time is evaluated all the same; one worker process as far as the
back-off goes; descriptions in the whitelist are left out, and the whitelist is edited in one
step. The EXPIRE of a sorted set is twice its window, when all entries are out of the window.

## 3. Runs

Every run has a bounded instance and no state constraint; what bounds the state space is in
the constants. Deadlock is checked in the graph, the source lists, the cache and the guard,
and off where the model really may stop: once every account of an instance of `ProviderAuth`
has been deleted no request can arrive, the hashes of an instance of `Accounts` can all be
spent, and a resolution ends.

| run | instance | checks | shows |
|---|---|---|---|
| `auth_concurrent` | 2 requests, 2 providers, 1 user, 3 tokens, both limits 1 | TypeOK, QuotaSlack, SubsSlack, OwnedRows, ApprovalNeedsRow | each limit is overshot by at most the number of overlapping requests less one; nothing outlives its accounts; a deleted connection is not approved back |
| `auth_serial` | 1 request, 3 providers, quota 2 | ConsentSpec, SubsHaveRow, OnlyPendingApproved, SubsLostOnPurpose | without overlap the handlers implement the atomic specification and what the docs say |
| `auth_pending_only` | as concurrent | OnlyPendingApproved (violated) | finding: an approval overwrites a revocation |
| `graph_serial` | 1 request, 5 tokens, depth 2, batches of 2 | TypeOK, Acyclic, DanglingOnlyWiped, RefusedForReason | no cycle is ever stored; dangling references come from bulk deletion alone; refusals have a reason |
| `graph_memo` | as serial | PassedWithinDepth (violated) | finding: the memo comparison lets deep targets pass |
| `resolver_list` | 4 tokens, depth 3, 3 configs, lists of up to 2 sources, 3 sets of contents, comments and failures (293,723 states) | TypeOK, WithinLimit, OpenedOnce, OnlyMeant, OrderPreserved, NothingMissed, CommentPrecedence, Descends, Terminates | what a resolved list may and must contain, in which order, and that every step leads to its end |
| `resolver_diamond` | the same | EverythingMeant (violated) | finding: a subscription first reached on the longer of two chains loses configs |
| `sources_serial` | 1 request, 2 subscriptions, 4 sources of which 2 URLs, limit 2 | TypeOK, SourceLimit, CachedWhileUsed, CacheGoesWithLastUse, ReplacedInOrder | limits, order and cache rows over any sequence of requests |
| `abuse_guard` | 2 slots, 1 address, 1 kind of endpoint, window 2, 2 violations in 2 ticks, bans of 1 or 2 ticks (3,672,784 states) | TypeOK, CounterMortal, BanEarned, BanKept | bans are earned, bans stand, counters end, whatever calls fail, are repeated or come late; but for counters that lost their deadline |
| `accounts` | 2 requests, 2 ids, 3 user hashes, 2 provider hashes, 2 names, 1 link (671,580 states) | TypeOK, KeysHold, DirectorySpec, SeenProvidersStay | the handlers implement the directory through every race of check and insert; a link connects to its own provider; a deletion takes along no provider it could have seen |
| `external_cache` | 2 requests, 2 subscriptions, 2 URLs, bulk deletion of any subscriptions (4,743,385 states) | TypeOK, CacheServesUse, ContentKept, RefreshSettles | content is kept, rows and sources match without overlap but for what bulk deletion leaves, a refresh stores what it kept |
| `cache_waits` | 2 requests, 1 subscription, 2 URLs, no bulk deletion (320,065 states), no symmetry | RequestsEnd | requests that wait for each other's rows end |

Why the bounds are enough. A race of a counted limit needs a limit of one and two slots; a
race of two handlers on one row needs one user and one or two providers. A diamond in the
graph, with chains of different length under the depth limit, needs five tokens at depth 2; a
cycle needs two. In the resolver three tokens that refer to each other and a fourth that leads
back into them, at depth 3, give two-cycles, cycles through the root, diamonds, a cycle of three
entered below the root, and lists cut at the depth; three configs and a limit of three give
truncation in the middle of a fetched batch; a config whose comment is empty, a comment on a
config of someone else's list, an unreadable and a missing subscription are among the contents. In the sources two subscriptions share a URL or do not, and a
list of two has an order and a repetition. In the accounts two names can change hands, a user can leave and return under a new
hash and leave again, and one link meets both providers and both ids. In the cache two URLs
and two requests give every clash of flushes in one session, every order of writes in two, and
the cycle of waiting (two rows, two transactions); two subscriptions share a URL or do not.
A bulk deletion makes no request wait,
so `cache_waits` does without.
In the guard two handlers, or a handler and a call left behind, overlap at every pair of calls;
BanTime is shorter than the administrators' time and than the violation window, so that one ban
can cut another and counters outlive bans. The kinds of endpoint differ in the
names of their buckets only, so that one will do. `BanEarned` needs `MaxViolations` of 2 or more: with 1 a
ban needs no earlier violation, and the property is empty. Symmetry is used on
identities that no definition tells apart, and never in a run with a liveness property.

**Fairness** is stated in two modules. `Resolver`: `WF_vars(Next)`, since a resolution is one
coroutine, fetches have timeouts, and the event loop runs what can go on; `Terminates` needs
it. `ExternalCache`: `SF_vars(Step(r))` for every request. Strong fairness is what the code can
count on: a fetch ends after at most three attempts with timeouts (`utils/http_client.py:fetch`),
PostgreSQL serves the transactions waiting for a row in turn, though others take it in
between, and its deadlock detector ends a cycle. Arrivals and `Abort` have no fairness: no
request has to come, and none is helped to its end by a client that goes away. The other modules
claim safety only: a client may go away at any step, so nothing in them has to happen.

## 4. Findings

Each has a run that refutes the quoted statement.

1. `services/provider_authorization_service.py:196` (`auth_pending_only`): an approval in
   flight overwrites a revocation; "only PENDING authorizations can be approved"
   (`api/endpoints/me.py:171`).
2. `services/subscription_service.py:1123` (`graph_memo`): an answer of the memo is reused when
   it was found with *more* budget than is left, as the docstring words it (`:1107`), but then the
   deeper part it covers may be out of what is left, and the NestingTooDeepError that the
   docstring wants to "still fire correctly" (`:1109`) does not: a target deeper than the limit
   passes, depending on the order of sources.
3. `services/resolver_service.py:199` (`resolver_diamond`): a subscription that two chains
   reach is resolved on the first only; sources whose `max_depth` admits the shorter chain
   alone are missing.

Three more behaviours are in the models and have no run of their own:

* Overlapping approvals exceed the quota that
  `services/provider_authorization_service.py:22` promises. `QuotaSlack` says by how much, and
  is proved; with one request at a time `Quota` is.
* Two requests that check for a cycle before either commits store one
  (`services/subscription_service.py:1049`; "No circular references", `:70`): `Acyclic` fails
  with two slots in `Request`, and is proved for one.
* A PUT of no more than the maximum of sources is refused when the subscription is full
  (`:795`), possibly after the removal of the old ones has been committed (`TooMany` after
  `Drop` in `SourceList`).

## 5. Proofs

Each `*_proofs` module extends its component, and assumes only the named assumptions on the
constants (finite sets where something is counted, positive limits).

| module | theorem | argument |
|---|---|---|
| `ProviderAuth_proofs` | `TypeCorrect`, `QuotaSlackHolds`, `SerialQuota` | `QuotaSlack` counts approved providers *and* requests between count and write, so it is inductive together with the types: `Count` passes only below the limit with at most `k - 1` others under way, `Grant` moves one from the second number to the first. With one slot it is the documented quota. |
| | `SubsSlackHolds` | the same argument for subscriptions between `CountSubs` and `InsertSub` |
| | `OwnedRowsHold`, `ApprovalsNeedRow` | for any overlap: only an insert makes a row, and its foreign keys hold then (`HandleWrites`); an UPDATE finds its row or fails |
| | `HandlersImplementConsent`, `SerialSubsHaveRow`, `SerialPendingApproved`, `SerialSubsLost` (one slot) | `Knows` says what the request's local variables still tell about the tables: the row is as it was read, or an account has gone for good and, by `OwnedRows`, everything under it. Every committing step is then the atomic step of `ProviderConsent`, every other one a stutter, and `SubsHaveRow` and `OnlyPendingApproved` follow from the atomic steps; `SerialSubsLost`, which names the request, follows from `Knows` itself. |
| `Accounts_proofs` | `TypeCorrect`, `KeysAlwaysHold`, `DeletionSpares` | `Keyed`: `KeysHold` needs that every hash in a table was drawn (`Drawn`), so that a new one is new. `LookedAll`: a deletion past its look-up has no provider among those it has seen. |
| `Accounts_refinement` | `HandlersImplementDirectory` | for any overlap: `Recalls` says that a request's provider was drawn, its ticket handed out, and that a ticket that passed signs its user's id and its provider, whatever the names are by then. One lemma per handler maps its writing step to a step of `Directory`. |
| `SubscriptionGraph_proofs` | `TypeCorrect`, `SerialAcyclic`, `SerialDangling`, `SerialRefusal` | Types need `WalkBounded` (the stack is no higher than the depth limit and two). For acyclicity, while a walk runs the graph does not change (one slot), and `Walked` says that every token the memo covers has its references covered by the memo or the stack, and that the changed subscription is not among them. A target that passes leaves a closed set without the subscription (`Certified`); `AcyclicGrows` says that edges into such a set close no cycle. The memo's wrong comparison does not matter for this. `SerialDangling` needs `Found`: the targets a request has accepted stay until it commits. `SerialRefusal` needs `Climbed`: the stack is a chain from the target, and with nothing stored on a cycle each call has a closed set that holds the calls above it and leaves it out (`Apart`), so a token visited twice is the changed subscription. |
| `SourceList_proofs` | `TypeCorrect` | for any overlap, with `Bounded`: a request stays within its list |
| | `LimitHolds`, `UsedIsCached`, `LastUseClears`, `ReplacementOrders` (one slot) | `Sound`: what the request has read is still so. `Adding`: the sources it has counted are those stored and those it is to write, no more than the limit, and every URL it is to write is in the cache or fetched. `Replacing`: after `Drop` only sources of the list are left, and the first `done` entries have their places, the later one counting. |
| `ExternalCache_proofs` | `TypeCorrect`, `ContentAlwaysKept`, `RefreshAlwaysSettles` | for any overlap. `Locks`: a row is held by one transaction, a held INSERT found no row and nobody has written one since. `Fetches`: while the transaction lives, a fetch that went well holds its row with content to write, one that was refused met the flush of another, and what is removed is what failed or was refused. |
| | `CacheAlwaysServesUse` | `Alone`: while requests have not overlapped, rows serve the sources between requests (`Served`, with the unused rows that bulk deletion left: `left`), and the one request there may be (`Solo`) inserts only for a URL without use, updates rows in use or that of the URL it adds, and deletes what its removals leave without use. |
| `Resolver_proofs` | `TypeCorrect`, `ListOfOnce`, `ListWithinLimit`, `NoReentry` | The conjunction `IInv` of the four is inductive. The batch counts towards the limit; a token is on the stack only once since it enters `resolved` with the call. |
| | `EveryStepDescends` | `Rests`: what a call has before it is the end of its subscription's list. So each step moves one call on by one source (`StepShape`: it advances, opens a call or closes one) or takes one config off the batch. |
| | `ShowsOnlyMeant` | `Linked`: the call above is the one for the last source dealt with, so the calls are a route and the source at hand is at a place of it (`HereIsPlace`). `Fetched` says the same of a batch. |
| | `RootCommentFirst` | `Labels`: the comments of the root are there from the start, those of a subscription from its entry on, and none is ever replaced. |
| | `MissesNothing` | `Swept`, see below: what is behind the calls is shown, and at the end all is behind. |
| | `KeepsOrder` | `Ordered`: every config listed has a place behind the calls. A config about to be added is new, so no place of it is behind (`AllShown`): the one at hand is before all its others (`Ahead`), and what is behind is before what is not (`BehindBefore`). |
| `AbuseGuard_proofs` | `TypeCorrect` | for any calls that are lost, repeated or left behind |
| | `BansKept` | `BansSeen`: a handler past its check that is not `blind` stands before an address without a running ban, hence deletes or shortens none, nor does a call it leaves behind; `Errands`: what sets a ban unasked is the administrator's. |
| | `BansEarned`, `CountersMortal` | `Counting`, which speaks of counters that are not `loose`: `recent` is in order (`Ordered`), a counter with a deadline has all of its violations since that deadline was set (`Dated`), one without has a handler about to set it, and they are of this tick, since a tick before the EXPIRE makes it loose (`Undated`). So at `MaxViolations` the oldest one is within the window (`Earned`). A call left behind raises the counter, which makes it loose, or touches none of this (`Quiet`). |

`Swept` is the heart of `MissesNothing` and `KeepsOrder`. "What has been entered is shown" is no invariant: the
subscriptions under way are entered and half done, and one that refers back to them was left
though not all it leads to is shown. So `Swept` asks for less, level by level: for each call
there is a set (`old`) of the subscriptions entered before it, closed under references but for
the calls below it, and all shown; and the sources a call has come past are shown with all
they lead to inside the set of the call above. A route that leaves the calls at a source dealt
with then stays in such a set, since a route meets no subscription twice and so none of the
calls it came by (`TailShown`, by the least position at which it would fail). A chain that leads
back to an open call names it twice and is no route: what it would show has a place on the
call's own route. Every step keeps `Swept`: `SweepAdvance`, `SweepOpen` (the new call gets all that is
entered) and `SweepClose` (the set of the call that ends goes with it, what it swept joins the
call below).

The four theorems on the guard have no hypotheses on what fails. Where the program does not keep its
word, the exceptions are part of the properties: `blind` in `BanKept` (a request whose GET failed
goes on to count, ban and shorten a longer ban), `loose` in the other two (violations far apart add
up to a ban). Without `\/ loose` TLC refutes `BanEarned` and `CounterMortal`.

Only model-checked: liveness (`Terminates`, `RequestsEnd`), which is out of the prover's
reach. Of `Terminates`, the part that the code has to see to is proved: every step descends in
an order that has no infinite descent (`EveryStepDescends`), and fairness and well-foundedness
do the rest. The other way round, `NoDuplicates` and `Quota` are proved and have no run of
their own: the former follows from `OrderPreserved` for a whole list (no config's first place
is behind another of its places), the latter from `ConsentSpec`, whose grants have that limit.
All other properties of passing runs are stated by a theorem, some of them for one
request at a time, as said above.

## 6. Not modelled

* The HTTP client beyond the outcome of a fetch, the config parser and the URL validator: one
  call, or text in and out.
* Redis copies of external content, error counts of the cache, statistics: read by nothing
  that changes state, or never read.
* The signature of an administrator's request, secrets, `provider_url`: arithmetic on strings, or
  one column that no guard reads.
* `utils/url_request_limiter.py`: used by nothing.
* PATCH of comments and visibility: one UPDATE each; what they mean is in `Resolver`.
* Deployment, migrations, monitoring.

## 7. Plan

Order of work: connections first (consent is what the service promises its users), then the
graph and the resolver (the program's own algorithms), the source lists, the guard, the
accounts and the cache rows. All of these have their module. What is left:

1. **Model.** Overlapping requests in `SourceList` (`ExternalCache` shows the races on the cache
   rows; `SourceLimit` is raced like the other limits); the Redis copies with their ages, once a
   request reads them; the whitelist's clear against an add; a Redis that loses its data.
2. **Compose.** `SubscriptionGraph` and `Resolver`: the graphs a resolution meets as those the
   service can store, bulk deletions included. `Accounts` and `ProviderAuth`: the closing of an
   account, there in two queries and here in one, on the same tables.
3. **Prove.** What overlapping requests keep of the source lists, once they are modelled.
