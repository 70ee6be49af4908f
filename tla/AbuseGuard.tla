------------------------------ MODULE AbuseGuard ------------------------------
(***************************************************************************)
(* The dependency every endpoint runs first (rate_limit_middleware), with  *)
(* BanService, WhitelistService and RateLimiter behind it, and the         *)
(* administrator's endpoints for bans and the whitelist.  All of their     *)
(* state is in Redis.  A handler's step is one call to Redis that Redis    *)
(* carries out and answers; other handlers run between two of them.        *)
(*                                                                         *)
(* The answer may not come.  The client then sends the call again, once    *)
(* (retry_on_timeout), and after that the call fails; the handler may also *)
(* be cut off, by a restart.  In each case the call it was waiting for is  *)
(* lost, or it stays behind: Redis carries it out later, and nobody hears  *)
(* the answer.                                                             *)
(*                                                                         *)
(* Time passes in ticks, at any time.  What has a deadline is kept as the  *)
(* time that is left, what ages as its age, so time is not bounded.  A     *)
(* script's clock is that of the tick in which Redis runs it.              *)
(***************************************************************************)
EXTENDS Integers, FiniteSets

CONSTANTS
    Ip, Token,          \* client addresses and API tokens
    Slot,               \* slots for the handlers and the calls under way at one time
    Limit,              \* the requests allowed in a window, by kind of bucket
    Window,             \* its length
    MaxViolations, ViolationWindow, BanTime,    \* BanService's settings
    AdminTimes,         \* what an administrator may set for a ban
    Backoff             \* _REDIS_RETRY_INTERVAL

Reads == {"check", "info", "white"}
Calls == Reads \cup {"purge", "drop", "limit", "incr", "expire", "ban", "reset", "set", "unban",
                     "forget"}

ASSUME GuardAssumption ==
    /\ DOMAIN Limit \subseteq {"public", "no_token", "token"}
    /\ Limit \in [DOMAIN Limit -> Nat]
    /\ {Window, MaxViolations, ViolationWindow, BanTime, Backoff} \cup AdminTimes
           \subseteq Nat \ {0}

VARIABLES
    ban,        \* ban[i]: what is left of the ban of i, or Absent
    count,      \* count[i]: the violations counted against i, 0 without a key
    dies,       \* dies[i]: the time that counter has left, or Never
    window,     \* window[b]: the ages of the entries in bucket b
    white,      \* the addresses in the whitelist
    backoff,    \* how long the limiter goes without Redis after an error
    slot,       \* slot[s]: the handler in slot s, or a call that it left, or Idle
    recent,     \* history: the ages of the last MaxViolations violations of i, the
                \* oldest first; one out of the window is as old as the window
    loose       \* history: something went wrong with the counter of i that is there:
                \* it was raised by a call left behind, or its EXPIRE was given up or
                \* came a tick late

vars == <<ban, count, dies, window, white, backoff, slot, recent, loose>>

\* The value of a ban says when it ends.  Its key lives on a little longer: 0
\* is a ban that has ended and whose key is there still.
Absent == -1
Never == ViolationWindow + 1

\* The kinds of endpoint are the domain of Limit.  A bucket is kept for an address
\* or, with an API token, for the token.
BucketsOf(i) == UNION {IF k = "token" THEN {k} \X Token ELSE {<<k, i>>} : k \in DOMAIN Limit}
Bucket == UNION {BucketsOf(i) : i \in Ip}
NoBucket == <<>>

Idle == [pc |-> "idle"]
Active == [pc : Calls, op : {"request", "look", "ban", "unban"}, ip : Ip,
           bucket : Bucket \cup {NoBucket},
           time : Nat,          \* what is left of a ban to be set
           call : {"first", "again", "left"},
           blind : BOOLEAN]     \* history: it does not know of a ban of ip, which was
                                \* written since it began, or which it could not read

TypeOK ==
    /\ ban \in [Ip -> {Absent} \cup Nat]
    /\ count \in [Ip -> 0 .. MaxViolations]
    /\ dies \in [Ip -> 1 .. Never]
    /\ window \in [Bucket -> SUBSET (0 .. Window - 1)]
    /\ white \subseteq Ip
    /\ backoff \in 0 .. Backoff
    /\ slot \in [Slot -> {Idle} \cup Active]
    /\ recent \in [Ip -> [1 .. MaxViolations -> 0 .. ViolationWindow]]
    /\ loose \in [Ip -> BOOLEAN]

Init ==
    /\ ban = [i \in Ip |-> Absent]
    /\ count = [i \in Ip |-> 0]
    /\ dies = [i \in Ip |-> Never]
    /\ window = [b \in Bucket |-> {}]
    /\ white = {}
    /\ backoff = 0
    /\ slot = [s \in Slot |-> Idle]
    /\ recent = [i \in Ip |-> [k \in 1 .. MaxViolations |-> ViolationWindow]]
    /\ loose = [i \in Ip |-> FALSE]

-----------------------------------------------------------------------------
(* Handlers                                                                *)

Begin(s, op, pc, i, b, t) ==
    /\ slot[s] = Idle
    /\ slot' = [slot EXCEPT ![s] = [pc |-> pc, op |-> op, ip |-> i, bucket |-> b, time |-> t,
                                    call |-> "first", blind |-> FALSE]]
    /\ UNCHANGED <<ban, count, dies, window, white, backoff, recent, loose>>

\* A request to a public endpoint, or to one of the API with or without a token.
Request(s) == \E i \in Ip : \E b \in BucketsOf(i) : Begin(s, "request", "check", i, b, 0)

\* The administrator asks after one address or lists all, bans, unbans.
Look(s) == \E i \in Ip, pc \in {"check", "info"} : Begin(s, "look", pc, i, NoBucket, 0)
BanIp(s) == \E i \in Ip, t \in AdminTimes \cup {BanTime} :
                Begin(s, "ban", "set", i, NoBucket, t)
UnbanIp(s) == \E i \in Ip : Begin(s, "unban", "unban", i, NoBucket, 0)

\* ... and edits the whitelist: add, remove, clear.
EditWhitelist ==
    /\ \E W \in {white \cup {i} : i \in Ip} \cup {white \ {i} : i \in Ip} \cup {{}} :
          white' = W
    /\ UNCHANGED <<ban, count, dies, window, backoff, slot, recent, loose>>

\* The handler's next call; _ban_ip computes the end of the ban first.
Then(q, pc) ==
    IF pc = "end" \/ q.call = "left" THEN Idle
    ELSE [q EXCEPT !.pc = pc, !.call = "first", !.time = IF pc = "ban" THEN BanTime ELSE 0]

Go(s, pc) == slot' = [slot EXCEPT ![s] = Then(slot[s], pc)]

\* What follows the answer "not banned".
Unbanned(q) == IF q.op = "request" THEN "white" ELSE "end"

\* A mutant that takes a ban that stands for one that has ended.
CheckReversed(s) ==
    LET q == slot[s]
    IN  /\ q.pc = "check"
        /\ Go(s, CASE ban[q.ip] = Absent -> Unbanned(q)
                   [] ban[q.ip] = 0      -> "info"
                   [] ban[q.ip] > 0      -> "purge")
        /\ UNCHANGED <<ban, count, dies, window, white, backoff, recent, loose>>

\* is_banned
Check(s) ==
    LET q == slot[s]
    IN  /\ q.pc = "check"
        /\ Go(s, CASE ban[q.ip] = Absent -> Unbanned(q)
                   [] ban[q.ip] = 0      -> "purge"
                   [] ban[q.ip] > 0      -> "info")
        /\ UNCHANGED <<ban, count, dies, window, white, backoff, recent, loose>>

\* get_ban_info, and list_all for one key
Info(s) ==
    LET q == slot[s]
    IN  /\ q.pc = "info"
        /\ Go(s, IF ban[q.ip] = 0 THEN "drop" ELSE "end")
        /\ UNCHANGED <<ban, count, dies, window, white, backoff, recent, loose>>

\* The key of a ban that was seen to have ended is deleted.
Purge(s) ==
    LET q == slot[s]
    IN  /\ q.pc \in {"purge", "drop"}
        /\ ban' = [ban EXCEPT ![q.ip] = Absent]
        /\ Go(s, IF q.pc = "purge" THEN Unbanned(q) ELSE "end")
        /\ UNCHANGED <<count, dies, window, white, backoff, recent, loose>>

\* What follows the answer "not in the whitelist": _get_redis gives no client for a
\* while after an error, and the request is let through.
Unlisted == IF backoff > 0 THEN "end" ELSE "limit"

\* is_whitelisted, asked by the limiter
White(s) ==
    LET q == slot[s]
    IN  /\ q.pc = "white"
        /\ Go(s, IF q.ip \in white THEN "end" ELSE Unlisted)
        /\ UNCHANGED <<ban, count, dies, window, white, backoff, recent, loose>>

\* _check_limit_redis: the script drops what is out of the window, counts, and
\* adds.  Entries of one tick are one entry.
Allowed(b) == Cardinality(window[b]) < Limit[b[1]]

CheckLimit(s) ==
    LET q == slot[s]
    IN  /\ q.pc = "limit"
        /\ window' = IF Allowed(q.bucket) THEN [window EXCEPT ![q.bucket] = @ \cup {0}]
                     ELSE window
        /\ Go(s, IF Allowed(q.bucket) THEN "end" ELSE "incr")
        /\ UNCHANGED <<ban, count, dies, white, backoff, recent, loose>>

\* record_violation: INCR; counts from MaxViolations on are told apart no more.
Recorded(i) == [k \in 1 .. MaxViolations |-> IF k = MaxViolations THEN 0 ELSE recent[i][k + 1]]
Raised(i) == IF count[i] < MaxViolations THEN count[i] + 1 ELSE MaxViolations

\* What follows the count.
Counted(n) == IF n >= MaxViolations THEN "ban" ELSE "end"

\* An INCR left behind is sent a second time, or its handler has ended: it counts a
\* violation twice, or no EXPIRE follows.
Incremented(s) ==
    LET q == slot[s]
    IN  /\ q.pc = "incr"
        /\ count' = [count EXCEPT ![q.ip] = Raised(q.ip)]
        /\ recent' = IF q.call = "left" THEN recent
                     ELSE [recent EXCEPT ![q.ip] = Recorded(q.ip)]
        /\ loose' = IF q.call = "left" THEN [loose EXCEPT ![q.ip] = TRUE] ELSE loose
        /\ UNCHANGED <<ban, dies, window, white, backoff>>

\* A mutant that never comes to EXPIRE.
IncrOnly(s) == Incremented(s) /\ Go(s, Counted(Raised(slot[s].ip)))

Incr(s) ==
    LET n == Raised(slot[s].ip)
    IN  Incremented(s) /\ Go(s, IF n = 1 THEN "expire" ELSE Counted(n))

\* A mutant that sets no deadline.
ExpireNever(s) ==
    /\ slot[s].pc = "expire"
    /\ Go(s, Counted(1))
    /\ UNCHANGED <<ban, count, dies, window, white, backoff, recent, loose>>

\* EXPIRE, which does nothing when the key has gone.
Expire(s) ==
    LET i == slot[s].ip
    IN  /\ slot[s].pc = "expire"
        /\ dies' = IF count[i] = 0 THEN dies ELSE [dies EXCEPT ![i] = ViolationWindow]
        /\ Go(s, Counted(1))
        /\ UNCHANGED <<ban, count, window, white, backoff, recent, loose>>

\* SET of a ban, which the handlers under way for the address do not know of.
Write(s, next) ==
    LET q == slot[s]
    IN  /\ ban' = [ban EXCEPT ![q.ip] = q.time]
        /\ slot' = [r \in Slot |->
              IF r = s THEN Then(q, next)
              ELSE IF slot[r] # Idle /\ slot[r].ip = q.ip THEN [slot[r] EXCEPT !.blind = TRUE]
              ELSE slot[r]]
        /\ UNCHANGED <<count, dies, window, white, backoff, recent, loose>>

\* _ban_ip, and ban_ip with the look at the ban that follows it
Ban(s) == slot[s].pc = "ban" /\ Write(s, "reset")
Set(s) == slot[s].pc = "set" /\ Write(s, "info")

NoCounter(i) ==
    /\ count' = [count EXCEPT ![i] = 0]
    /\ dies' = [dies EXCEPT ![i] = Never]
    /\ loose' = [loose EXCEPT ![i] = FALSE]

\* DELETE of the counter, after a ban and by unban_ip
Reset(s) ==
    /\ slot[s].pc \in {"reset", "forget"}
    /\ NoCounter(slot[s].ip)
    /\ Go(s, "end")
    /\ UNCHANGED <<ban, window, white, backoff, recent>>

\* unban_ip
Unban(s) ==
    /\ slot[s].pc = "unban"
    /\ ban' = [ban EXCEPT ![slot[s].ip] = Absent]
    /\ Go(s, "forget")
    /\ UNCHANGED <<count, dies, window, white, backoff, recent, loose>>

-----------------------------------------------------------------------------
(* Answers that do not come                                                *)

\* The slot goes on with q, or is Idle, and the call it waited for stays behind.
Leave(s, q) ==
    /\ slot[s].pc \notin Reads
    /\ \E r \in Slot :
          /\ slot[r] = Idle \/ (r = s /\ q = Idle)
          /\ slot' = [slot EXCEPT ![s] = q, ![r] = [slot[s] EXCEPT !.call = "left"]]

\* ... or is lost.
Unanswered(s, q) == Leave(s, q) \/ slot' = [slot EXCEPT ![s] = q]

\* A handler that gives up an EXPIRE leaves the counter without a deadline.
GivenUp(s) ==
    LET i == slot[s].ip
    IN  loose' = IF slot[s].pc = "expire" /\ count[i] > 0 THEN [loose EXCEPT ![i] = TRUE]
                 ELSE loose

\* The client sends the call again; if the first one is lost, nothing has changed.
Resend(s) ==
    /\ slot[s] # Idle
    /\ slot[s].call = "first"
    /\ Leave(s, [slot[s] EXCEPT !.call = "again"])
    /\ UNCHANGED <<ban, count, dies, window, white, backoff, recent, loose>>

\* The call fails.  The guard lets the request through, _ban_ip hides that the ban
\* was not set, and the limiter leaves Redis alone for a while.
Failed(q) ==
    CASE q.pc \in {"check", "purge"} -> Unbanned(q)
      [] q.pc = "white"              -> Unlisted
      [] q.pc = "ban"                -> "reset"
      [] OTHER                       -> "end"

Fail(s) ==
    LET q == slot[s]
    IN  /\ q # Idle
        /\ q.call # "left"
        /\ Unanswered(s, Then([q EXCEPT !.blind = @ \/ q.pc = "check"], Failed(q)))
        /\ GivenUp(s)
        /\ backoff' = IF q.pc = "limit" THEN Backoff ELSE backoff
        /\ UNCHANGED <<ban, count, dies, window, white, recent>>

\* The handler is cut off; a restart also forgets the limiter's error.
Abort(s) ==
    /\ slot[s] # Idle
    /\ slot[s].call # "left"
    /\ Unanswered(s, Idle)
    /\ GivenUp(s)
    /\ backoff' \in {0, backoff}
    /\ UNCHANGED <<ban, count, dies, window, white, recent>>

-----------------------------------------------------------------------------
(* Time                                                                    *)

\* A mutant that leaves what is out of the window.
OlderKept(ages) == {a + 1 : a \in ages}
Older(ages) == {a + 1 : a \in ages} \cap 0 .. Window - 1

\* The counter of i ages without its deadline.
Late(i) == \E s \in Slot : slot[s] # Idle /\ slot[s].pc = "expire" /\ slot[s].ip = i

Less(t) == IF t > 0 THEN t - 1 ELSE t

Tick ==
    /\ ban' = [i \in Ip |-> Less(ban[i])]
    /\ count' = [i \in Ip |-> IF dies[i] = 1 THEN 0 ELSE count[i]]
    /\ dies' = [i \in Ip |-> IF dies[i] \in {1, Never} THEN Never ELSE dies[i] - 1]
    /\ loose' = [i \in Ip |-> count'[i] > 0 /\ (loose[i] \/ Late(i))]
    /\ window' = [b \in Bucket |-> Older(window[b])]
    /\ backoff' = Less(backoff)
    /\ slot' = [s \in Slot |-> IF slot[s] = Idle THEN Idle
                               ELSE [slot[s] EXCEPT !.time = Less(@)]]
    /\ recent' = [i \in Ip |-> [k \in 1 .. MaxViolations |->
          IF recent[i][k] < ViolationWindow THEN recent[i][k] + 1 ELSE ViolationWindow]]
    /\ UNCHANGED white

\* Redis drops the key of a ban that has ended.
Evict ==
    /\ \E i \in Ip : ban[i] = 0 /\ ban' = [ban EXCEPT ![i] = Absent]
    /\ UNCHANGED <<count, dies, window, white, backoff, slot, recent, loose>>

Arrive(s) == Request(s) \/ Look(s) \/ BanIp(s) \/ UnbanIp(s)

Handle(s) ==
    \/ Check(s) \/ Info(s) \/ Purge(s) \/ White(s) \/ CheckLimit(s) \/ Incr(s) \/ Expire(s)
    \/ Ban(s) \/ Set(s) \/ Reset(s) \/ Unban(s)

Stray(s) == Resend(s) \/ Fail(s) \/ Abort(s)

Next ==
    \/ \E s \in Slot : Arrive(s) \/ Handle(s) \/ Stray(s)
    \/ EditWhitelist \/ Tick \/ Evict

Spec == Init /\ [][Next]_vars

-----------------------------------------------------------------------------
(* Properties                                                              *)

\* ban_service.py:331: MaxViolations violations in ViolationWindow.  When the answer
\* of INCR makes the service ban, the address had that many violations within that
\* time, whatever bans, resets, unbans, failures and restarts come between them,
\* unless the counter that is there was raised twice or lost its EXPIRE.
Earned(s) ==
    slot[s].pc = "incr" /\ slot'[s].pc = "ban" =>
        recent'[slot[s].ip][1] < ViolationWindow \/ loose[slot[s].ip]
BanEarned == [][\A s \in Slot : Earned(s)]_vars

\* A ban stands until it ends: only an administrator, or a handler that does not
\* know of the ban, may take it away or shorten it.
Kept(i) ==
    ban[i] > 0 /\ ban'[i] < ban[i] =>
        \/ Tick
        \/ \E s \in Slot : /\ slot[s] # Idle /\ slot[s].ip = i
                           /\ slot[s].op \in {"ban", "unban"} \/ slot[s].blind
BanKept == [][\A i \in Ip : Kept(i)]_vars

\* Violations are forgotten in time: a counter without a deadline has a handler that
\* is about to set it, or something went wrong with it: record_violation sets the
\* deadline only when INCR answers 1, and never again.
CounterMortal ==
    \A i \in Ip : count[i] > 0 /\ dies[i] = Never =>
        \/ loose[i]
        \/ \E s \in Slot : /\ slot[s] # Idle /\ slot[s].ip = i
                           /\ slot[s].pc = "expire" /\ slot[s].call # "left"

=============================================================================
