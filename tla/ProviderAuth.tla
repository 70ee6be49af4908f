----------------------------- MODULE ProviderAuth -----------------------------
(***************************************************************************)
(* The connection handlers as they run: each request is a coroutine on one *)
(* database session, and another request may run wherever a handler        *)
(* awaits a query.  The database is PostgreSQL at READ COMMITTED, so a     *)
(* query sees what is committed when it runs, and a request's own writes   *)
(* show to the others at its commit.  A write and its commit are one step: *)
(* no other request can see or change the written row between them.        *)
(*                                                                         *)
(* A request reads its authorization row once.  The second                 *)
(* session.get() for the same key (grant, revoke and delete_authorization  *)
(* make one) returns the instance of the first read from the session's     *)
(* identity map, which the handler's local variable keeps alive: row in    *)
(* the request's record is that instance's status.  An UPDATE writes the   *)
(* row by key, whatever its status has become, and fails when it is gone   *)
(* (StaleDataError); a DELETE of a row that is gone is not an error.       *)
(***************************************************************************)
EXTENDS ProviderConsent

CONSTANTS Request       \* slots for the requests in flight at one time

ASSUME RequestAssumption ==
    /\ IsFiniteSet(Request)
    /\ Request # {}

VARIABLES req           \* req[r]: the request in slot r, or Idle

vars == <<account, auth, subs, req>>

Operation == {"connect", "relay", "approve", "reject", "adminReject",
              "revoke", "disconnect", "createSub", "deleteSub"}
Step == {"read", "insert", "reset", "count", "grant", "list", "revoke", "wipe",
         "erase", "countSubs", "insertSub", "load", "dropSub"}
Idle == [pc |-> "idle"]
Active == [op : Operation, pc : Step, u : User, p : Provider, row : Status,
           doomed : SUBSET SubId]

TypeOK == DataTypeOK /\ req \in [Request -> {Idle} \cup Active]

Init == DataInit /\ req = [r \in Request |-> Idle]

\* The requests at a step for a user.
At(step, u) == {r \in Request : req[r].pc = step /\ req[r].u = u}

Begin(r, op, u, p) ==
    /\ req[r] = Idle
    /\ req' = [req EXCEPT ![r] = [op |-> op, pc |-> "read", u |-> u, p |-> p,
                                  row |-> "NONE", doomed |-> {}]]

Goto(r, step) == req' = [req EXCEPT ![r].pc = step]

\* A mutant that leaves the request's record behind.
FinishKeepingFields(r) == req' = [req EXCEPT ![r].pc = "idle"]
Finish(r) == req' = [req EXCEPT ![r] = Idle]

-----------------------------------------------------------------------------
(* Arrivals: who may call, checked before the authorization row is read.   *)

\* POST /providers/{user_id}: any user that has an account.
ConnectionRequested(r, u, p) ==
    /\ account[p] = "active"
    /\ Exists(u)
    /\ Begin(r, "connect", u, p)
    /\ UNCHANGED data

\* POST /admin/provider-authorization: creates the user when there is none.
ConnectionRelayed(r, u, p) ==
    /\ Exists(p)
    /\ \/ Exists(u) /\ UNCHANGED data
       \/ CreateAccount(u)
    /\ Begin(r, "relay", u, p)

\* POST /me/connections/{name}/approve, and the admin route for the bot.
ApprovalCalled(r, u, p) ==
    /\ Exists(p)
    /\ \/ account[u] = "active"     \* get_current_user
       \/ Exists(u)                 \* admin: get_by_user_id
    /\ Begin(r, "approve", u, p)
    /\ UNCHANGED data

\* POST /me/connections/{name}/reject and /admin/provider-authorization/reject.
RejectionCalled(r, u, p) ==
    /\ Exists(p)
    /\ \/ account[u] = "active" /\ Begin(r, "reject", u, p)
       \/ Exists(u) /\ Begin(r, "adminReject", u, p)
    /\ UNCHANGED data

\* DELETE /me/connections/{name} and POST /providers/{user_id}/revoke.
RevocationCalled(r, u, p) ==
    /\ Exists(p)
    /\ account[u] = "active"
    /\ Begin(r, "revoke", u, p)
    /\ UNCHANGED data

\* DELETE /providers/{user_id}, and POST and DELETE of its subscriptions.
ProviderCalled(r, u, p) ==
    /\ account[p] = "active"
    /\ account[u] = "active"
    /\ \E op \in {"disconnect", "createSub", "deleteSub"} : Begin(r, op, u, p)
    /\ UNCHANGED data

Arrive(r) ==
    \E u \in User, p \in Provider :
        \/ ConnectionRequested(r, u, p) \/ ConnectionRelayed(r, u, p)
        \/ ApprovalCalled(r, u, p) \/ RejectionCalled(r, u, p)
        \/ RevocationCalled(r, u, p) \/ ProviderCalled(r, u, p)

-----------------------------------------------------------------------------
(* The row is read, and decides where the handler goes.                    *)

\* approve_connection; a mutant that asks only whether it is approved already.
MayApproveRevoked(row) == row \in {"PENDING", "REVOKED"}
MayApprove(row) == row = "PENDING"

\* require_authorized; a mutant that takes any row for an authorization.
MayManageUnapproved(row) == row # "NONE"
MayManage(row) == row = "APPROVED"

\* The step after reading a row of status row; "idle" when the handler returns.
AfterRead(op, row) ==
    CASE op = "connect" /\ row = "NONE" -> "insert"
      [] op = "connect" /\ row = "REVOKED" -> "reset"
      [] op = "relay" /\ row = "NONE" -> "insert"
      [] op = "approve" /\ MayApprove(row) -> "count"
      [] op = "reject" /\ row = "PENDING" -> "list"
      [] op = "adminReject" /\ row # "NONE" -> "list"
      [] op = "revoke" /\ row \in {"PENDING", "APPROVED"} -> "revoke"
      [] op = "disconnect" /\ row # "NONE" -> "wipe"
      [] op = "createSub" /\ MayManage(row) -> "countSubs"
      [] op = "deleteSub" /\ MayManage(row) -> "load"
      [] OTHER -> "idle"

ReadRow(r) ==
    LET q == req[r]
        row == auth[q.u][q.p]
        next == AfterRead(q.op, row)
    IN  /\ q.pc = "read"
        /\ IF next = "idle"
           THEN Finish(r)
           ELSE req' = [req EXCEPT ![r].pc = next, ![r].row = row]
        /\ UNCHANGED data

-----------------------------------------------------------------------------
(* connect and relay                                                       *)

\* A mutant without the foreign keys of the row.
InsertUnowned(r) ==
    LET q == req[r]
    IN  /\ q.pc = "insert"
        /\ IF auth[q.u][q.p] = "NONE" THEN SetAuth(q.u, q.p, "PENDING") ELSE UNCHANGED auth
        /\ Finish(r)
        /\ UNCHANGED <<account, subs>>

\* add_authorization: the INSERT fails when a row appeared or an account went.
Insert(r) ==
    LET q == req[r]
    IN  /\ q.pc = "insert"
        /\ IF auth[q.u][q.p] = "NONE" /\ Exists(q.u) /\ Exists(q.p)
           THEN SetAuth(q.u, q.p, "PENDING")
           ELSE UNCHANGED auth
        /\ Finish(r)
        /\ UNCHANGED <<account, subs>>

\* A mutant that merges the stale instance instead of updating it.
UpsertStatus(u, p, status) == SetAuth(u, p, status)

\* The UPDATE of a row read earlier: it fails when the row is gone.
WriteStatus(u, p, status) ==
    IF auth[u][p] = "NONE" THEN UNCHANGED auth ELSE SetAuth(u, p, status)

\* reinitialize_authorization
Reset(r) ==
    /\ req[r].pc = "reset"
    /\ WriteStatus(req[r].u, req[r].p, "PENDING")
    /\ Finish(r)
    /\ UNCHANGED <<account, subs>>

(* approve                                                                 *)

\* A mutant of the quota check: > for >=.
CountPastLimit(r) ==
    /\ req[r].pc = "count"
    /\ IF Cardinality(Approved(req[r].u)) > MaxProviders THEN Finish(r) ELSE Goto(r, "grant")
    /\ UNCHANGED data

\* The quota of grant(): a query of its own, before the write.
Count(r) ==
    /\ req[r].pc = "count"
    /\ IF Cardinality(Approved(req[r].u)) >= MaxProviders
       THEN Finish(r)
       ELSE Goto(r, "grant")
    /\ UNCHANGED data

Grant(r) ==
    /\ req[r].pc = "grant"
    /\ WriteStatus(req[r].u, req[r].p, "APPROVED")
    /\ Finish(r)
    /\ UNCHANGED <<account, subs>>

(* reject, revoke and disconnect                                           *)

\* A mutant that deletes without listing the provider's subscriptions.
ListNothing(r) ==
    /\ req[r].pc = "list"
    /\ Goto(r, "wipe")
    /\ UNCHANGED data

\* A rejection keeps the row as REVOKED when the provider has subscriptions.
List(r) ==
    LET q == req[r]
    IN  /\ q.pc = "list"
        /\ Goto(r, IF subs[q.u][q.p] = {} THEN "wipe" ELSE "revoke")
        /\ UNCHANGED data

Revoke(r) ==
    LET q == req[r]
    IN  /\ q.pc = "revoke"
        /\ IF q.row = "REVOKED" THEN UNCHANGED auth ELSE WriteStatus(q.u, q.p, "REVOKED")
        /\ Finish(r)
        /\ UNCHANGED <<account, subs>>

\* delete_by_provider: the bulk DELETE finds the subscriptions of this moment.
Wipe(r) ==
    LET q == req[r]
    IN  /\ q.pc = "wipe"
        /\ req' = [req EXCEPT ![r].pc = "erase", ![r].doomed = subs[q.u][q.p]]
        /\ UNCHANGED data

\* A mutant that forgets the provider's subscriptions.
EraseRowOnly(r) ==
    /\ req[r].pc = "erase"
    /\ SetAuth(req[r].u, req[r].p, "NONE")
    /\ Finish(r)
    /\ UNCHANGED <<account, subs>>

\* ... and the commit takes them and the row away.
Erase(r) ==
    LET q == req[r]
    IN  /\ q.pc = "erase"
        /\ SetAuth(q.u, q.p, "NONE")
        /\ SetSubs(q.u, q.p, subs[q.u][q.p] \ q.doomed)
        /\ Finish(r)
        /\ UNCHANGED account

(* createSub and deleteSub, of an authorized provider                      *)

\* A mutant of the subscription limit: > for >=.
CountSubsPastLimit(r) ==
    LET q == req[r]
    IN  /\ q.pc = "countSubs"
        /\ IF Cardinality(subs[q.u][q.p]) > MaxSubscriptions
           THEN Finish(r)
           ELSE Goto(r, "insertSub")
        /\ UNCHANGED data

\* create_subscription: the limit is counted before the insert.
CountSubs(r) ==
    LET q == req[r]
    IN  /\ q.pc = "countSubs"
        /\ IF Cardinality(subs[q.u][q.p]) >= MaxSubscriptions
           THEN Finish(r)
           ELSE Goto(r, "insertSub")
        /\ UNCHANGED data

\* A token is drawn at random: it is none that a request still holds either.
FreshToken(s) ==
    /\ s \notin Tokens
    /\ \A r \in Request : req[r] # Idle => s \notin req[r].doomed

InsertSub(r) ==
    LET q == req[r]
    IN  /\ q.pc = "insertSub"
        /\ IF Exists(q.u) /\ Exists(q.p)
           THEN \E s \in SubId : /\ FreshToken(s)
                                 /\ SetSubs(q.u, q.p, subs[q.u][q.p] \cup {s})
           ELSE UNCHANGED subs
        /\ Finish(r)
        /\ UNCHANGED <<account, auth>>

Load(r) ==
    LET q == req[r]
    IN  /\ q.pc = "load"
        /\ \/ /\ subs[q.u][q.p] = {}
              /\ Finish(r)
           \/ \E s \in subs[q.u][q.p] :
                 req' = [req EXCEPT ![r].pc = "dropSub", ![r].doomed = {s}]
        /\ UNCHANGED data

DeleteSub(r) ==
    LET q == req[r]
    IN  /\ q.pc = "dropSub"
        /\ SetSubs(q.u, q.p, subs[q.u][q.p] \ q.doomed)
        /\ Finish(r)
        /\ UNCHANGED <<account, auth>>

-----------------------------------------------------------------------------

\* A request dies before its commit (an error, a lost client, a restart): the
\* session is rolled back and nothing of it stays.
Abort(r) ==
    /\ req[r] # Idle
    /\ Finish(r)
    /\ UNCHANGED data

\* The next step of the handler in slot r.
Handle(r) ==
    \/ ReadRow(r) \/ Insert(r) \/ Reset(r) \/ Count(r) \/ Grant(r)
    \/ List(r) \/ Revoke(r) \/ Wipe(r) \/ Erase(r)
    \/ CountSubs(r) \/ InsertSub(r) \/ Load(r) \/ DeleteSub(r)

AccountStep == AccountNext /\ UNCHANGED req

Next ==
    \/ AccountStep
    \/ \E r \in Request : Arrive(r) \/ Handle(r) \/ Abort(r)

Spec == Init /\ [][Next]_vars

-----------------------------------------------------------------------------
(* What holds for any number of requests in flight.                        *)

\* The quota of grant() is a count and then a write, so requests that have
\* counted and not yet written can overshoot it, each by one: with k slots a
\* user never has more than MaxProviders + k - 1 approved providers, and the
\* documented MaxProviders when requests do not overlap.
Granting(u) == At("grant", u)

QuotaSlack ==
    \A u \in User :
        Cardinality(Approved(u)) + Cardinality(Granting(u))
            <= MaxProviders + Cardinality(Request) - 1

\* The subscription limit of create_subscription is raced the same way.
Creating(u, p) == {r \in At("insertSub", u) : req[r].p = p}

SubsSlack ==
    \A u \in User, p \in Provider :
        Cardinality(subs[u][p]) + Cardinality(Creating(u, p))
            <= MaxSubscriptions + Cardinality(Request) - 1

\* Closing an account takes everything that names it, and no request still in
\* flight for the closed account brings a row or a subscription back.
OwnedRows ==
    \A u \in User, p \in Provider :
        auth[u][p] # "NONE" \/ subs[u][p] # {} => Exists(u) /\ Exists(p)

\* An approval never outlives its request row: a connection that was deleted
\* while its approval was in flight stays deleted.
ApprovalNeedsRow ==
    [][\A u \in User, p \in Provider :
        auth'[u][p] = "APPROVED" => auth[u][p] # "NONE"]_vars

-----------------------------------------------------------------------------
(* What the documentation says.  These hold while requests do not overlap   *)
(* (one slot) and are refuted with two.                                     *)

\* provider_authorization_service.py:22: a user cannot end up with more than
\* MAX_PROVIDERS_PER_USER providers simultaneously approved.
Quota == \A u \in User : Cardinality(Approved(u)) <= MaxProviders

\* me.py:171: only PENDING authorizations can be approved.
OnlyPendingApproved ==
    [][\A u \in User, p \in Provider :
        auth'[u][p] = "APPROVED" => auth[u][p] \in {"PENDING", "APPROVED"}]_vars

\* A provider keeps subscriptions for a user only under an authorization row,
\* which the user can see and withdraw.
SubsHaveRow ==
    \A u \in User, p \in Provider : subs[u][p] # {} => auth[u][p] # "NONE"

\* CHANGELOG.md:63: rejecting a connection under which the provider has
\* subscriptions keeps them.  A subscription goes only with an account, when
\* the provider deletes it or when the provider removes the connection.
SubsLostOnPurpose ==
    [][\A u \in User, p \in Provider :
        \/ subs[u][p] \subseteq subs'[u][p]
        \/ account' # account
        \/ \E r \in Request : /\ req[r] # Idle /\ req'[r] = Idle
                              /\ req[r].op \in {"deleteSub", "disconnect"}
                              /\ req[r].u = u /\ req[r].p = p]_vars

=============================================================================
