--------------------------- MODULE ProviderConsent ---------------------------
(***************************************************************************)
(* What the connection API promises: a user consents to a provider, and    *)
(* every request is one atomic step.  This is the specification the        *)
(* step-by-step handlers of ProviderAuth are compared with.                *)
(*                                                                         *)
(* The database rows are auth[u][p], the status of the row of              *)
(* provider_authorizations for user u and provider p ("NONE": no row), and *)
(* subs[u][p], the tokens of the subscriptions provider p keeps for u.     *)
(* A hash is never reused: a deleted account stays deleted, and a user who *)
(* comes back has a new hash.  A user who owns a provider cannot be        *)
(* deleted (providers.owner_hash is NOT NULL and is not cascaded by the    *)
(* ORM), so User stands for the accounts that own none.                    *)
(***************************************************************************)
EXTENDS Naturals, FiniteSets

CONSTANTS
    Provider,           \* provider hashes
    User,               \* user hashes
    SubId,              \* subscription tokens
    MaxProviders,       \* settings.max_providers_per_user
    MaxSubscriptions    \* settings.max_subscriptions_per_user

ASSUME ConsentAssumption ==
    /\ IsFiniteSet(Provider)
    /\ IsFiniteSet(SubId)
    /\ Provider \cap User = {}
    /\ MaxProviders \in Nat \ {0}
    /\ MaxSubscriptions \in Nat \ {0}

VARIABLES
    account,    \* account[a]: the row of users or providers for hash a
    auth,       \* auth[u][p]: status of the authorization row
    subs        \* subs[u][p]: subscriptions of u created by provider p

data == <<account, auth, subs>>

Hash == Provider \cup User
Account == {"unborn", "active", "inactive", "deleted"}
Status == {"NONE", "PENDING", "APPROVED", "REVOKED"}

DataTypeOK ==
    /\ account \in [Hash -> Account]
    /\ auth \in [User -> [Provider -> Status]]
    /\ subs \in [User -> [Provider -> SUBSET SubId]]

DataInit ==
    /\ account = [a \in Hash |-> "unborn"]
    /\ auth = [u \in User |-> [p \in Provider |-> "NONE"]]
    /\ subs = [u \in User |-> [p \in Provider |-> {}]]

Exists(a) == account[a] \in {"active", "inactive"}

\* The providers the quota of grant() counts for a user.
Approved(u) == {p \in Provider : auth[u][p] = "APPROVED"}

\* Every token in the subscriptions table.
Tokens == UNION {subs[u][p] : u \in User, p \in Provider}

SetAuth(u, p, status) == auth' = [auth EXCEPT ![u][p] = status]
SetSubs(u, p, tokens) == subs' = [subs EXCEPT ![u][p] = tokens]

-----------------------------------------------------------------------------
(* Accounts (admin API).  Each is one read and one commit.                  *)

CreateAccount(a) ==
    /\ account[a] = "unborn"
    /\ account' = [account EXCEPT ![a] = "active"]
    /\ UNCHANGED <<auth, subs>>

SwitchAccount(a) ==
    /\ Exists(a)
    /\ account' = [account EXCEPT ![a] = IF @ = "active" THEN "inactive" ELSE "active"]
    /\ UNCHANGED <<auth, subs>>

\* Deleting an account cascades to its authorizations and subscriptions.
DeleteUser(u) ==
    /\ Exists(u)
    /\ account' = [account EXCEPT ![u] = "deleted"]
    /\ auth' = [auth EXCEPT ![u] = [p \in Provider |-> "NONE"]]
    /\ subs' = [subs EXCEPT ![u] = [p \in Provider |-> {}]]

DeleteProvider(p) ==
    /\ Exists(p)
    /\ account' = [account EXCEPT ![p] = "deleted"]
    /\ auth' = [u \in User |-> [auth[u] EXCEPT ![p] = "NONE"]]
    /\ subs' = [u \in User |-> [subs[u] EXCEPT ![p] = {}]]

AccountNext ==
    \/ \E a \in Hash : CreateAccount(a) \/ SwitchAccount(a)
    \/ \E u \in User : DeleteUser(u)
    \/ \E p \in Provider : DeleteProvider(p)

-----------------------------------------------------------------------------
(* The life of one authorization, one atomic step per request.             *)

\* A provider asks for the connection, or the admin bot relays the invite.
Ask(u, p) ==
    /\ Exists(u) /\ Exists(p)
    /\ \/ auth[u][p] = "NONE"
       \/ auth[u][p] = "REVOKED"
    /\ SetAuth(u, p, "PENDING")
    /\ UNCHANGED <<account, subs>>

\* The user, or the admin bot for the user, confirms a pending request.
Approve(u, p) ==
    /\ auth[u][p] = "PENDING"
    /\ Cardinality(Approved(u)) < MaxProviders
    /\ SetAuth(u, p, "APPROVED")
    /\ UNCHANGED <<account, subs>>

Withdraw(u, p) ==
    /\ auth[u][p] \in {"PENDING", "APPROVED"}
    /\ SetAuth(u, p, "REVOKED")
    /\ UNCHANGED <<account, subs>>

\* A rejection that leaves nothing behind: no subscription is lost with it.
\* The admin route does not look at the status, so any row may go this way.
Reject(u, p) ==
    /\ auth[u][p] # "NONE"
    /\ subs[u][p] = {}
    /\ SetAuth(u, p, "NONE")
    /\ UNCHANGED <<account, subs>>

\* The provider removes the connection: the row and its subscriptions.
Disconnect(u, p) ==
    /\ auth[u][p] # "NONE"
    /\ SetAuth(u, p, "NONE")
    /\ SetSubs(u, p, {})
    /\ UNCHANGED account

AddSub(u, p, s) ==
    /\ auth[u][p] = "APPROVED"
    /\ Cardinality(subs[u][p]) < MaxSubscriptions
    /\ s \notin Tokens
    /\ SetSubs(u, p, subs[u][p] \cup {s})
    /\ UNCHANGED <<account, auth>>

DropSub(u, p, s) ==
    /\ auth[u][p] = "APPROVED"
    /\ s \in subs[u][p]
    /\ SetSubs(u, p, subs[u][p] \ {s})
    /\ UNCHANGED <<account, auth>>

ConsentNext ==
    \/ AccountNext
    \/ \E u \in User, p \in Provider :
          \/ Ask(u, p) \/ Approve(u, p) \/ Withdraw(u, p)
          \/ Reject(u, p) \/ Disconnect(u, p)
          \/ \E s \in SubId : AddSub(u, p, s) \/ DropSub(u, p, s)

ConsentSpec == DataInit /\ [][ConsentNext]_data

=============================================================================
