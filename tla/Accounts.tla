------------------------------ MODULE Accounts ------------------------------
(***************************************************************************)
(* The administrator's handlers on users and providers, and the two halves *)
(* of an invite: the provider that is handed a link for a user without an  *)
(* account, and the bot that brings the link back.  A request runs one     *)
(* query at a time; others run in between.                                 *)
(*                                                                         *)
(* A table is a set of rows.  Its unique columns and foreign keys are the  *)
(* guards of the inserts and updates below; a statement they refuse ends   *)
(* the request with IntegrityError.  An UPDATE of one column goes by       *)
(* primary key, and ends the request with StaleDataError when the row is   *)
(* gone; a DELETE of a row that is gone is no error.  A write and its      *)
(* commit are one step.                                                    *)
(***************************************************************************)
EXTENDS Naturals, FiniteSets

CONSTANTS UserId, UserHash, ProviderHash, Name,
          Request,      \* slots for the requests in flight at one time
          MaxInvites,   \* bound: links handed out in a behaviour
          None          \* no hash, no invite

ASSUME AccountsAssumption ==
    /\ None \notin UserHash \cup ProviderHash \cup UserId \cup Name
    /\ None \notin UserId \X ProviderHash
    /\ UserHash \cap ProviderHash = {}
    /\ MaxInvites \in Nat

VARIABLES users,        \* table users
          providers,    \* table providers
          connected,    \* rows of provider_authorizations that came by an invite
          spent,        \* the hashes drawn so far
          invited,      \* the HMACs handed out: what each one signs
          req           \* req[r]: the request in slot r, or Idle

tables == <<users, providers, connected, spent, invited>>
vars == <<users, providers, connected, spent, invited, req>>

User == [hash : UserHash, id : UserId, active : BOOLEAN]
Provider == [hash : ProviderHash, owner : UserHash, name : Name, active : BOOLEAN]

Step == {"insertUser", "updateUser", "loadOwned", "eraseUser",
         "insertProvider", "setProvider", "checkName", "rename", "eraseProvider",
         "inviteFind", "relayFind", "relayCheck", "relayInsert", "findAuth", "insertAuth"}

Idle == [pc |-> "idle"]
Active == [pc : Step, id : UserId \cup {None}, h : UserHash \cup {None},
           p : ProviderHash \cup {None}, name : Name \cup {None}, on : BOOLEAN,
           ticket : (UserId \X ProviderHash) \cup {None},
           seen : SUBSET ProviderHash]

TypeOK ==
    /\ users \subseteq User
    /\ providers \subseteq Provider
    /\ connected \subseteq UserHash \X ProviderHash
    /\ spent \subseteq UserHash \cup ProviderHash
    /\ invited \subseteq UserId \X ProviderHash
    /\ req \in [Request -> {Idle} \cup Active]

Init ==
    /\ users = {} /\ providers = {} /\ connected = {}
    /\ spent = {} /\ invited = {}
    /\ req = [r \in Request |-> Idle]

Goto(r, step) == req' = [req EXCEPT ![r].pc = step]
\* A mutant that leaves the request's record behind.
FinishKeepingFields(r) == req' = [req EXCEPT ![r].pc = "idle"]
Finish(r) == req' = [req EXCEPT ![r] = Idle]

\* get_by_user_id, get_by_owner_hash, get_by_name, get_by_hash
ById(id) == {u \in users : u.id = id}
Owned(h) == {p \in providers : p.owner = h}
Called(n) == {p \in providers : p.name = n}
ByHash(h) == {p \in providers : p.hash = h}

UserHashes == {u.hash : u \in users}
ProviderHashes == {p.hash : p \in providers}

-----------------------------------------------------------------------------
(* A request arrives and makes its first query; when the answer ends it    *)
(* (NotFoundError, ValidationError, nothing to do) it leaves no trace and  *)
(* is left out.                                                            *)

\* A request about to run a step, with what it holds in its local variables.
At(step) ==
    [pc |-> step, id |-> None, h |-> None, p |-> None, name |-> None, on |-> FALSE,
     ticket |-> None, seen |-> {}]

Begin(r, q) ==
    /\ req[r] = Idle
    /\ req' = [req EXCEPT ![r] = q]
    /\ UNCHANGED tables

CreateUser(r, id) ==
    /\ ById(id) = {}
    /\ Begin(r, [At("insertUser") EXCEPT !.id = id])

SetUserActive(r, id) ==
    \E u \in ById(id) :
        Begin(r, [At("updateUser") EXCEPT !.h = u.hash, !.on = ~u.active])

DeleteUser(r, id) ==
    \E u \in ById(id) : Begin(r, [At("loadOwned") EXCEPT !.h = u.hash])

\* The owner is named by a hash, of an account or of one that is gone.
CreateProvider(r, n) ==
    \E h \in spent \cap UserHash :
        /\ Owned(h) = {}
        /\ Begin(r, [At("insertProvider") EXCEPT !.h = h, !.name = n])

SetProviderActive(r) ==
    \E p \in providers :
        Begin(r, [At("setProvider") EXCEPT !.p = p.hash, !.on = ~p.active])

UpdateProviderName(r, n) ==
    \E p \in providers :
        /\ p.name # n
        /\ Begin(r, [At("checkName") EXCEPT !.p = p.hash, !.name = n])

DeleteProvider(r) ==
    \E p \in providers : Begin(r, [At("eraseProvider") EXCEPT !.p = p.hash])

\* POST /providers/{user_id}: the API token is that of an active provider.
CreateConnection(r, id) ==
    \E p \in providers :
        /\ p.active
        /\ Cardinality(invited) < MaxInvites
        /\ Begin(r, [At("inviteFind") EXCEPT !.id = id, !.p = p.hash])

\* POST /admin/providers/auth: the bot passes on the name and the HMAC of whichever
\* link the user opened, or a name alone.
ProcessRequest(r, id, n) ==
    \E p \in Called(n), ticket \in invited \cup {None} :
        Begin(r, [At("relayFind") EXCEPT !.id = id, !.p = p.hash, !.ticket = ticket])

Arrive(r) ==
    \/ \E id \in UserId :
        \/ CreateUser(r, id) \/ SetUserActive(r, id) \/ DeleteUser(r, id)
        \/ CreateConnection(r, id)
        \/ \E n \in Name : ProcessRequest(r, id, n)
    \/ \E n \in Name : CreateProvider(r, n) \/ UpdateProviderName(r, n)
    \/ SetProviderActive(r) \/ DeleteProvider(r)

-----------------------------------------------------------------------------
(* Users.                                                                  *)

UserFits(u) == u.hash \notin spent /\ ById(u.id) = {}

InsertUser(r) ==
    LET q == req[r]
    IN  /\ q.pc \in {"insertUser", "relayInsert"}
        /\ \/ \E h \in UserHash :
              LET u == [hash |-> h, id |-> q.id, active |-> TRUE]
              IN  /\ UserFits(u)
                  /\ users' = users \cup {u}
                  /\ spent' = spent \cup {h}
                  /\ IF q.pc = "relayInsert"
                     THEN req' = [req EXCEPT ![r].h = h, ![r].pc = "findAuth"]
                     ELSE Finish(r)
           \/ /\ ById(q.id) # {}
              /\ Finish(r)                              \* IntegrityError
              /\ UNCHANGED <<users, spent>>
        /\ UNCHANGED <<providers, connected, invited>>

UpdateUser(r) ==
    LET q == req[r]
    IN  /\ q.pc = "updateUser"
        /\ users' = {IF u.hash = q.h THEN [u EXCEPT !.active = q.on] ELSE u : u \in users}
        /\ Finish(r)
        /\ UNCHANGED <<providers, connected, spent, invited>>

\* A mutant of the ORM's cascade: the provider is deleted with its owner.
MayLeaveWithProvider(h) == TRUE
\* User.provider has no delete cascade, so the flush sets providers.owner_hash to
\* NULL, which the column refuses (IntegrityError).
MayLeave(h) == Owned(h) = {}

\* session.delete: the flush loads the account's provider.
LoadOwned(r) ==
    /\ req[r].pc = "loadOwned"
    /\ IF MayLeave(req[r].h)
       THEN req' = [req EXCEPT ![r].pc = "eraseUser",
                               ![r].seen = spent \cap ProviderHash]
       ELSE Finish(r)
    /\ UNCHANGED tables

\* A mutant without ON DELETE CASCADE: the provider of the account stays.
CutNothing(h) == providers
\* providers.owner_hash REFERENCES users ON DELETE CASCADE.
Cut(h) == providers \ Owned(h)

EraseUser(r) ==
    LET h == req[r].h
    IN  /\ req[r].pc = "eraseUser"
        /\ users' = {u \in users : u.hash # h}
        /\ providers' = Cut(h)
        /\ connected' = {c \in connected : /\ c[1] # h
                                           /\ \A p \in Owned(h) : c[2] # p.hash}
        /\ Finish(r)
        /\ UNCHANGED <<spent, invited>>

-----------------------------------------------------------------------------
(* Providers.                                                              *)

\* A foreign key and two unique columns.
ProviderFits(h, n) == h \in UserHashes /\ Owned(h) = {} /\ Called(n) = {}

InsertProvider(r) ==
    LET q == req[r]
    IN  /\ q.pc = "insertProvider"
        /\ \/ \E p \in ProviderHash \ spent :
              /\ ProviderFits(q.h, q.name)
              /\ providers' = providers \cup
                     {[hash |-> p, owner |-> q.h, name |-> q.name, active |-> TRUE]}
              /\ spent' = spent \cup {p}
           \/ /\ ~ProviderFits(q.h, q.name)             \* IntegrityError
              /\ UNCHANGED <<providers, spent>>
        /\ Finish(r)
        /\ UNCHANGED <<users, connected, invited>>

SetProvider(r) ==
    LET q == req[r]
    IN  /\ q.pc = "setProvider"
        /\ providers' = {IF p.hash = q.p THEN [p EXCEPT !.active = q.on] ELSE p :
                             p \in providers}
        /\ Finish(r)
        /\ UNCHANGED <<users, connected, spent, invited>>

CheckName(r) ==
    /\ req[r].pc = "checkName"
    /\ \/ Called(req[r].name) = {} /\ Goto(r, "rename")
       \/ Called(req[r].name) # {} /\ Finish(r)         \* DuplicateNameError
    /\ UNCHANGED tables

NameFits(p, n) == Called(n) \subseteq ByHash(p)

RenameProvider(r) ==
    LET q == req[r]
    IN  /\ q.pc = "rename"
        /\ \/ /\ NameFits(q.p, q.name)
              /\ providers' = {IF p.hash = q.p THEN [p EXCEPT !.name = q.name] ELSE p :
                                   p \in providers}
           \/ ~NameFits(q.p, q.name) /\ UNCHANGED providers     \* IntegrityError
        /\ Finish(r)
        /\ UNCHANGED <<users, connected, spent, invited>>

EraseProvider(r) ==
    LET p == req[r].p
    IN  /\ req[r].pc = "eraseProvider"
        /\ providers' = providers \ ByHash(p)
        /\ connected' = {c \in connected : c[2] # p}
        /\ Finish(r)
        /\ UNCHANGED <<users, spent, invited>>

-----------------------------------------------------------------------------
(* Invites.                                                                *)

\* create_connection: no account for this id, so a link is handed out.  With an
\* account it goes on as in ProviderAuth.
HandOut(r) ==
    LET q == req[r]
    IN  /\ q.pc = "inviteFind"
        /\ invited' = IF ById(q.id) = {} THEN invited \cup {<<q.id, q.p>>} ELSE invited
        /\ Finish(r)
        /\ UNCHANGED <<users, providers, connected, spent>>

\* get_by_user_id of the relay; without an account, create_user follows.
RelayFind(r) ==
    LET q == req[r]
    IN  /\ q.pc = "relayFind"
        /\ \/ ById(q.id) = {} /\ Goto(r, "relayCheck")
           \/ \E u \in ById(q.id) :
                  req' = [req EXCEPT ![r].h = u.hash, ![r].pc = "findAuth"]
        /\ UNCHANGED tables

\* create_user looks again before it inserts.
RelayCheck(r) ==
    /\ req[r].pc = "relayCheck"
    /\ \/ ById(req[r].id) = {} /\ Goto(r, "relayInsert")
       \/ ById(req[r].id) # {} /\ Finish(r)             \* ValidationError
    /\ UNCHANGED tables

\* A mutant whose HMAC signs the id only.
VerifiesId(ticket, id, p) == ticket # None /\ ticket[1] = id
\* verify_auth_hmac: the id of the request, the hash of the provider it found.
Verifies(ticket, id, p) == ticket = <<id, p>>

FindAuth(r) ==
    LET q == req[r]
    IN  /\ q.pc = "findAuth"
        /\ IF <<q.h, q.p>> \notin connected /\ Verifies(q.ticket, q.id, q.p)
           THEN Goto(r, "insertAuth") ELSE Finish(r)
        /\ UNCHANGED tables

\* Foreign keys to both accounts; a second row is refused by the primary key.
InsertAuth(r) ==
    LET q == req[r]
    IN  /\ q.pc = "insertAuth"
        /\ connected' = IF q.h \in UserHashes /\ q.p \in ProviderHashes
                        THEN connected \cup {<<q.h, q.p>>} ELSE connected
        /\ Finish(r)
        /\ UNCHANGED <<users, providers, spent, invited>>

\* The row goes with a rejection or a disconnection (ProviderAuth).
Forget ==
    /\ \E c \in connected : connected' = connected \ {c}
    /\ UNCHANGED <<users, providers, spent, invited, req>>

\* An error, a lost client or a restart of the worker before the commit.
Abort(r) == req[r] # Idle /\ Finish(r) /\ UNCHANGED tables

UserStep(r) == InsertUser(r) \/ UpdateUser(r) \/ LoadOwned(r) \/ EraseUser(r)

ProviderStep(r) ==
    \/ InsertProvider(r) \/ SetProvider(r) \/ CheckName(r)
    \/ RenameProvider(r) \/ EraseProvider(r)

InviteStep(r) ==
    HandOut(r) \/ RelayFind(r) \/ RelayCheck(r) \/ FindAuth(r) \/ InsertAuth(r)

Next ==
    \/ \E r \in Request :
           Arrive(r) \/ UserStep(r) \/ ProviderStep(r) \/ InviteStep(r) \/ Abort(r)
    \/ Forget

Spec == Init /\ [][Next]_vars

-----------------------------------------------------------------------------
(* Properties.                                                             *)

\* Unique columns and foreign keys hold between any two statements: an id, a name
\* and an owner stand for one row each, a provider has an owner, a connection has
\* both ends (db/models, through every race of check and insert).
KeysHold ==
    /\ \A u, v \in users : u.hash = v.hash \/ u.id = v.id => u = v
    /\ \A p, q \in providers :
           p.hash = q.hash \/ p.name = q.name \/ p.owner = q.owner => p = q
    /\ \A p \in providers : p.owner \in UserHashes
    /\ connected \subseteq UserHashes \X ProviderHashes

\* The handlers implement the directory: each request takes effect at one instant,
\* an id and a name stand for one account, and a user is connected by a link only
\* to the provider the link was handed to, however names change hands meanwhile.
Dir == INSTANCE Directory WITH
           accounts <- [id \in UserId |->
               {[hash |-> u.hash, active |-> u.active] : u \in ById(id)}],
           brands <- [n \in Name |->
               {[hash |-> p.hash, owner |-> p.owner, active |-> p.active] : p \in Called(n)}]
DirectorySpec == Dir!Spec

\* Deleting a user never takes along a provider that existed when the deletion
\* looked for one: only a provider registered in between goes by the cascade
\* (services/user_service.py:delete_user, db/models/user.py: no delete cascade).
SeenProvidersStay ==
    [][\A p \in providers :
           p.owner \notin {u.hash : u \in users'} =>
               \E r \in Request : /\ req[r].pc = "eraseUser"
                                  /\ p.hash \notin req[r].seen]_vars
=============================================================================
