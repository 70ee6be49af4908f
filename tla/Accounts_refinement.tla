------------------------- MODULE Accounts_refinement -------------------------
(***************************************************************************)
(* Accounts implements Directory: proof that every step of a handler is a  *)
(* step of the directory or leaves it as it is.                            *)
(***************************************************************************)
EXTENDS Accounts_proofs

-----------------------------------------------------------------------------
(* What a request remembers of the tables                                  *)

HasTicket == {"relayFind", "relayCheck", "relayInsert", "findAuth", "insertAuth"}
HasUser == {"findAuth", "insertAuth"}

\* A request's provider was drawn, its ticket handed out, its user has its id, and a
\* ticket that passed signs both.
Recalls(q) ==
    /\ q.pc \in NeedsProvider => q.p \in spent
    /\ q.pc \in HasTicket => q.ticket \in invited \cup {None}
    /\ q.pc \in HasUser => /\ q.h \in spent
                           /\ \A u \in users : u.hash = q.h => u.id = q.id
    /\ q.pc = "insertAuth" => q.ticket = <<q.id, q.p>>
RecallsAll == \A r \in Request : Recalls(req[r])


\* Any step of the request in slot r.
RequestStep(r) == Arrive(r) \/ UserStep(r) \/ ProviderStep(r) \/ InviteStep(r) \/ Abort(r)

\* The tables only add hashes, links, and accounts under new hashes.
LEMMA UsersGrow ==
    ASSUME Typed, NEW r \in Request, RequestStep(r)
    PROVE  /\ spent \subseteq spent' /\ invited \subseteq invited'
           /\ \A u \in users' : \/ u.hash \notin spent
                                \/ \E v \in users : v.hash = u.hash /\ v.id = u.id
<1> DEFINE G == \A u \in users' : \/ u.hash \notin spent
                                  \/ \E v \in users : v.hash = u.hash /\ v.id = u.id
<1>1. spent \subseteq spent'
    BY TablesGrow DEF RequestStep
<1>2. invited \subseteq invited'
    BY ArriveReady
    DEF RequestStep, Begin, tables, Abort, UserStep, InsertUser, UpdateUser, LoadOwned, EraseUser,
        ProviderStep, InsertProvider, SetProvider, CheckName, RenameProvider, EraseProvider,
        InviteStep, HandOut, RelayFind, RelayCheck, FindAuth, InsertAuth
<1>3. CASE Arrive(r) \/ InviteStep(r) \/ Abort(r) \/ ProviderStep(r)
  <2>1. users' = users
      BY <1>3, ArriveReady
      DEF Begin, tables, Abort, ProviderStep, InsertProvider, SetProvider, CheckName,
          RenameProvider, EraseProvider, InviteStep, HandOut, RelayFind, RelayCheck, FindAuth,
          InsertAuth
  <2> QED BY <1>1, <1>2, <2>1
<1>4. CASE LoadOwned(r) \/ EraseUser(r)
  <2>1. users' \subseteq users
      BY <1>4 DEF LoadOwned, EraseUser, tables
  <2> QED BY <1>1, <1>2, <2>1
<1>5. CASE UpdateUser(r)
  <2> DEFINE h == req[r].h
             on == req[r].on
             f(u) == IF u.hash = h THEN [u EXCEPT !.active = on] ELSE u
  <2>1. users' = {f(u) : u \in users}
      BY <1>5 DEF UpdateUser
  <2>2. \A u \in users : f(u).hash = u.hash /\ f(u).id = u.id
      BY DEF Typed, TypeOK, User
  <2> HIDE DEF f
  <2> QED BY <1>1, <1>2, <2>1, <2>2
<1>6. CASE InsertUser(r)
  <2>1. CASE UNCHANGED users
      BY <1>1, <1>2, <2>1
  <2>2. ASSUME NEW h,
               UserFits([hash |-> h, id |-> req[r].id, active |-> TRUE]),
               users' = users \cup {[hash |-> h, id |-> req[r].id, active |-> TRUE]}
        PROVE  G
    <3> DEFINE u == [hash |-> h, id |-> req[r].id, active |-> TRUE]
    <3>1. u.hash \notin spent BY <2>2 DEF UserFits
    <3>2. users' = users \cup {u} BY <2>2
    <3> HIDE DEF u
    <3> QED BY <3>1, <3>2
  <2> QED BY <1>1, <1>2, <1>6, <2>1, <2>2 DEF InsertUser
<1> QED BY <1>3, <1>4, <1>5, <1>6 DEF RequestStep, UserStep

\* What a request remembers when it arrives it has just read.
LEMMA ArriveRecalls ==
    ASSUME Typed, Keyed, NEW r \in Request, Arrive(r)
    PROVE  \E q : Begin(r, q) /\ Recalls(q)
<1> DEFINE G == \E q : Begin(r, q) /\ Recalls(q)
<1>0. \A p \in providers : p.hash \in spent
    BY DEF Keyed, Drawn, ProviderHashes
<1>1. ASSUME NEW id \in UserId, CreateUser(r, id) PROVE G
    BY <1>1 DEF CreateUser, At, Recalls, NeedsProvider, HasTicket, HasUser
<1>2. ASSUME NEW id \in UserId, SetUserActive(r, id) PROVE G
  <2>1. PICK u \in ById(id) :
            Begin(r, [At("updateUser") EXCEPT !.h = u.hash, !.on = ~u.active])
      BY <1>2 DEF SetUserActive
  <2> DEFINE q == [At("updateUser") EXCEPT !.h = u.hash, !.on = ~u.active]
  <2>2. Recalls(q)
      BY DEF At, Recalls, NeedsProvider, HasTicket, HasUser
  <2> QED BY <2>1, <2>2
<1>3. ASSUME NEW id \in UserId, DeleteUser(r, id) PROVE G
  <2>1. PICK u \in ById(id) :
            Begin(r, [At("loadOwned") EXCEPT !.h = u.hash])
      BY <1>3 DEF DeleteUser
  <2> DEFINE q == [At("loadOwned") EXCEPT !.h = u.hash]
  <2>2. Recalls(q)
      BY DEF At, Recalls, NeedsProvider, HasTicket, HasUser
  <2> QED BY <2>1, <2>2
<1>4. ASSUME NEW id \in UserId, CreateConnection(r, id) PROVE G
  <2>1. PICK p \in providers :
            Begin(r, [At("inviteFind") EXCEPT !.id = id, !.p = p.hash])
      BY <1>4 DEF CreateConnection
  <2> DEFINE q == [At("inviteFind") EXCEPT !.id = id, !.p = p.hash]
  <2>2. Recalls(q)
      BY <1>0 DEF At, Recalls, NeedsProvider, HasTicket, HasUser
  <2> QED BY <2>1, <2>2
<1>5. ASSUME NEW id \in UserId, NEW n \in Name, ProcessRequest(r, id, n) PROVE G
  <2>1. PICK p \in providers, t \in invited \cup {None} :
            Begin(r, [At("relayFind") EXCEPT !.id = id, !.p = p.hash, !.ticket = t])
      BY <1>5 DEF ProcessRequest, Called
  <2> DEFINE q == [At("relayFind") EXCEPT !.id = id, !.p = p.hash, !.ticket = t]
  <2>2. Recalls(q)
      BY <1>0 DEF At, Recalls, NeedsProvider, HasTicket, HasUser
  <2> QED BY <2>1, <2>2
<1>6. ASSUME NEW n \in Name, CreateProvider(r, n) PROVE G
  <2>1. PICK h \in spent :
            Begin(r, [At("insertProvider") EXCEPT !.h = h, !.name = n])
      BY <1>6 DEF CreateProvider
  <2> DEFINE q == [At("insertProvider") EXCEPT !.h = h, !.name = n]
  <2>2. Recalls(q)
      BY DEF At, Recalls, NeedsProvider, HasTicket, HasUser
  <2> QED BY <2>1, <2>2
<1>7. ASSUME NEW n \in Name, UpdateProviderName(r, n) PROVE G
  <2>1. PICK p \in providers :
            Begin(r, [At("checkName") EXCEPT !.p = p.hash, !.name = n])
      BY <1>7 DEF UpdateProviderName
  <2> DEFINE q == [At("checkName") EXCEPT !.p = p.hash, !.name = n]
  <2>2. Recalls(q)
      BY <1>0 DEF At, Recalls, NeedsProvider, HasTicket, HasUser
  <2> QED BY <2>1, <2>2
<1>8. CASE SetProviderActive(r)
  <2>1. PICK p \in providers :
            Begin(r, [At("setProvider") EXCEPT !.p = p.hash, !.on = ~p.active])
      BY <1>8 DEF SetProviderActive
  <2> DEFINE q == [At("setProvider") EXCEPT !.p = p.hash, !.on = ~p.active]
  <2>2. Recalls(q)
      BY <1>0 DEF At, Recalls, NeedsProvider, HasTicket, HasUser
  <2> QED BY <2>1, <2>2
<1>9. CASE DeleteProvider(r)
  <2>1. PICK p \in providers :
            Begin(r, [At("eraseProvider") EXCEPT !.p = p.hash])
      BY <1>9 DEF DeleteProvider
  <2> DEFINE q == [At("eraseProvider") EXCEPT !.p = p.hash]
  <2>2. Recalls(q)
      BY <1>0 DEF At, Recalls, NeedsProvider, HasTicket, HasUser
  <2> QED BY <2>1, <2>2
<1> QED BY <1>1, <1>2, <1>3, <1>4, <1>5, <1>6, <1>7, <1>8, <1>9 DEF Arrive

\* What another request remembers stays true.
LEMMA OthersRecall ==
    ASSUME Typed, RecallsAll, NEW r \in Request, RequestStep(r),
           NEW x \in Request \ {r}
    PROVE  Recalls(req[x])'
<1>1. req'[x] = req[x]
    BY OnlyOwnRecord DEF RequestStep
<1>2. Recalls(req[x])
    BY DEF RecallsAll
<1> DEFINE q == req[x]
<1>3. q.pc \in NeedsProvider => q.p \in spent'
    BY <1>2, UsersGrow DEF Recalls
<1>4. q.pc \in HasTicket => q.ticket \in invited' \cup {None}
    BY <1>2, UsersGrow DEF Recalls
<1>5. q.pc \in HasUser => q.h \in spent' /\ \A u \in users' : u.hash = q.h => u.id = q.id
  <2> SUFFICES ASSUME q.pc \in HasUser
               PROVE  q.h \in spent' /\ \A u \in users' : u.hash = q.h => u.id = q.id
      OBVIOUS
  <2>1. q.h \in spent /\ \A u \in users : u.hash = q.h => u.id = q.id
      BY <1>2 DEF Recalls
  <2> QED BY <2>1, UsersGrow
<1>6. q.pc = "insertAuth" => q.ticket = <<q.id, q.p>>
    BY <1>2 DEF Recalls
<1> QED BY <1>1, <1>3, <1>4, <1>5, <1>6 DEF Recalls

\* The request that moves remembers what it read, wrote or verified.
LEMMA OwnRecall ==
    ASSUME Typed, Keyed, RecallsAll, NEW r \in Request, RequestStep(r)
    PROVE  Recalls(req[r])'
<1> DEFINE G == Recalls(req[r])'
           old == req[r]
<1>0. Recalls(old) BY DEF RecallsAll
<1>1. ASSUME Finish(r) PROVE G
  <2>1. req'[r] = Idle BY <1>1 DEF Finish, Typed, ReadyReq
  <2> QED BY <2>1 DEF Idle, Recalls, NeedsProvider, HasTicket, HasUser
<1>2. ASSUME UNCHANGED tables, NEW q, Recalls(q), req' = [req EXCEPT ![r] = q] PROVE G
  <2>1. req'[r] = q BY <1>2 DEF Typed, ReadyReq
  <2> QED BY <1>2, <2>1 DEF tables, Recalls
<1>3. CASE Arrive(r)
    BY <1>2, <1>3, ArriveRecalls DEF Begin
<1>4. CASE InsertUser(r)
  <2>0. old \in Active /\ Fields(old)
      BY <1>4, StepIsReady, ReadyIsActive DEF InsertUser
  <2>1. ASSUME NEW h \in UserHash, old.pc = "relayInsert",
               UserFits([hash |-> h, id |-> old.id, active |-> TRUE]),
               users' = users \cup {[hash |-> h, id |-> old.id, active |-> TRUE]},
               spent' = spent \cup {h}, invited' = invited,
               req' = [req EXCEPT ![r].h = h, ![r].pc = "findAuth"]
        PROVE  G
    <3> DEFINE q == [old EXCEPT !.h = h, !.pc = "findAuth"]
               u == [hash |-> h, id |-> old.id, active |-> TRUE]
    <3>1. req'[r] = q BY <2>1 DEF Typed, ReadyReq
    <3>2. /\ q.pc = "findAuth" /\ q.h = h
          /\ q.id = old.id /\ q.p = old.p /\ q.ticket = old.ticket
        BY <2>0 DEF Active
    <3>3. users' = users \cup {u} /\ u.hash = h /\ u.id = old.id BY <2>1
    <3>4. \A v \in users : v.hash # h
        BY <2>1 DEF UserFits, Keyed, Drawn, UserHashes
    <3> HIDE DEF u, q
    <3>5. \A v \in users' : v.hash = h => v.id = old.id
        BY <3>3, <3>4
    <3>6. old.p \in spent' /\ old.ticket \in invited' \cup {None}
        BY <1>0, <2>1 DEF Recalls, NeedsProvider, HasTicket
    <3>7. h \in spent' BY <2>1
    <3> DEFINE now == req'[r]
    <3>8. /\ now.pc = "findAuth" /\ now.h = h
          /\ now.id = old.id /\ now.p = old.p /\ now.ticket = old.ticket
        BY <3>1, <3>2
    <3>9. \A v \in users' : v.hash = now.h => v.id = now.id
        BY <3>5, <3>8
    <3> QED BY <3>6, <3>7, <3>8, <3>9 DEF Recalls, HasUser
  <2> QED BY <1>1, <1>4, <2>1 DEF InsertUser
<1>5. CASE LoadOwned(r)
  <2>0. old \in Active
      BY <1>5, StepIsReady, ReadyIsActive DEF LoadOwned
  <2>1. CASE MayLeave(old.h)
    <3> DEFINE q == [old EXCEPT !.pc = "eraseUser", !.seen = spent \cap ProviderHash]
    <3>1. q.pc = "eraseUser" /\ q.p = old.p BY <2>0 DEF Active
    <3>2. req' = [req EXCEPT ![r] = q] /\ UNCHANGED tables
        BY <1>5, <2>1 DEF LoadOwned, Typed, ReadyReq
    <3> HIDE DEF q
    <3>3. Recalls(q) BY <3>1 DEF Recalls, NeedsProvider, HasTicket, HasUser
    <3> QED BY <1>2, <3>2, <3>3
  <2> QED BY <1>1, <1>5, <2>1 DEF LoadOwned
<1>6. CASE UpdateUser(r) \/ EraseUser(r) \/ InsertProvider(r) \/ SetProvider(r)
           \/ RenameProvider(r) \/ EraseProvider(r) \/ HandOut(r) \/ InsertAuth(r) \/ Abort(r)
    BY <1>1, <1>6
    DEF UpdateUser, EraseUser, InsertProvider, SetProvider, RenameProvider, EraseProvider,
        HandOut, InsertAuth, Abort
<1>7. CASE CheckName(r) \/ RelayCheck(r) \/ FindAuth(r) \/ (RelayFind(r) /\ Goto(r, "relayCheck"))
  <2>0. old \in Active /\ Fields(old)
      BY <1>7, StepIsReady, ReadyIsActive DEF CheckName, RelayCheck, FindAuth, RelayFind
  <2>1. UNCHANGED tables
      BY <1>7 DEF CheckName, RelayCheck, FindAuth, RelayFind
  <2>2. ASSUME NEW step \in Step, Goto(r, step), Recalls([old EXCEPT !.pc = step]) PROVE G
    <3>1. req' = [req EXCEPT ![r] = [old EXCEPT !.pc = step]]
        BY <2>2 DEF Goto, Typed, ReadyReq
    <3> QED BY <1>2, <2>1, <2>2, <3>1
  <2>3. CASE Goto(r, "rename") /\ old.pc = "checkName"
    <3>1. Recalls([old EXCEPT !.pc = "rename"])
        BY <1>0, <2>0, <2>3 DEF Recalls, NeedsProvider, HasTicket, HasUser, Active
    <3> QED BY <2>2, <2>3, <3>1 DEF Step
  <2>4. CASE Goto(r, "relayCheck") /\ old.pc = "relayFind"
    <3>1. Recalls([old EXCEPT !.pc = "relayCheck"])
        BY <1>0, <2>0, <2>4 DEF Recalls, NeedsProvider, HasTicket, HasUser, Active
    <3> QED BY <2>2, <2>4, <3>1 DEF Step
  <2>5. CASE Goto(r, "relayInsert") /\ old.pc = "relayCheck"
    <3>1. Recalls([old EXCEPT !.pc = "relayInsert"])
        BY <1>0, <2>0, <2>5 DEF Recalls, NeedsProvider, HasTicket, HasUser, Active
    <3> QED BY <2>2, <2>5, <3>1 DEF Step
  <2>6. CASE /\ Goto(r, "insertAuth") /\ old.pc = "findAuth"
             /\ Verifies(old.ticket, old.id, old.p)
    <3>1. Recalls([old EXCEPT !.pc = "insertAuth"])
        BY <1>0, <2>0, <2>6
        DEF Verifies, Recalls, NeedsProvider, HasTicket, HasUser, Active
    <3> QED BY <2>2, <2>6, <3>1 DEF Step
  <2>7. CASE Finish(r)
      BY <2>7, <1>1
  <2> QED BY <1>7, <2>3, <2>4, <2>5, <2>6, <2>7
          DEF CheckName, RelayCheck, FindAuth, RelayFind, Goto
<1>8. CASE RelayFind(r)
  <2>0. old \in Active /\ Fields(old)
      BY <1>8, StepIsReady, ReadyIsActive DEF RelayFind
  <2>1. ASSUME NEW u \in ById(old.id),
               req' = [req EXCEPT ![r].h = u.hash, ![r].pc = "findAuth"]
        PROVE  G
    <3> DEFINE q == [old EXCEPT !.h = u.hash, !.pc = "findAuth"]
    <3>1. req' = [req EXCEPT ![r] = q] /\ UNCHANGED tables
        BY <1>8, <2>1 DEF Typed, ReadyReq, RelayFind
    <3>2. /\ q.pc = "findAuth" /\ q.h = u.hash
          /\ q.id = old.id /\ q.p = old.p /\ q.ticket = old.ticket
        BY <2>0 DEF Active
    <3>3. u.hash \in spent /\ \A v \in users : v.hash = u.hash => v.id = old.id
        BY DEF ById, Keyed, Drawn, UserHashes, KeysHold
    <3>4. old.p \in spent /\ old.ticket \in invited \cup {None}
        BY <1>0, <1>8 DEF RelayFind, Recalls, NeedsProvider, HasTicket
    <3> HIDE DEF q
    <3>5. Recalls(q)
        BY <3>2, <3>3, <3>4 DEF Recalls, HasUser
    <3> QED BY <1>2, <3>1, <3>5
  <2> QED BY <1>7, <1>8, <2>1 DEF RelayFind
<1> QED BY <1>3, <1>4, <1>5, <1>6, <1>7, <1>8
        DEF RequestStep, UserStep, ProviderStep, InviteStep

LEMMA RecallsAlways == Spec => []RecallsAll
<1>1. Init => RecallsAll
    BY DEF Init, RecallsAll, Recalls, Idle, NeedsProvider, HasTicket, HasUser
<1>2. Typed /\ Keyed /\ RecallsAll /\ [Next]_vars => RecallsAll'
  <2> SUFFICES ASSUME Typed, Keyed, RecallsAll, [Next]_vars PROVE RecallsAll'
      OBVIOUS
  <2>1. CASE UNCHANGED vars
      BY <2>1 DEF vars, RecallsAll, Recalls
  <2>2. CASE Forget
      BY <2>2 DEF Forget, RecallsAll, Recalls
  <2>3. ASSUME NEW r \in Request, RequestStep(r) PROVE RecallsAll'
    <3>1. \A x \in Request \ {r} : Recalls(req[x])'
        BY <2>3, OthersRecall
    <3>2. Recalls(req[r])'
        BY <2>3, OwnRecall
    <3> QED BY <3>1, <3>2 DEF RecallsAll
  <2> QED BY <2>1, <2>2, <2>3 DEF Next, RequestStep
<1> QED BY <1>1, <1>2, TypedAlways, KeyedAlways, PTL DEF Spec

-----------------------------------------------------------------------------
(* The directory, seen in the tables                                       *)

AccountRow(u) == [hash |-> u.hash, active |-> u.active]
BrandRow(p) == [hash |-> p.hash, owner |-> p.owner, active |-> p.active]
Accs == [id \in UserId |-> {AccountRow(u) : u \in ById(id)}]
Brands == [n \in Name |-> {BrandRow(p) : p \in Called(n)}]

\* One id or one name is affected at a time.
LEMMA OneAccount ==
    ASSUME NEW id \in UserId, \A x \in UserId \ {id} : ById(x)' = ById(x)
    PROVE  Accs' = [Accs EXCEPT ![id] = {AccountRow(u) : u \in ById(id)'}]
<1> DEFINE new(x) == {AccountRow(u) : u \in ById(x)'}
           old(x) == {AccountRow(u) : u \in ById(x)}
<1>1. Accs' = [x \in UserId |-> new(x)] /\ Accs = [x \in UserId |-> old(x)]
    BY DEF Accs, AccountRow
<1>2. \A x \in UserId \ {id} : new(x) = old(x)
    OBVIOUS
<1> HIDE DEF new, old
<1>3. Accs' = [Accs EXCEPT ![id] = new(id)]
    BY <1>1, <1>2
<1> QED BY <1>3 DEF new

LEMMA OneBrand ==
    ASSUME NEW n \in Name, \A x \in Name \ {n} : Called(x)' = Called(x)
    PROVE  Brands' = [Brands EXCEPT ![n] = {BrandRow(p) : p \in Called(n)'}]
<1> DEFINE new(x) == {BrandRow(p) : p \in Called(x)'}
           old(x) == {BrandRow(p) : p \in Called(x)}
<1>1. Brands' = [x \in Name |-> new(x)] /\ Brands = [x \in Name |-> old(x)]
    BY DEF Brands, BrandRow
<1>2. \A x \in Name \ {n} : new(x) = old(x)
    OBVIOUS
<1> HIDE DEF new, old
<1>3. Brands' = [Brands EXCEPT ![n] = new(n)]
    BY <1>1, <1>2
<1> QED BY <1>3 DEF new

\* A row is all there is under its id, and under its name.
LEMMA TheAccount ==
    ASSUME Typed, Keyed, NEW u \in users
    PROVE  /\ u.id \in UserId /\ ById(u.id) = {u}
           /\ Accs[u.id] = {AccountRow(u)} /\ AccountRow(u) \in Dir!Account
<1>1. u \in User BY DEF Typed, TypeOK
<1>2. u.id \in UserId /\ AccountRow(u) \in Dir!Account
    BY <1>1 DEF User, AccountRow, Dir!Account
<1>3. ById(u.id) = {u}
    BY DEF ById, Keyed, KeysHold
<1>4. Accs[u.id] = {AccountRow(x) : x \in ById(u.id)}
    BY <1>2 DEF Accs
<1>5. Accs[u.id] = {AccountRow(u)}
    BY <1>3, <1>4
<1> QED BY <1>2, <1>3, <1>5

LEMMA TheBrand ==
    ASSUME Typed, Keyed, NEW p \in providers
    PROVE  /\ p.name \in Name /\ Called(p.name) = {p}
           /\ Brands[p.name] = {BrandRow(p)} /\ BrandRow(p) \in Dir!Brand
<1>1. p \in Provider BY DEF Typed, TypeOK
<1>2. p.name \in Name /\ BrandRow(p) \in Dir!Brand
    BY <1>1 DEF Provider, BrandRow, Dir!Brand
<1>3. Called(p.name) = {p}
    BY DEF Called, Keyed, KeysHold
<1>4. Brands[p.name] = {BrandRow(x) : x \in Called(p.name)}
    BY <1>2 DEF Brands
<1>5. Brands[p.name] = {BrandRow(p)}
    BY <1>3, <1>4
<1> QED BY <1>2, <1>3, <1>5

\* Everyone with a row is in the directory, and nobody else.
LEMMA KnownAndServing ==
    ASSUME Typed, Keyed
    PROVE  Dir!Known = UserHashes /\ Dir!Serving = ProviderHashes
<1>1. Dir!Known = UNION {{a.hash : a \in Accs[id]} : id \in UserId}
    BY DEF Dir!Known, Accs, AccountRow
<1>2. Dir!Serving = UNION {{b.hash : b \in Brands[n]} : n \in Name}
    BY DEF Dir!Serving, Brands, BrandRow
<1>3. \A u \in users : u.hash \in Dir!Known
  <2> SUFFICES ASSUME NEW u \in users PROVE u.hash \in Dir!Known
      OBVIOUS
  <2>1. u.id \in UserId /\ AccountRow(u) \in Accs[u.id] BY TheAccount
  <2>2. AccountRow(u).hash = u.hash BY DEF AccountRow
  <2> QED BY <1>1, <2>1, <2>2
<1>4. \A h \in Dir!Known : \E u \in users : u.hash = h
  <2>1. \A id \in UserId : \A a \in Accs[id] : \E u \in users : a.hash = u.hash
      BY DEF Accs, AccountRow, ById
  <2> QED BY <1>1, <2>1
<1>5. \A p \in providers : p.hash \in Dir!Serving
  <2> SUFFICES ASSUME NEW p \in providers PROVE p.hash \in Dir!Serving
      OBVIOUS
  <2>1. p.name \in Name /\ BrandRow(p) \in Brands[p.name] BY TheBrand
  <2>2. BrandRow(p).hash = p.hash BY DEF BrandRow
  <2> QED BY <1>2, <2>1, <2>2
<1>6. \A h \in Dir!Serving : \E p \in providers : p.hash = h
  <2>1. \A n \in Name : \A b \in Brands[n] : \E p \in providers : b.hash = p.hash
      BY DEF Brands, BrandRow, Called
  <2> QED BY <1>2, <2>1
<1> QED BY <1>3, <1>4, <1>5, <1>6 DEF UserHashes, ProviderHashes

\* What the directory does not show.
LEMMA Unseen ==
    ASSUME UNCHANGED tables
    PROVE  UNCHANGED Dir!dirVars
BY DEF tables, Dir!dirVars, ById, Called

-----------------------------------------------------------------------------
(* One lemma for each handler that writes                                  *)

DirStep == [Dir!Next]_(Dir!dirVars)

\* The actions of the directory are its steps.
LEMMA AccountSteps ==
    ASSUME NEW id \in UserId
    PROVE  /\ \A h \in UserHash : Dir!Enrol(id, h) => DirStep
           /\ \A p \in ProviderHash : Dir!Invite(id, p) => DirStep
           /\ \A a \in Dir!Account :
                  /\ \A on \in BOOLEAN : Dir!SetAccount(id, a, on) => DirStep
                  /\ Dir!Leave(id, a) => DirStep
                  /\ \A p \in ProviderHash : Dir!Redeem(id, a, p) => DirStep
BY DEF DirStep, Dir!Next

LEMMA BrandSteps ==
    ASSUME NEW n \in Name
    PROVE  /\ \A p \in ProviderHash, h \in UserHash : Dir!Register(n, p, h) => DirStep
           /\ \A b \in Dir!Brand :
                  /\ \A on \in BOOLEAN : Dir!SetBrand(n, b, on) => DirStep
                  /\ \A m \in Name : Dir!Rename(n, m, b) => DirStep
                  /\ Dir!Close(n, b) => DirStep
BY DEF DirStep, Dir!Next

\* An account comes in under an id that had none.
LEMMA InsertUserImplements ==
    ASSUME Typed, Keyed, NEW r \in Request, InsertUser(r)
    PROVE  DirStep
<1>a. req[r].id \in UserId
  <2>1. req[r] \in Active /\ Fields(req[r])
      BY StepIsReady, ReadyIsActive DEF InsertUser
  <2> QED BY <2>1 DEF InsertUser, Fields, NeedsId
<1>0. PICK id \in UserId : id = req[r].id
    BY <1>a
<1>1. CASE UNCHANGED <<users, spent>>
  <2>1. UNCHANGED tables BY <1>1 DEF InsertUser, tables
  <2> QED BY <2>1, Unseen DEF DirStep
<1>2. ASSUME NEW h \in UserHash,
             UserFits([hash |-> h, id |-> id, active |-> TRUE]),
             users' = users \cup {[hash |-> h, id |-> id, active |-> TRUE]},
             spent' = spent \cup {h}
      PROVE  DirStep
  <2> DEFINE u == [hash |-> h, id |-> id, active |-> TRUE]
  <2>1. u.id = id /\ AccountRow(u) = [hash |-> h, active |-> TRUE]
      BY DEF AccountRow
  <2>2. users' = users \cup {u} /\ u.hash = h BY <1>2
  <2>3. h \notin spent /\ ById(id) = {} BY <1>2 DEF UserFits
  <2> HIDE DEF u
  <2>4. ById(id)' = {u} /\ \A x \in UserId \ {id} : ById(x)' = ById(x)
      BY <2>1, <2>2, <2>3 DEF ById
  <2>5. Accs' = [Accs EXCEPT ![id] = {AccountRow(x) : x \in ById(id)'}]
      BY <1>0, <2>4, OneAccount
  <2>6. Accs' = [Accs EXCEPT ![id] = {[hash |-> h, active |-> TRUE]}]
      BY <2>1, <2>4, <2>5
  <2>7. Accs[id] = {}
      BY <1>0, <2>3 DEF Accs
  <2>8. Brands' = Brands /\ UNCHANGED <<invited, connected>>
      BY DEF InsertUser, Brands, Called
  <2>9. Dir!Enrol(id, h)
      BY <1>2, <2>3, <2>6, <2>7, <2>8 DEF Dir!Enrol, Accs, Brands, AccountRow, BrandRow
  <2> QED BY <2>9, AccountSteps
<1> QED BY <1>0, <1>1, <1>2 DEF InsertUser

\* The switch is set for the one account with the hash, if it is still there.
LEMMA UpdateUserImplements ==
    ASSUME Typed, Keyed, NEW r \in Request, UpdateUser(r)
    PROVE  DirStep
<1>a. req[r] \in Active
    BY StepIsReady, ReadyIsActive DEF UpdateUser
<1>0. PICK on \in BOOLEAN : on = req[r].on
    BY <1>a DEF Active
<1>b. PICK h : h = req[r].h
    OBVIOUS
<1> DEFINE f(u) == IF u.hash = h THEN [u EXCEPT !.active = on] ELSE u
<1>1. users' = {f(u) : u \in users} /\ UNCHANGED <<providers, connected, spent, invited>>
    BY <1>0, <1>b DEF UpdateUser
<1>2. ASSUME \A u \in users : u.hash # h PROVE DirStep
  <2>1. \A u \in users : f(u) = u BY <1>2
  <2> HIDE DEF f
  <2>2. users' = users BY <1>1, <2>1
  <2> QED BY <1>1, <2>2, Unseen DEF tables, DirStep
<1>3. ASSUME NEW u \in users, u.hash = h PROVE DirStep
  <2> DEFINE id == u.id
             a == AccountRow(u)
  <2>1. /\ f(u).id = id /\ AccountRow(f(u)) = [a EXCEPT !.active = on]
        /\ \A v \in users : f(v).id = v.id /\ (v # u => f(v) = v)
      BY <1>3 DEF AccountRow, Typed, TypeOK, User, Keyed, KeysHold
  <2>2. id \in UserId /\ ById(id) = {u} /\ Accs[id] = {a} /\ a \in Dir!Account
      BY TheAccount
  <2> HIDE DEF f
  <2>3. \A x \in UserId : ById(x)' = {f(v) : v \in ById(x)}
      BY <1>1, <2>1 DEF ById
  <2>4. \A x \in UserId \ {id} : ById(x)' = ById(x)
    <3> SUFFICES ASSUME NEW x \in UserId \ {id} PROVE ById(x)' = ById(x)
        OBVIOUS
    <3>1. \A v \in ById(x) : f(v) = v BY <2>1 DEF ById
    <3> QED BY <2>3, <3>1
  <2>5. ById(id)' = {f(u)}
      BY <2>2, <2>3
  <2> HIDE DEF a
  <2>6. Accs' = [Accs EXCEPT ![id] = {AccountRow(x) : x \in ById(id)'}]
      BY <2>2, <2>4, OneAccount
  <2>7. {AccountRow(x) : x \in ById(id)'} = {[a EXCEPT !.active = on]}
      BY <2>1, <2>5
  <2>8. Brands' = Brands
      BY <1>1 DEF Brands, Called
  <2>9. Dir!SetAccount(id, a, on)
      BY <1>1, <2>2, <2>6, <2>7, <2>8
      DEF Dir!SetAccount, Accs, Brands, AccountRow, BrandRow
  <2> QED BY <2>2, <2>9, AccountSteps
<1> QED BY <1>2, <1>3

\* The account leaves with the provider it owns by then, and with their connections.
LEMMA EraseUserImplements ==
    ASSUME Typed, Keyed, NEW r \in Request, EraseUser(r)
    PROVE  DirStep
<1>0. PICK h : h = req[r].h
    OBVIOUS
<1>1. /\ users' = {u \in users : u.hash # h}
      /\ providers' = {p \in providers : p.owner # h}
      /\ connected' = {c \in connected : /\ c[1] # h
                                         /\ \A p \in providers : p.owner = h => c[2] # p.hash}
      /\ UNCHANGED <<spent, invited>>
    BY <1>0 DEF EraseUser, Cut, Owned
<1>2. ASSUME \A u \in users : u.hash # h PROVE DirStep
  <2>1. users' = users BY <1>1, <1>2
  <2>2. \A p \in providers : p.owner # h
      BY <1>2 DEF Keyed, KeysHold, UserHashes
  <2>3. \A c \in connected : c[1] # h
      BY <1>2 DEF Keyed, KeysHold, UserHashes
  <2>4. providers' = providers /\ connected' = connected
      BY <1>1, <2>2, <2>3
  <2> QED BY <1>1, <2>1, <2>4, Unseen DEF tables, DirStep
<1>3. ASSUME NEW u \in users, u.hash = h PROVE DirStep
  <2>0. PICK id, a : id = u.id /\ a = AccountRow(u)
      OBVIOUS
  <2>1. id \in UserId /\ ById(id) = {u} /\ Accs[id] = {a} /\ a \in Dir!Account
      BY <2>0, TheAccount
  <2>2. a.hash = h BY <1>3, <2>0 DEF AccountRow
  <2>3. \A v \in users : v.hash = h => v = u
      BY <1>3 DEF Keyed, KeysHold
  <2>4. ById(id)' = {} /\ \A x \in UserId \ {id} : ById(x)' = ById(x)
      BY <1>1, <1>3, <2>0, <2>1, <2>3 DEF ById
  <2>5. Accs' = [Accs EXCEPT ![id] = {AccountRow(x) : x \in ById(id)'}]
      BY <2>1, <2>4, OneAccount
  <2>6. Accs' = [Accs EXCEPT ![id] = {}]
      BY <2>4, <2>5
  <2>7. Brands' = [n \in Name |-> {b \in Brands[n] : b.owner # a.hash}]
    <3>1. \A n \in Name : Called(n)' = {p \in Called(n) : p.owner # h}
        BY <1>1 DEF Called
    <3>2. \A n \in Name : {BrandRow(p) : p \in Called(n)'}
                              = {b \in Brands[n] : b.owner # h}
      <4> SUFFICES ASSUME NEW n \in Name
                   PROVE  {BrandRow(p) : p \in {x \in Called(n) : x.owner # h}}
                              = {b \in {BrandRow(p) : p \in Called(n)} : b.owner # h}
          BY <3>1 DEF Brands
      <4>1. \A p : BrandRow(p).owner = p.owner BY DEF BrandRow
      <4> QED BY <4>1
    <3>3. Brands' = [n \in Name |-> {BrandRow(p) : p \in Called(n)'}]
        BY DEF Brands, BrandRow
    <3> QED BY <2>2, <3>2, <3>3
  <2>8. connected' = {c \in connected :
                        /\ c[1] # a.hash
                        /\ \A n \in Name : \A b \in Brands[n] :
                               b.hash = c[2] => b.owner # a.hash}
    <3>1. ASSUME NEW c
          PROVE  (\A p \in providers : p.owner = h => c[2] # p.hash)
                   <=> (\A n \in Name : \A b \in Brands[n] : b.hash = c[2] => b.owner # h)
      <4>1. \A p \in providers : \E n \in Name : \E b \in Brands[n] :
                b.hash = p.hash /\ b.owner = p.owner
        <5> SUFFICES ASSUME NEW p \in providers
                     PROVE  \E n \in Name : \E b \in Brands[n] :
                                b.hash = p.hash /\ b.owner = p.owner
            OBVIOUS
        <5>1. p.name \in Name /\ BrandRow(p) \in Brands[p.name] BY TheBrand
        <5>2. BrandRow(p).hash = p.hash /\ BrandRow(p).owner = p.owner BY DEF BrandRow
        <5> QED BY <5>1, <5>2
      <4>2. \A n \in Name : \A b \in Brands[n] : \E p \in providers :
                b.hash = p.hash /\ b.owner = p.owner
          BY DEF Brands, BrandRow, Called
      <4> QED BY <4>1, <4>2
    <3> QED BY <1>1, <2>2, <3>1
  <2>9. Dir!Leave(id, a)
      BY <1>1, <2>1, <2>6, <2>7, <2>8 DEF Dir!Leave, Accs, Brands, AccountRow, BrandRow
  <2> QED BY <2>1, <2>9, AccountSteps
<1> QED BY <1>2, <1>3

\* A provider comes in under a name that was free, for an account without one.
LEMMA InsertProviderImplements ==
    ASSUME Typed, Keyed, NEW r \in Request, InsertProvider(r)
    PROVE  DirStep
<1>a. req[r].h \in UserHash /\ req[r].name \in Name
  <2>1. req[r] \in Active /\ Fields(req[r])
      BY StepIsReady, ReadyIsActive DEF InsertProvider
  <2> QED BY <2>1 DEF InsertProvider, Fields, NeedsHash, NeedsName
<1>0. PICK h \in UserHash, n \in Name : h = req[r].h /\ n = req[r].name
    BY <1>a
<1>1. CASE UNCHANGED <<providers, spent>>
  <2>1. UNCHANGED tables BY <1>1 DEF InsertProvider, tables
  <2> QED BY <2>1, Unseen DEF DirStep
<1>2. ASSUME NEW p \in ProviderHash \ spent, ProviderFits(h, n),
             providers' = providers \cup
                 {[hash |-> p, owner |-> h, name |-> n, active |-> TRUE]},
             spent' = spent \cup {p}
      PROVE  DirStep
  <2> DEFINE x == [hash |-> p, owner |-> h, name |-> n, active |-> TRUE]
  <2>1. x.name = n /\ BrandRow(x) = [hash |-> p, owner |-> h, active |-> TRUE]
      BY DEF BrandRow
  <2>2. providers' = providers \cup {x} BY <1>2
  <2>3. h \in Dir!Known /\ Called(n) = {} /\ \A y \in providers : y.owner # h
      BY <1>2, KnownAndServing DEF ProviderFits, Owned
  <2> HIDE DEF x
  <2>4. Called(n)' = {x} /\ \A m \in Name \ {n} : Called(m)' = Called(m)
      BY <2>1, <2>2, <2>3 DEF Called
  <2>5. Brands' = [Brands EXCEPT ![n] = {BrandRow(y) : y \in Called(n)'}]
      BY <2>4, OneBrand
  <2>6. {BrandRow(y) : y \in Called(n)'} = {[hash |-> p, owner |-> h, active |-> TRUE]}
      BY <2>1, <2>4
  <2>7. Brands[n] = {} /\ \A m \in Name : \A b \in Brands[m] : b.owner # h
      BY <2>3 DEF Brands, BrandRow, Called
  <2>8. Accs' = Accs /\ UNCHANGED <<invited, connected>>
      BY DEF InsertProvider, Accs, ById
  <2>9. Dir!Register(n, p, h)
      BY <1>2, <2>3, <2>5, <2>6, <2>7, <2>8
      DEF Dir!Register, Accs, Brands, AccountRow, BrandRow
  <2> QED BY <2>9, BrandSteps
<1> QED BY <1>0, <1>1, <1>2 DEF InsertProvider

\* The switch is set for the one provider with the hash, if it is still there.
LEMMA SetProviderImplements ==
    ASSUME Typed, Keyed, NEW r \in Request, SetProvider(r)
    PROVE  DirStep
<1>a. req[r] \in Active
    BY StepIsReady, ReadyIsActive DEF SetProvider
<1>0. PICK on \in BOOLEAN : on = req[r].on
    BY <1>a DEF Active
<1>b. PICK h : h = req[r].p
    OBVIOUS
<1> DEFINE f(p) == IF p.hash = h THEN [p EXCEPT !.active = on] ELSE p
<1>1. providers' = {f(p) : p \in providers} /\ UNCHANGED <<users, connected, spent, invited>>
    BY <1>0, <1>b DEF SetProvider
<1>2. ASSUME \A p \in providers : p.hash # h PROVE DirStep
  <2>1. \A p \in providers : f(p) = p BY <1>2
  <2> HIDE DEF f
  <2>2. providers' = providers BY <1>1, <2>1
  <2> QED BY <1>1, <2>2, Unseen DEF tables, DirStep
<1>3. ASSUME NEW p \in providers, p.hash = h PROVE DirStep
  <2> DEFINE n == p.name
             b == BrandRow(p)
  <2>1. /\ f(p).name = n /\ BrandRow(f(p)) = [b EXCEPT !.active = on]
        /\ \A q \in providers : f(q).name = q.name /\ (q # p => f(q) = q)
      BY <1>3 DEF BrandRow, Typed, TypeOK, Provider, Keyed, KeysHold
  <2>2. n \in Name /\ Called(n) = {p} /\ Brands[n] = {b} /\ b \in Dir!Brand
      BY TheBrand
  <2> HIDE DEF f
  <2>3. \A m \in Name : Called(m)' = {f(q) : q \in Called(m)}
      BY <1>1, <2>1 DEF Called
  <2>4. \A m \in Name \ {n} : Called(m)' = Called(m)
    <3> SUFFICES ASSUME NEW m \in Name \ {n} PROVE Called(m)' = Called(m)
        OBVIOUS
    <3>1. \A q \in Called(m) : f(q) = q BY <2>1 DEF Called
    <3> QED BY <2>3, <3>1
  <2>5. Called(n)' = {f(p)}
      BY <2>2, <2>3
  <2> HIDE DEF b
  <2>6. Brands' = [Brands EXCEPT ![n] = {BrandRow(x) : x \in Called(n)'}]
      BY <2>2, <2>4, OneBrand
  <2>7. {BrandRow(x) : x \in Called(n)'} = {[b EXCEPT !.active = on]}
      BY <2>1, <2>5
  <2>8. Accs' = Accs
      BY <1>1 DEF Accs, ById
  <2>9. Dir!SetBrand(n, b, on)
      BY <1>1, <2>2, <2>6, <2>7, <2>8 DEF Dir!SetBrand, Accs, Brands, AccountRow, BrandRow
  <2> QED BY <2>2, <2>9, BrandSteps
<1> QED BY <1>2, <1>3

\* The provider moves to a name that is free by then, or keeps the one it has.
LEMMA RenameProviderImplements ==
    ASSUME Typed, Keyed, NEW r \in Request, RenameProvider(r)
    PROVE  DirStep
<1>a. req[r].name \in Name
  <2>1. req[r] \in Active /\ Fields(req[r])
      BY StepIsReady, ReadyIsActive DEF RenameProvider
  <2> QED BY <2>1 DEF RenameProvider, Fields, NeedsName
<1>0. PICK m \in Name : m = req[r].name
    BY <1>a
<1>b. PICK h : h = req[r].p
    OBVIOUS
<1> DEFINE f(p) == IF p.hash = h THEN [p EXCEPT !.name = m] ELSE p
<1>1. UNCHANGED <<users, connected, spent, invited>>
    BY DEF RenameProvider
<1>2. ASSUME providers' = providers PROVE DirStep
    BY <1>1, <1>2, Unseen DEF tables, DirStep
<1>3. ASSUME NameFits(h, m), providers' = {f(p) : p \in providers} PROVE DirStep
  <2>1. ASSUME \A p \in providers : f(p) = p PROVE DirStep
    <3> HIDE DEF f
    <3> QED BY <1>2, <1>3, <2>1
  <2>2. ASSUME NEW p \in providers, f(p) # p PROVE DirStep
    <3> DEFINE n == p.name
               b == BrandRow(p)
    <3>1. p.hash = h /\ n # m
        BY <2>2 DEF Typed, TypeOK, Provider
    <3>2. /\ f(p).name = m /\ BrandRow(f(p)) = b
          /\ \A q \in providers : q # p => f(q) = q
        BY <3>1 DEF BrandRow, Typed, TypeOK, Provider, Keyed, KeysHold
    <3>3. n \in Name /\ Called(n) = {p} /\ Brands[n] = {b} /\ b \in Dir!Brand
        BY TheBrand
    <3>4. Called(m) = {}
        BY <1>3, <3>1 DEF NameFits, Called, ByHash, Keyed, KeysHold
    <3> HIDE DEF f
    <3>5. providers' = (providers \ {p}) \cup {f(p)}
        BY <1>3, <3>2
    <3>6. /\ Called(n)' = {} /\ Called(m)' = {f(p)}
          /\ \A x \in Name \ {n, m} : Called(x)' = Called(x)
        BY <3>1, <3>2, <3>3, <3>4, <3>5 DEF Called
    <3> HIDE DEF b
    <3>7. /\ {BrandRow(x) : x \in Called(n)'} = {} /\ {BrandRow(x) : x \in Called(m)'} = {b}
          /\ \A y \in Name \ {n, m} : {BrandRow(x) : x \in Called(y)'} = Brands[y]
        BY <3>2, <3>6 DEF Brands
    <3> DEFINE new(y) == {BrandRow(x) : x \in Called(y)'}
    <3>8. Brands' = [y \in Name |-> new(y)]
        BY DEF Brands, BrandRow
    <3>9. Brands' = [Brands EXCEPT ![n] = {}, ![m] = {b}]
      <4>1. new(n) = {} /\ new(m) = {b} /\ \A y \in Name \ {n, m} : new(y) = Brands[y]
          BY <3>7
      <4>2. Brands = [y \in Name |-> Brands[y]]
          BY DEF Brands
      <4> HIDE DEF new
      <4> QED BY <3>1, <3>8, <4>1, <4>2
    <3>10. Brands[m] = {}
        BY <3>4 DEF Brands
    <3>11. Accs' = Accs
        BY <1>1 DEF Accs, ById
    <3>12. Dir!Rename(n, m, b)
        BY <1>1, <3>3, <3>9, <3>10, <3>11
        DEF Dir!Rename, Accs, Brands, AccountRow, BrandRow
    <3> QED BY <3>3, <3>12, BrandSteps
  <2> QED BY <2>1, <2>2
<1>4. \/ providers' = providers
      \/ NameFits(h, m) /\ providers' = {f(p) : p \in providers}
    BY <1>0, <1>b DEF RenameProvider
<1> QED BY <1>2, <1>3, <1>4

\* The provider closes with its connections, if it is still there.
LEMMA EraseProviderImplements ==
    ASSUME Typed, Keyed, NEW r \in Request, EraseProvider(r)
    PROVE  DirStep
<1>0. PICK h : h = req[r].p
    OBVIOUS
<1>1. /\ providers' = {p \in providers : p.hash # h}
      /\ connected' = {c \in connected : c[2] # h}
      /\ UNCHANGED <<users, spent, invited>>
    BY <1>0 DEF EraseProvider, ByHash
<1>2. ASSUME \A p \in providers : p.hash # h PROVE DirStep
  <2>1. \A c \in connected : c[2] # h
      BY <1>2 DEF Keyed, KeysHold, ProviderHashes
  <2>2. providers' = providers /\ connected' = connected
      BY <1>1, <1>2, <2>1
  <2> QED BY <1>1, <2>2, Unseen DEF tables, DirStep
<1>3. ASSUME NEW p \in providers, p.hash = h PROVE DirStep
  <2>0. PICK n, b : n = p.name /\ b = BrandRow(p)
      OBVIOUS
  <2>1. n \in Name /\ Called(n) = {p} /\ Brands[n] = {b} /\ b \in Dir!Brand
      BY <2>0, TheBrand
  <2>2. b.hash = h BY <1>3, <2>0 DEF BrandRow
  <2>3. \A q \in providers : q.hash = h => q = p
      BY <1>3 DEF Keyed, KeysHold
  <2>4. Called(n)' = {} /\ \A x \in Name \ {n} : Called(x)' = Called(x)
      BY <1>1, <1>3, <2>0, <2>1, <2>3 DEF Called
  <2>5. Brands' = [Brands EXCEPT ![n] = {BrandRow(x) : x \in Called(n)'}]
      BY <2>1, <2>4, OneBrand
  <2>6. Brands' = [Brands EXCEPT ![n] = {}]
      BY <2>4, <2>5
  <2>7. Accs' = Accs
      BY <1>1 DEF Accs, ById
  <2>8. Dir!Close(n, b)
      BY <1>1, <2>1, <2>2, <2>6, <2>7 DEF Dir!Close, Accs, Brands, AccountRow, BrandRow
  <2> QED BY <2>1, <2>8, BrandSteps
<1> QED BY <1>2, <1>3

\* A link is handed out for an id without an account, by a provider that was drawn.
LEMMA HandOutImplements ==
    ASSUME Typed, Keyed, RecallsAll, NEW r \in Request, HandOut(r)
    PROVE  DirStep
<1>a. req[r].id \in UserId /\ req[r].p \in ProviderHash /\ req[r].p \in spent
  <2>1. req[r] \in Active /\ Fields(req[r])
      BY StepIsReady, ReadyIsActive DEF HandOut
  <2>2. Recalls(req[r])
      BY DEF RecallsAll
  <2> QED BY <2>1, <2>2 DEF HandOut, Fields, NeedsId, NeedsProvider, Recalls
<1>0. PICK id \in UserId, p \in ProviderHash : id = req[r].id /\ p = req[r].p
    BY <1>a
<1>1. UNCHANGED <<users, providers, connected, spent>>
    BY DEF HandOut
<1>2. CASE ById(id) = {}
  <2>1. invited' = invited \cup {<<id, p>>}
      BY <1>0, <1>2 DEF HandOut
  <2>2. Accs[id] = {}
      BY <1>2 DEF Accs
  <2>3. Accs' = Accs /\ Brands' = Brands
      BY <1>1 DEF Accs, ById, Brands, Called
  <2>4. p \in spent
      BY <1>a, <1>0
  <2>5. Dir!Invite(id, p)
      BY <1>1, <2>1, <2>2, <2>3, <2>4
      DEF Dir!Invite, Accs, Brands, AccountRow, BrandRow
  <2> QED BY <2>5, AccountSteps
<1>3. CASE ById(id) # {}
  <2>1. UNCHANGED tables
      BY <1>0, <1>1, <1>3 DEF HandOut, tables
  <2> QED BY <2>1, Unseen DEF DirStep
<1> QED BY <1>2, <1>3

\* The row that is written connects the holder of the id with the provider that handed
\* the link out.
LEMMA InsertAuthImplements ==
    ASSUME Typed, Keyed, RecallsAll, NEW r \in Request, InsertAuth(r)
    PROVE  DirStep
<1> DEFINE q == req[r]
<1>1. UNCHANGED <<users, providers, spent, invited>>
    BY DEF InsertAuth
<1>2. CASE connected' = connected
  <2>1. UNCHANGED tables BY <1>1, <1>2 DEF tables
  <2> QED BY <2>1, Unseen DEF DirStep
<1>3. CASE /\ q.h \in UserHashes /\ q.p \in ProviderHashes
           /\ connected' = connected \cup {<<q.h, q.p>>}
  <2>1. /\ q.ticket \in invited \cup {None} /\ q.ticket = <<q.id, q.p>>
        /\ \A u \in users : u.hash = q.h => u.id = q.id
      BY DEF RecallsAll, Recalls, InsertAuth, HasTicket, HasUser
  <2>2. q.id \in UserId /\ q.p \in ProviderHash
    <3>1. q \in Active /\ Fields(q)
        BY StepIsReady, ReadyIsActive DEF InsertAuth
    <3> QED BY <3>1 DEF InsertAuth, Fields, NeedsId, NeedsProvider
  <2>3. <<q.id, q.p>> \in invited
      BY <2>1, <2>2, AccountsAssumption
  <2>4. PICK u \in users : u.hash = q.h /\ u.id = q.id
      BY <1>3, <2>1 DEF UserHashes
  <2>5. PICK id, p, a : id = u.id /\ p = q.p /\ a = AccountRow(u)
      OBVIOUS
  <2>6. id \in UserId /\ Accs[id] = {a} /\ a \in Dir!Account
      BY <2>5, TheAccount
  <2>7. p \in ProviderHash /\ p \in Dir!Serving /\ <<id, p>> \in invited
      BY <1>3, <2>2, <2>3, <2>4, <2>5, KnownAndServing
  <2>8. connected' = connected \cup {<<a.hash, p>>}
      BY <1>3, <2>4, <2>5 DEF AccountRow
  <2>9. Accs' = Accs /\ Brands' = Brands
      BY <1>1 DEF Accs, ById, Brands, Called
  <2>10. Dir!Redeem(id, a, p)
      BY <1>1, <2>6, <2>7, <2>8, <2>9
      DEF Dir!Redeem, Accs, Brands, AccountRow, BrandRow
  <2> QED BY <2>6, <2>7, <2>10, AccountSteps
<1> QED BY <1>2, <1>3 DEF InsertAuth

\* A row that is dropped is forgotten.
LEMMA ForgetImplements ==
    ASSUME Forget
    PROVE  DirStep
<1>1. PICK c \in connected : connected' = connected \ {c}
    BY DEF Forget
<1>2. Accs' = Accs /\ Brands' = Brands /\ UNCHANGED <<spent, invited>>
    BY DEF Forget, Accs, ById, Brands, Called
<1>3. Dir!Forget(c)
    BY <1>1, <1>2 DEF Dir!Forget, Accs, Brands, AccountRow, BrandRow
<1> QED BY <1>3 DEF DirStep, Dir!Next

\* The other steps read.
LEMMA ReadsImplement ==
    ASSUME Typed, NEW r \in Request,
           \/ Arrive(r) \/ Abort(r) \/ LoadOwned(r) \/ CheckName(r)
           \/ RelayFind(r) \/ RelayCheck(r) \/ FindAuth(r)
    PROVE  DirStep
<1>1. UNCHANGED tables
    BY ArriveReady
    DEF Begin, Abort, LoadOwned, CheckName, RelayFind, RelayCheck, FindAuth
<1> QED BY <1>1, Unseen DEF DirStep

-----------------------------------------------------------------------------
(* The theorem                                                             *)

LEMMA InitImplements ==
    ASSUME Init
    PROVE  Dir!Init
BY DEF Init, Dir!Init, ById, Called

LEMMA NextImplements ==
    ASSUME Typed, Keyed, RecallsAll, [Next]_vars
    PROVE  DirStep
<1>1. CASE UNCHANGED vars
  <2>1. UNCHANGED tables BY <1>1 DEF vars, tables
  <2> QED BY <2>1, Unseen DEF DirStep
<1>2. CASE Forget
    BY <1>2, ForgetImplements
<1>3. ASSUME NEW r \in Request, UserStep(r) PROVE DirStep
    BY <1>3, InsertUserImplements, UpdateUserImplements, ReadsImplement, EraseUserImplements
    DEF UserStep
<1>4. ASSUME NEW r \in Request, ProviderStep(r) PROVE DirStep
    BY <1>4, InsertProviderImplements, SetProviderImplements, ReadsImplement,
       RenameProviderImplements, EraseProviderImplements
    DEF ProviderStep
<1>5. ASSUME NEW r \in Request, InviteStep(r) PROVE DirStep
    BY <1>5, HandOutImplements, ReadsImplement, InsertAuthImplements DEF InviteStep
<1> QED BY <1>1, <1>2, <1>3, <1>4, <1>5, ReadsImplement DEF Next

\* The handlers implement the directory, for any number of requests, users, providers
\* and names: whatever is interleaved between the queries of a request, it takes effect
\* at one instant or not at all.
THEOREM HandlersImplementDirectory == Spec => DirectorySpec
<1>1. Typed /\ Keyed /\ RecallsAll /\ [Next]_vars => [Dir!Next]_(Dir!dirVars)
    BY NextImplements DEF DirStep
<1>2. Init => Dir!Init
    BY InitImplements
<1> QED BY <1>1, <1>2, TypedAlways, KeyedAlways, RecallsAlways, PTL
        DEF Spec, DirectorySpec, Dir!Spec

=============================================================================
