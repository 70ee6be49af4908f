--------------------------- MODULE Accounts_proofs ---------------------------
(***************************************************************************)
(* Proofs about Accounts, for every set of ids, hashes, names and request  *)
(* slots.                                                                  *)
(***************************************************************************)
EXTENDS Accounts, TLAPS

-----------------------------------------------------------------------------
(* Types                                                                   *)

\* The fields that a request has set by the time it makes a step.
NeedsId == {"insertUser", "inviteFind", "relayFind", "relayCheck", "relayInsert",
            "findAuth", "insertAuth"}
NeedsHash == {"updateUser", "loadOwned", "eraseUser", "insertProvider", "findAuth",
              "insertAuth"}
NeedsProvider == {"setProvider", "checkName", "rename", "eraseProvider", "inviteFind",
                  "relayFind", "relayCheck", "relayInsert", "findAuth", "insertAuth"}
NeedsName == {"insertProvider", "checkName", "rename"}

Fields(q) ==
    /\ q.pc \in NeedsId => q.id \in UserId
    /\ q.pc \in NeedsHash => q.h \in UserHash
    /\ q.pc \in NeedsProvider => q.p \in ProviderHash
    /\ q.pc \in NeedsName => q.name \in Name
Ready == {q \in Active : Fields(q)}
ReadyReq == req \in [Request -> {Idle} \cup Ready]

\* The inductive form of TypeOK: a request without its fields could write None.
Typed == TypeOK /\ ReadyReq

LEMMA StepIsReady ==
    ASSUME Typed, NEW r \in Request, req[r].pc # "idle"
    PROVE  req[r] \in Ready
BY DEF Typed, ReadyReq, Idle

LEMMA ReadyIsActive ==
    ASSUME NEW q \in Ready
    PROVE  q \in Active /\ Fields(q)
BY DEF Ready

LEMMA ReadyIsType ==
    ASSUME ReadyReq
    PROVE  req \in [Request -> {Idle} \cup Active]
BY DEF ReadyReq, Ready

LEMMA ArriveReady ==
    ASSUME Typed, NEW r \in Request, Arrive(r)
    PROVE  \E q \in Ready : /\ Begin(r, q)
                             /\ q.pc # "eraseUser"
<1> DEFINE G == \E q \in Ready : Begin(r, q) /\ q.pc # "eraseUser"
<1> SUFFICES G OBVIOUS
<1> USE DEF Typed
<1>1. ASSUME NEW id \in UserId, CreateUser(r, id) PROVE G
  <2> DEFINE q == [At("insertUser") EXCEPT !.id = id]
  <2>1. q \in Ready /\ q.pc # "eraseUser" BY DEF At, Active, Step, Ready, Fields, NeedsId, NeedsHash,
                          NeedsProvider, NeedsName
  <2> QED BY <1>1, <2>1 DEF CreateUser
<1>2. ASSUME NEW id \in UserId, SetUserActive(r, id) PROVE G
  <2>1. PICK u \in ById(id) :
            Begin(r, [At("updateUser") EXCEPT !.h = u.hash, !.on = ~u.active])
      BY <1>2 DEF SetUserActive
  <2> DEFINE q == [At("updateUser") EXCEPT !.h = u.hash, !.on = ~u.active]
  <2>2. u.hash \in UserHash BY DEF ById, TypeOK, User
  <2>3. q \in Ready /\ q.pc # "eraseUser" BY <2>2 DEF At, Active, Step, Ready, Fields, NeedsId, NeedsHash,
                          NeedsProvider, NeedsName
  <2> QED BY <2>1, <2>3
<1>3. ASSUME NEW id \in UserId, DeleteUser(r, id) PROVE G
  <2>1. PICK u \in ById(id) : Begin(r, [At("loadOwned") EXCEPT !.h = u.hash])
      BY <1>3 DEF DeleteUser
  <2> DEFINE q == [At("loadOwned") EXCEPT !.h = u.hash]
  <2>2. u.hash \in UserHash BY DEF ById, TypeOK, User
  <2>3. q \in Ready /\ q.pc # "eraseUser" BY <2>2 DEF At, Active, Step, Ready, Fields, NeedsId, NeedsHash,
                          NeedsProvider, NeedsName
  <2> QED BY <2>1, <2>3
<1>4. ASSUME NEW id \in UserId, CreateConnection(r, id) PROVE G
  <2>1. PICK p \in providers : Begin(r, [At("inviteFind") EXCEPT !.id = id, !.p = p.hash])
      BY <1>4 DEF CreateConnection
  <2> DEFINE q == [At("inviteFind") EXCEPT !.id = id, !.p = p.hash]
  <2>2. p.hash \in ProviderHash BY DEF TypeOK, Provider
  <2>3. q \in Ready /\ q.pc # "eraseUser" BY <2>2 DEF At, Active, Step, Ready, Fields, NeedsId, NeedsHash,
                          NeedsProvider, NeedsName
  <2> QED BY <2>1, <2>3
<1>5. ASSUME NEW id \in UserId, NEW n \in Name, ProcessRequest(r, id, n) PROVE G
  <2>1. PICK p \in Called(n), t \in invited \cup {None} :
            Begin(r, [At("relayFind") EXCEPT !.id = id, !.p = p.hash, !.ticket = t])
      BY <1>5 DEF ProcessRequest
  <2> DEFINE q == [At("relayFind") EXCEPT !.id = id, !.p = p.hash, !.ticket = t]
  <2>2. p.hash \in ProviderHash /\ t \in (UserId \X ProviderHash) \cup {None}
      BY DEF Called, TypeOK, Provider
  <2>3. q \in Ready /\ q.pc # "eraseUser" BY <2>2 DEF At, Active, Step, Ready, Fields, NeedsId, NeedsHash,
                          NeedsProvider, NeedsName
  <2> QED BY <2>1, <2>3
<1>6. ASSUME NEW n \in Name, CreateProvider(r, n) PROVE G
  <2>1. PICK h \in spent \cap UserHash :
            Begin(r, [At("insertProvider") EXCEPT !.h = h, !.name = n])
      BY <1>6 DEF CreateProvider
  <2> DEFINE q == [At("insertProvider") EXCEPT !.h = h, !.name = n]
  <2>3. q \in Ready /\ q.pc # "eraseUser" BY DEF At, Active, Step, Ready, Fields, NeedsId, NeedsHash,
                          NeedsProvider, NeedsName
  <2> QED BY <2>1, <2>3
<1>7. ASSUME NEW n \in Name, UpdateProviderName(r, n) PROVE G
  <2>1. PICK p \in providers : Begin(r, [At("checkName") EXCEPT !.p = p.hash, !.name = n])
      BY <1>7 DEF UpdateProviderName
  <2> DEFINE q == [At("checkName") EXCEPT !.p = p.hash, !.name = n]
  <2>2. p.hash \in ProviderHash BY DEF TypeOK, Provider
  <2>3. q \in Ready /\ q.pc # "eraseUser" BY <2>2 DEF At, Active, Step, Ready, Fields, NeedsId, NeedsHash,
                          NeedsProvider, NeedsName
  <2> QED BY <2>1, <2>3
<1>8. CASE SetProviderActive(r)
  <2>1. PICK p \in providers :
            Begin(r, [At("setProvider") EXCEPT !.p = p.hash, !.on = ~p.active])
      BY <1>8 DEF SetProviderActive
  <2> DEFINE q == [At("setProvider") EXCEPT !.p = p.hash, !.on = ~p.active]
  <2>2. p.hash \in ProviderHash BY DEF TypeOK, Provider
  <2>3. q \in Ready /\ q.pc # "eraseUser" BY <2>2 DEF At, Active, Step, Ready, Fields, NeedsId, NeedsHash,
                          NeedsProvider, NeedsName
  <2> QED BY <2>1, <2>3
<1>9. CASE DeleteProvider(r)
  <2>1. PICK p \in providers : Begin(r, [At("eraseProvider") EXCEPT !.p = p.hash])
      BY <1>9 DEF DeleteProvider
  <2> DEFINE q == [At("eraseProvider") EXCEPT !.p = p.hash]
  <2>2. p.hash \in ProviderHash BY DEF TypeOK, Provider
  <2>3. q \in Ready /\ q.pc # "eraseUser" BY <2>2 DEF At, Active, Step, Ready, Fields, NeedsId, NeedsHash,
                          NeedsProvider, NeedsName
  <2> QED BY <2>1, <2>3
<1> QED BY <1>1, <1>2, <1>3, <1>4, <1>5, <1>6, <1>7, <1>8, <1>9 DEF Arrive

\* What the handlers do to their own record.
LEMMA BeginTypes ==
    ASSUME Typed, NEW r \in Request, NEW q \in Ready, Begin(r, q)
    PROVE  Typed'
<1>1. ReadyReq'
    BY DEF Typed, ReadyReq, Begin
<1>2. req' \in [Request -> {Idle} \cup Active]
    BY <1>1 DEF ReadyReq, Ready
<1> QED BY <1>1, <1>2 DEF Typed, TypeOK, Begin, tables

LEMMA FinishTypes ==
    ASSUME Typed, NEW r \in Request, Finish(r)
    PROVE  ReadyReq' /\ req' \in [Request -> {Idle} \cup Active]
BY DEF Typed, ReadyReq, TypeOK, Finish

LEMMA GotoTypes ==
    ASSUME Typed, NEW r \in Request, req[r] \in Ready, NEW step \in Step,
           Goto(r, step), Fields([req[r] EXCEPT !.pc = step])
    PROVE  ReadyReq' /\ req' \in [Request -> {Idle} \cup Active]
<1>1. [req[r] EXCEPT !.pc = step] \in Active
    BY DEF Ready, Active
<1>2. [req[r] EXCEPT !.pc = step] \in Ready
    BY <1>1 DEF Ready
<1>3. req' = [req EXCEPT ![r] = [req[r] EXCEPT !.pc = step]]
    BY DEF Goto, Typed, ReadyReq
<1>4. ReadyReq'
    BY <1>2, <1>3 DEF Typed, ReadyReq
<1> QED BY <1>4 DEF ReadyReq, Ready

\* What a handler that writes does to the tables.
LEMMA UserStepTypes ==
    ASSUME Typed, NEW r \in Request, UserStep(r)
    PROVE  Typed'
<1>0. req[r] \in Ready /\ req[r] \in Active /\ Fields(req[r])
    BY StepIsReady, ReadyIsActive
    DEF UserStep, InsertUser, UpdateUser, LoadOwned, EraseUser
<1>1. CASE InsertUser(r)
  <2>0. req[r].id \in UserId
      BY <1>0, <1>1 DEF InsertUser, Fields, NeedsId
  <2>1. CASE ById(req[r].id) # {} /\ Finish(r) /\ UNCHANGED <<users, spent>>
      BY <1>1, <2>1, FinishTypes DEF InsertUser, TypeOK, Typed
  <2>2. ASSUME NEW h \in UserHash,
               users' = users \cup {[hash |-> h, id |-> req[r].id, active |-> TRUE]},
               spent' = spent \cup {h},
               IF req[r].pc = "relayInsert"
               THEN req' = [req EXCEPT ![r].h = h, ![r].pc = "findAuth"]
               ELSE Finish(r)
        PROVE  Typed'
    <3>1. ReadyReq' /\ req' \in [Request -> {Idle} \cup Active]
      <4>1. CASE req[r].pc = "relayInsert"
        <5> DEFINE q == [req[r] EXCEPT !.h = h, !.pc = "findAuth"]
        <5>1. req' = [req EXCEPT ![r] = q]
            BY <2>2, <4>1 DEF Typed, ReadyReq
        <5>2. q \in Active
            BY <1>0 DEF Active, Step
        <5>3. Fields(q)
            BY <1>0, <4>1 DEF Fields, NeedsId, NeedsHash, NeedsProvider, NeedsName, Active
        <5>4. q \in Ready BY <5>2, <5>3 DEF Ready
        <5> HIDE DEF q
        <5>5. ReadyReq' BY <5>1, <5>4 DEF Typed, ReadyReq
        <5> QED BY <5>5 DEF ReadyReq, Ready
      <4>2. CASE req[r].pc # "relayInsert"
          BY <2>2, <4>2, FinishTypes
      <4> QED BY <4>1, <4>2
    <3>2. users' \subseteq User
      <4> DEFINE u == [hash |-> h, id |-> req[r].id, active |-> TRUE]
      <4>1. u \in User BY <2>0 DEF User
      <4>2. users' = users \cup {u} BY <2>2
      <4> HIDE DEF u
      <4> QED BY <4>1, <4>2 DEF Typed, TypeOK
    <3> QED BY <1>1, <2>2, <3>1, <3>2 DEF InsertUser, TypeOK, Typed
  <2> QED BY <1>1, <2>1, <2>2 DEF InsertUser
<1>2. CASE UpdateUser(r)
  <2>1. req[r].on \in BOOLEAN BY <1>0 DEF Active
  <2>2. users' \subseteq User
      BY <2>1, <1>2 DEF UpdateUser, TypeOK, User, Typed
  <2> QED BY <1>2, <2>2, FinishTypes DEF UpdateUser, TypeOK, Typed
<1>3. CASE LoadOwned(r)
  <2>1. CASE MayLeave(req[r].h)
    <3> DEFINE q == [req[r] EXCEPT !.pc = "eraseUser", !.seen = spent \cap ProviderHash]
    <3>1. req' = [req EXCEPT ![r] = q]
        BY <1>3, <2>1 DEF LoadOwned, Typed, ReadyReq
    <3>2. q \in Active
        BY <1>0 DEF Active, Step
    <3>3. Fields(q)
        BY <1>0, <1>3 DEF Fields, NeedsId, NeedsHash, NeedsProvider, NeedsName, Active,
                          LoadOwned
    <3>4. q \in Ready BY <3>2, <3>3 DEF Ready
    <3> HIDE DEF q
    <3>5. ReadyReq' BY <3>1, <3>4 DEF Typed, ReadyReq
    <3>6. req' \in [Request -> {Idle} \cup Active]
        BY <3>5 DEF ReadyReq, Ready
    <3> QED BY <1>3, <3>5, <3>6 DEF LoadOwned, TypeOK, tables, Typed
  <2>2. CASE ~MayLeave(req[r].h)
      BY <1>3, <2>2, FinishTypes DEF LoadOwned, TypeOK, tables, Typed
  <2> QED BY <2>1, <2>2
<1>4. CASE EraseUser(r)
  <2>1. /\ users' \subseteq users /\ providers' \subseteq providers
        /\ connected' \subseteq connected /\ UNCHANGED <<spent, invited>>
      BY <1>4 DEF EraseUser, Cut
  <2> QED BY <1>4, <2>1, FinishTypes DEF EraseUser, TypeOK, Typed
<1> QED BY <1>1, <1>2, <1>3, <1>4 DEF UserStep

LEMMA ProviderStepTypes ==
    ASSUME Typed, NEW r \in Request, ProviderStep(r)
    PROVE  Typed'
<1>0. req[r] \in Ready /\ req[r] \in Active /\ Fields(req[r])
    BY StepIsReady, ReadyIsActive
    DEF ProviderStep, InsertProvider, SetProvider, CheckName, RenameProvider, EraseProvider
<1>1. CASE InsertProvider(r)
  <2>1. req[r].h \in UserHash /\ req[r].name \in Name
      BY <1>0, <1>1 DEF InsertProvider, Fields, NeedsHash, NeedsName
  <2>2. ASSUME NEW p \in ProviderHash \ spent,
               providers' = providers \cup
                   {[hash |-> p, owner |-> req[r].h, name |-> req[r].name, active |-> TRUE]},
               spent' = spent \cup {p}
        PROVE  providers' \subseteq Provider /\ spent' \subseteq UserHash \cup ProviderHash
    <3> DEFINE x == [hash |-> p, owner |-> req[r].h, name |-> req[r].name, active |-> TRUE]
    <3>1. x \in Provider BY <2>1 DEF Provider
    <3>2. providers' = providers \cup {x} BY <2>2
    <3> HIDE DEF x
    <3> QED BY <2>2, <3>1, <3>2 DEF Typed, TypeOK
  <2>3. providers' \subseteq Provider /\ spent' \subseteq UserHash \cup ProviderHash
      BY <1>1, <2>2 DEF InsertProvider, Typed, TypeOK
  <2> QED BY <1>1, <2>3, FinishTypes DEF InsertProvider, Typed, TypeOK
<1>2. CASE SetProvider(r)
  <2>1. req[r].on \in BOOLEAN BY <1>0 DEF Active
  <2>2. providers' \subseteq Provider
      BY <1>2, <2>1 DEF SetProvider, Typed, TypeOK, Provider
  <2> QED BY <1>2, <2>2, FinishTypes DEF SetProvider, Typed, TypeOK
<1>3. CASE CheckName(r)
  <2>1. CASE Goto(r, "rename")
    <3>1. Fields([req[r] EXCEPT !.pc = "rename"])
        BY <1>0, <1>3 DEF CheckName, Fields, NeedsId, NeedsHash, NeedsProvider, NeedsName,
                          Active
    <3>2. "rename" \in Step BY DEF Step
    <3> QED BY <1>0, <1>3, <2>1, <3>1, <3>2, GotoTypes DEF CheckName, Typed, TypeOK, tables
  <2>2. CASE Finish(r)
      BY <1>3, <2>2, FinishTypes DEF CheckName, Typed, TypeOK, tables
  <2> QED BY <1>3, <2>1, <2>2 DEF CheckName
<1>4. CASE RenameProvider(r)
  <2>1. req[r].name \in Name
      BY <1>0, <1>4 DEF RenameProvider, Fields, NeedsName
  <2>2. providers' \subseteq Provider
      BY <1>4, <2>1 DEF RenameProvider, Typed, TypeOK, Provider
  <2> QED BY <1>4, <2>2, FinishTypes DEF RenameProvider, Typed, TypeOK
<1>5. CASE EraseProvider(r)
    BY <1>5, FinishTypes DEF EraseProvider, Typed, TypeOK
<1> QED BY <1>1, <1>2, <1>3, <1>4, <1>5 DEF ProviderStep

LEMMA InviteStepTypes ==
    ASSUME Typed, NEW r \in Request, InviteStep(r)
    PROVE  Typed'
<1>0. req[r] \in Ready /\ req[r] \in Active /\ Fields(req[r])
    BY StepIsReady, ReadyIsActive
    DEF InviteStep, HandOut, RelayFind, RelayCheck, FindAuth, InsertAuth
<1>1. CASE HandOut(r)
  <2>1. req[r].id \in UserId /\ req[r].p \in ProviderHash
      BY <1>0, <1>1 DEF HandOut, Fields, NeedsId, NeedsProvider
  <2>2. invited' \subseteq UserId \X ProviderHash
      BY <1>1, <2>1 DEF HandOut, Typed, TypeOK
  <2> QED BY <1>1, <2>2, FinishTypes DEF HandOut, Typed, TypeOK
<1>2. CASE RelayFind(r)
  <2>1. CASE Goto(r, "relayCheck")
    <3>1. Fields([req[r] EXCEPT !.pc = "relayCheck"])
        BY <1>0, <1>2 DEF RelayFind, Fields, NeedsId, NeedsHash, NeedsProvider, NeedsName,
                          Active
    <3>2. "relayCheck" \in Step BY DEF Step
    <3> QED BY <1>0, <1>2, <2>1, <3>1, <3>2, GotoTypes DEF RelayFind, Typed, TypeOK, tables
  <2>2. ASSUME NEW u \in ById(req[r].id),
               req' = [req EXCEPT ![r].h = u.hash, ![r].pc = "findAuth"]
        PROVE  Typed'
    <3> DEFINE q == [req[r] EXCEPT !.h = u.hash, !.pc = "findAuth"]
    <3>1. req' = [req EXCEPT ![r] = q]
        BY <2>2 DEF Typed, ReadyReq
    <3>2. u.hash \in UserHash BY DEF ById, Typed, TypeOK, User
    <3>3. q \in Active
        BY <1>0, <3>2 DEF Active, Step
    <3>4. Fields(q)
        BY <1>0, <1>2, <3>2 DEF RelayFind, Fields, NeedsId, NeedsHash, NeedsProvider,
                                NeedsName, Active
    <3>5. q \in Ready BY <3>3, <3>4 DEF Ready
    <3> HIDE DEF q
    <3>6. ReadyReq' BY <3>1, <3>5 DEF Typed, ReadyReq
    <3>7. req' \in [Request -> {Idle} \cup Active]
        BY <3>6 DEF ReadyReq, Ready
    <3> QED BY <1>2, <3>6, <3>7 DEF RelayFind, TypeOK, tables, Typed
  <2> QED BY <1>2, <2>1, <2>2 DEF RelayFind
<1>3. CASE RelayCheck(r)
  <2>1. CASE Goto(r, "relayInsert")
    <3>1. Fields([req[r] EXCEPT !.pc = "relayInsert"])
        BY <1>0, <1>3 DEF RelayCheck, Fields, NeedsId, NeedsHash, NeedsProvider, NeedsName,
                          Active
    <3>2. "relayInsert" \in Step BY DEF Step
    <3> QED BY <1>0, <1>3, <2>1, <3>1, <3>2, GotoTypes DEF RelayCheck, Typed, TypeOK, tables
  <2>2. CASE Finish(r)
      BY <1>3, <2>2, FinishTypes DEF RelayCheck, Typed, TypeOK, tables
  <2> QED BY <1>3, <2>1, <2>2 DEF RelayCheck
<1>4. CASE FindAuth(r)
  <2>1. CASE Goto(r, "insertAuth")
    <3>1. Fields([req[r] EXCEPT !.pc = "insertAuth"])
        BY <1>0, <1>4 DEF FindAuth, Fields, NeedsId, NeedsHash, NeedsProvider, NeedsName,
                          Active
    <3>2. "insertAuth" \in Step BY DEF Step
    <3> QED BY <1>0, <1>4, <2>1, <3>1, <3>2, GotoTypes DEF FindAuth, Typed, TypeOK, tables
  <2>2. CASE Finish(r)
      BY <1>4, <2>2, FinishTypes DEF FindAuth, Typed, TypeOK, tables
  <2> QED BY <1>4, <2>1, <2>2 DEF FindAuth
<1>5. CASE InsertAuth(r)
  <2>1. req[r].h \in UserHash /\ req[r].p \in ProviderHash
      BY <1>0, <1>5 DEF InsertAuth, Fields, NeedsHash, NeedsProvider
  <2>2. connected' \subseteq UserHash \X ProviderHash
      BY <1>5, <2>1 DEF InsertAuth, Typed, TypeOK
  <2> QED BY <1>5, <2>2, FinishTypes DEF InsertAuth, Typed, TypeOK
<1> QED BY <1>1, <1>2, <1>3, <1>4, <1>5 DEF InviteStep

LEMMA TypedInductive ==
    ASSUME Typed, [Next]_vars
    PROVE  Typed'
<1>1. CASE UNCHANGED vars
    BY <1>1 DEF vars, Typed, TypeOK, ReadyReq
<1>2. ASSUME NEW r \in Request, Arrive(r) PROVE Typed'
    BY <1>2, ArriveReady, BeginTypes
<1>3. ASSUME NEW r \in Request, Abort(r) PROVE Typed'
    BY <1>3, FinishTypes DEF Abort, tables, Typed, TypeOK
<1>4. CASE Forget
    BY <1>4 DEF Forget, Typed, TypeOK, ReadyReq
<1> QED BY <1>1, <1>2, <1>3, <1>4, UserStepTypes, ProviderStepTypes, InviteStepTypes
        DEF Next

LEMMA TypedAlways == Spec => []Typed
<1>1. Init => Typed
    BY DEF Init, Typed, TypeOK, ReadyReq
<1> QED BY <1>1, TypedInductive, PTL DEF Spec

\* Type correctness of the account handlers, whatever the number of requests in
\* flight (services/user_service.py, services/provider_service.py).
THEOREM TypeCorrect == Spec => []TypeOK
<1>1. Typed => TypeOK BY DEF Typed
<1> QED BY <1>1, TypedAlways, PTL

-----------------------------------------------------------------------------
(* Keys                                                                    *)

\* Every row has a hash that was drawn: a fresh hash is no one's.
Drawn == UserHashes \subseteq spent /\ ProviderHashes \subseteq spent
\* The inductive form of KeysHold.
Keyed == KeysHold /\ Drawn

LEMMA UpdateUserHashes ==
    ASSUME Typed, NEW r \in Request, UpdateUser(r)
    PROVE  UserHashes' = UserHashes
<1> DEFINE h == req[r].h
           on == req[r].on
           f(u) == IF u.hash = h THEN [u EXCEPT !.active = on] ELSE u
<1>1. users' = {f(u) : u \in users}
    BY DEF UpdateUser
<1>2. \A u \in users : f(u).hash = u.hash
    BY DEF Typed, TypeOK, User
<1> HIDE DEF f
<1> QED BY <1>1, <1>2 DEF UserHashes

\* An update in place keeps the keys it does not write.
LEMMA UpdateUserKeys ==
    ASSUME Typed, Keyed, NEW r \in Request, UpdateUser(r)
    PROVE  Keyed'
<1> DEFINE h == req[r].h
           on == req[r].on
           f(u) == IF u.hash = h THEN [u EXCEPT !.active = on] ELSE u
<1>1. users' = {f(u) : u \in users}
    BY DEF UpdateUser
<1>2. \A u \in users : f(u).hash = u.hash /\ f(u).id = u.id
    BY DEF Typed, TypeOK, User
<1> HIDE DEF f
<1>3. UserHashes' = UserHashes
    BY <1>1, <1>2 DEF UserHashes
<1>4. \A u, v \in users' : u.hash = v.hash \/ u.id = v.id => u = v
    BY <1>1, <1>2 DEF Keyed, KeysHold
<1>5. UNCHANGED <<providers, connected, spent>> /\ ProviderHashes' = ProviderHashes
    BY DEF UpdateUser, ProviderHashes
<1> QED BY <1>3, <1>4, <1>5 DEF Keyed, KeysHold, Drawn

LEMMA SetProviderKeys ==
    ASSUME Typed, Keyed, NEW r \in Request, SetProvider(r)
    PROVE  Keyed'
<1> DEFINE h == req[r].p
           on == req[r].on
           f(p) == IF p.hash = h THEN [p EXCEPT !.active = on] ELSE p
<1>1. providers' = {f(p) : p \in providers}
    BY DEF SetProvider
<1>2. \A p \in providers : f(p).hash = p.hash /\ f(p).owner = p.owner /\ f(p).name = p.name
    BY DEF Typed, TypeOK, Provider
<1> HIDE DEF f
<1>3. ProviderHashes' = ProviderHashes
    BY <1>1, <1>2 DEF ProviderHashes
<1>4. \A p, q \in providers' :
          p.hash = q.hash \/ p.name = q.name \/ p.owner = q.owner => p = q
    BY <1>1, <1>2 DEF Keyed, KeysHold
<1>5. UNCHANGED <<users, connected, spent>> /\ UserHashes' = UserHashes
    BY DEF SetProvider, UserHashes
<1>6. \A p \in providers' : p.owner \in UserHashes
    BY <1>1, <1>2 DEF Keyed, KeysHold
<1> QED BY <1>3, <1>4, <1>5, <1>6 DEF Keyed, KeysHold, Drawn

\* The new name is no other provider's.
LEMMA RenameProviderKeys ==
    ASSUME Typed, Keyed, NEW r \in Request, RenameProvider(r)
    PROVE  Keyed'
<1> DEFINE h == req[r].p
           n == req[r].name
           f(p) == IF p.hash = h THEN [p EXCEPT !.name = n] ELSE p
<1>0. UNCHANGED <<users, connected, spent>> /\ UserHashes' = UserHashes
    BY DEF RenameProvider, UserHashes
<1>1. CASE ~NameFits(h, n)
  <2>1. UNCHANGED providers BY <1>1 DEF RenameProvider
  <2> QED BY <1>0, <2>1 DEF Keyed, KeysHold, Drawn, ProviderHashes
<1>2. CASE NameFits(h, n) /\ UNCHANGED providers
    BY <1>0, <1>2 DEF Keyed, KeysHold, Drawn, ProviderHashes
<1>3. CASE NameFits(h, n) /\ providers' = {f(p) : p \in providers}
  <2>1. \A p \in providers : /\ f(p).hash = p.hash /\ f(p).owner = p.owner
                             /\ p.hash = h => f(p).name = n
                             /\ p.hash # h => f(p).name = p.name
      BY DEF Typed, TypeOK, Provider
  <2>2. \A p \in providers : p.name = n => p.hash = h
      BY <1>3 DEF NameFits, Called, ByHash
  <2>3. \A p, q \in providers : f(p).name = f(q).name => p = q
    <3> SUFFICES ASSUME NEW p \in providers, NEW q \in providers, f(p).name = f(q).name
                 PROVE  p = q
        OBVIOUS
    <3> HIDE DEF f, h, n
    <3>1. CASE p.hash = h /\ q.hash = h
        BY <3>1 DEF Keyed, KeysHold
    <3>2. CASE p.hash = h /\ q.hash # h
        BY <3>2, <2>1, <2>2
    <3>3. CASE p.hash # h /\ q.hash = h
        BY <3>3, <2>1, <2>2
    <3>4. CASE p.hash # h /\ q.hash # h
        BY <3>4, <2>1 DEF Keyed, KeysHold
    <3> QED BY <3>1, <3>2, <3>3, <3>4
  <2> HIDE DEF f
  <2>4. ProviderHashes' = ProviderHashes
      BY <1>3, <2>1 DEF ProviderHashes
  <2>5. \A p, q \in providers' :
            p.hash = q.hash \/ p.name = q.name \/ p.owner = q.owner => p = q
      BY <1>3, <2>1, <2>3 DEF Keyed, KeysHold
  <2>6. \A p \in providers' : p.owner \in UserHashes
      BY <1>3, <2>1 DEF Keyed, KeysHold
  <2> QED BY <1>0, <2>4, <2>5, <2>6 DEF Keyed, KeysHold, Drawn
<1> QED BY <1>1, <1>2, <1>3 DEF RenameProvider

LEMMA UserStepKeys ==
    ASSUME Typed, Keyed, NEW r \in Request, UserStep(r)
    PROVE  Keyed'
<1>1. CASE InsertUser(r)
  <2>0. UNCHANGED <<providers, connected>> /\ ProviderHashes' = ProviderHashes
      BY <1>1 DEF InsertUser, ProviderHashes
  <2>1. CASE UNCHANGED <<users, spent>>
      BY <2>0, <2>1 DEF Keyed, KeysHold, Drawn, UserHashes
  <2>2. ASSUME NEW u, UserFits(u), users' = users \cup {u}, spent' = spent \cup {u.hash}
        PROVE  Keyed'
    <3>1. u.hash \notin spent /\ \A v \in users : v.id # u.id
        BY <2>2 DEF UserFits, ById
    <3>2. \A v \in users : v.hash # u.hash
        BY <3>1 DEF Keyed, Drawn, UserHashes
    <3>3. \A v, w \in users' : v.hash = w.hash \/ v.id = w.id => v = w
        BY <2>2, <3>1, <3>2 DEF Keyed, KeysHold
    <3>4. UserHashes' = UserHashes \cup {u.hash}
        BY <2>2 DEF UserHashes
    <3> QED BY <2>0, <2>2, <3>3, <3>4 DEF Keyed, KeysHold, Drawn
  <2>3. \/ UNCHANGED <<users, spent>>
        \/ \E u : UserFits(u) /\ users' = users \cup {u} /\ spent' = spent \cup {u.hash}
    <3>1. ASSUME NEW h \in UserHash,
                 UserFits([hash |-> h, id |-> req[r].id, active |-> TRUE]),
                 users' = users \cup {[hash |-> h, id |-> req[r].id, active |-> TRUE]},
                 spent' = spent \cup {h}
          PROVE  \E u : UserFits(u) /\ users' = users \cup {u} /\ spent' = spent \cup {u.hash}
      <4> DEFINE u == [hash |-> h, id |-> req[r].id, active |-> TRUE]
      <4>1. u.hash = h OBVIOUS
      <4>2. UserFits(u) /\ users' = users \cup {u} BY <3>1
      <4> HIDE DEF u
      <4> QED BY <3>1, <4>1, <4>2
    <3> QED BY <1>1, <3>1 DEF InsertUser
  <2> QED BY <2>1, <2>2, <2>3
<1>2. CASE LoadOwned(r)
    BY <1>2 DEF LoadOwned, tables, Keyed, KeysHold, Drawn, UserHashes, ProviderHashes
<1>3. CASE EraseUser(r)
  <2> DEFINE h == req[r].h
  <2>1. /\ users' = {u \in users : u.hash # h}
        /\ providers' = {p \in providers : p.owner # h}
        /\ \A c \in connected' : /\ c \in connected /\ c[1] # h
                                 /\ \A p \in providers : p.owner = h => c[2] # p.hash
        /\ UNCHANGED spent
      BY <1>3 DEF EraseUser, Cut, Owned
  <2>2. UserHashes' = UserHashes \ {h}
      BY <2>1 DEF UserHashes
  <2>3. ProviderHashes' = {p.hash : p \in {q \in providers : q.owner # h}}
      BY <2>1 DEF ProviderHashes
  <2>4. connected' \subseteq UserHashes' \X ProviderHashes'
    <3> SUFFICES ASSUME NEW c \in connected' PROVE c \in UserHashes' \X ProviderHashes'
        OBVIOUS
    <3>1. c \in UserHashes \X ProviderHashes
        BY <2>1 DEF Keyed, KeysHold
    <3>2. PICK p \in providers : p.hash = c[2]
        BY <3>1 DEF ProviderHashes
    <3>3. p.owner # h BY <2>1, <3>2
    <3>4. c[2] \in ProviderHashes' BY <2>3, <3>2, <3>3
    <3>5. c[1] \in UserHashes' BY <2>1, <2>2, <3>1
    <3> QED BY <3>1, <3>4, <3>5
  <2>5. \A p \in providers' : p.owner \in UserHashes'
      BY <2>1, <2>2 DEF Keyed, KeysHold
  <2>6. ProviderHashes' \subseteq spent' /\ UserHashes' \subseteq spent'
      BY <2>1, <2>2, <2>3 DEF Keyed, Drawn, ProviderHashes
  <2>7. /\ \A u, v \in users' : u.hash = v.hash \/ u.id = v.id => u = v
        /\ \A p, q \in providers' :
               p.hash = q.hash \/ p.name = q.name \/ p.owner = q.owner => p = q
      BY <2>1 DEF Keyed, KeysHold
  <2> QED BY <2>4, <2>5, <2>6, <2>7 DEF Keyed, KeysHold, Drawn
<1> QED BY <1>1, <1>2, <1>3, UpdateUserKeys DEF UserStep

LEMMA ProviderStepKeys ==
    ASSUME Typed, Keyed, NEW r \in Request, ProviderStep(r)
    PROVE  Keyed'
<1>1. CASE InsertProvider(r)
  <2>0. UNCHANGED <<users, connected>> /\ UserHashes' = UserHashes
      BY <1>1 DEF InsertProvider, UserHashes
  <2>1. CASE UNCHANGED <<providers, spent>>
      BY <2>0, <2>1 DEF Keyed, KeysHold, Drawn, ProviderHashes
  <2>2. ASSUME NEW x, x.hash \notin spent, ProviderFits(x.owner, x.name),
               providers' = providers \cup {x}, spent' = spent \cup {x.hash}
        PROVE  Keyed'
    <3>1. /\ x.owner \in UserHashes
          /\ \A p \in providers : p.owner # x.owner /\ p.name # x.name
        BY <2>2 DEF ProviderFits, Owned, Called
    <3>2. \A p \in providers : p.hash # x.hash
        BY <2>2 DEF Keyed, Drawn, ProviderHashes
    <3>3. \A p, q \in providers' :
              p.hash = q.hash \/ p.name = q.name \/ p.owner = q.owner => p = q
        BY <2>2, <3>1, <3>2 DEF Keyed, KeysHold
    <3>4. ProviderHashes' = ProviderHashes \cup {x.hash}
        BY <2>2 DEF ProviderHashes
    <3>5. \A p \in providers' : p.owner \in UserHashes'
        BY <2>0, <2>2, <3>1 DEF Keyed, KeysHold
    <3> QED BY <2>0, <2>2, <3>3, <3>4, <3>5 DEF Keyed, KeysHold, Drawn
  <2>3. \/ UNCHANGED <<providers, spent>>
        \/ \E x : /\ x.hash \notin spent /\ ProviderFits(x.owner, x.name)
                  /\ providers' = providers \cup {x} /\ spent' = spent \cup {x.hash}
    <3>1. ASSUME NEW p \in ProviderHash \ spent,
                 ProviderFits(req[r].h, req[r].name),
                 providers' = providers \cup
                   {[hash |-> p, owner |-> req[r].h, name |-> req[r].name, active |-> TRUE]},
                 spent' = spent \cup {p}
          PROVE  \E x : /\ x.hash \notin spent /\ ProviderFits(x.owner, x.name)
                        /\ providers' = providers \cup {x} /\ spent' = spent \cup {x.hash}
      <4> DEFINE x == [hash |-> p, owner |-> req[r].h, name |-> req[r].name, active |-> TRUE]
      <4>1. x.hash = p /\ x.owner = req[r].h /\ x.name = req[r].name OBVIOUS
      <4>2. providers' = providers \cup {x} BY <3>1
      <4> HIDE DEF x
      <4> QED BY <3>1, <4>1, <4>2
    <3> QED BY <1>1, <3>1 DEF InsertProvider
  <2> QED BY <2>1, <2>2, <2>3
<1>2. CASE CheckName(r)
    BY <1>2 DEF CheckName, tables, Keyed, KeysHold, Drawn, UserHashes, ProviderHashes
<1>3. CASE EraseProvider(r)
  <2> DEFINE h == req[r].p
  <2>1. /\ providers' = {p \in providers : p.hash # h}
        /\ connected' = {c \in connected : c[2] # h}
        /\ UNCHANGED <<users, spent>>
      BY <1>3 DEF EraseProvider, ByHash
  <2>2. ProviderHashes' = ProviderHashes \ {h} /\ UserHashes' = UserHashes
      BY <2>1 DEF ProviderHashes, UserHashes
  <2>3. connected' \subseteq UserHashes' \X ProviderHashes'
      BY <2>1, <2>2 DEF Keyed, KeysHold
  <2> QED BY <2>1, <2>2, <2>3 DEF Keyed, KeysHold, Drawn
<1> QED BY <1>1, <1>2, <1>3, SetProviderKeys, RenameProviderKeys DEF ProviderStep

LEMMA InviteStepKeys ==
    ASSUME Typed, Keyed, NEW r \in Request, InviteStep(r)
    PROVE  Keyed'
<1>1. UNCHANGED <<users, providers, spent>>
    BY DEF InviteStep, HandOut, RelayFind, RelayCheck, FindAuth, InsertAuth, tables
<1>2. UserHashes' = UserHashes /\ ProviderHashes' = ProviderHashes
    BY <1>1 DEF UserHashes, ProviderHashes
<1>3. connected' = connected \/ InsertAuth(r)
    BY DEF InviteStep, HandOut, RelayFind, RelayCheck, FindAuth, tables
<1>4. connected' \subseteq UserHashes \X ProviderHashes
    BY <1>3 DEF InsertAuth, Keyed, KeysHold
<1> QED BY <1>1, <1>2, <1>4 DEF Keyed, KeysHold, Drawn

LEMMA KeyedInductive ==
    ASSUME Typed, Keyed, [Next]_vars
    PROVE  Keyed'
<1>1. CASE UNCHANGED vars
    BY <1>1 DEF vars, Keyed, KeysHold, Drawn, UserHashes, ProviderHashes
<1>2. ASSUME NEW r \in Request, Arrive(r) PROVE Keyed'
  <2>1. UNCHANGED tables BY <1>2, ArriveReady DEF Begin
  <2> QED BY <2>1 DEF tables, Keyed, KeysHold, Drawn, UserHashes, ProviderHashes
<1>3. ASSUME NEW r \in Request, Abort(r) PROVE Keyed'
    BY <1>3 DEF Abort, tables, Keyed, KeysHold, Drawn, UserHashes, ProviderHashes
<1>4. CASE Forget
  <2>1. UNCHANGED <<users, providers, spent>> /\ connected' \subseteq connected
      BY <1>4 DEF Forget
  <2> QED BY <2>1 DEF Keyed, KeysHold, Drawn, UserHashes, ProviderHashes
<1> QED BY <1>1, <1>2, <1>3, <1>4, UserStepKeys, ProviderStepKeys, InviteStepKeys DEF Next

LEMMA KeyedAlways == Spec => []Keyed
<1>1. Init => Keyed
    BY DEF Init, Keyed, KeysHold, Drawn, UserHashes, ProviderHashes
<1>2. Typed /\ Keyed /\ [Next]_vars => Keyed'
    BY KeyedInductive
<1> QED BY <1>1, <1>2, TypedAlways, PTL DEF Spec

\* An id, a name and an owner stand for one row each, a provider has an owner and a
\* connection both ends, in every interleaving of any number of requests (db/models).
THEOREM KeysAlwaysHold == Spec => []KeysHold
<1>1. Keyed => KeysHold BY DEF Keyed
<1> QED BY <1>1, KeyedAlways, PTL

-----------------------------------------------------------------------------
(* Providers that a deletion has seen                                      *)

\* A deletion that has loaded its account found no provider, and one that is there
\* by now was drawn later.
Looked(q) ==
    q.pc = "eraseUser" =>
        /\ q.seen \subseteq spent
        /\ \A p \in providers : p.owner = q.h => p.hash \notin q.seen
LookedAll == \A r \in Request : Looked(req[r])

\* A row is there since before, under the same owner, or its hash is new.
LEMMA TablesGrow ==
    ASSUME Typed, NEW r \in Request,
           Arrive(r) \/ UserStep(r) \/ ProviderStep(r) \/ InviteStep(r) \/ Abort(r)
    PROVE  /\ spent \subseteq spent'
           /\ \A p \in providers' : \/ p.hash \notin spent
                                    \/ \E q \in providers : q.hash = p.hash /\ q.owner = p.owner
<1> DEFINE G == /\ spent \subseteq spent'
                /\ \A p \in providers' :
                       \/ p.hash \notin spent
                       \/ \E q \in providers : q.hash = p.hash /\ q.owner = p.owner
<1>1. ASSUME UNCHANGED spent, providers' \subseteq providers PROVE G
    BY <1>1
<1>2. CASE Arrive(r) \/ InviteStep(r) \/ Abort(r)
    BY <1>1, <1>2, ArriveReady
    DEF Begin, tables, InviteStep, HandOut, RelayFind, RelayCheck, FindAuth, InsertAuth,
        Abort
<1>3. CASE UpdateUser(r) \/ LoadOwned(r) \/ EraseUser(r)
    BY <1>1, <1>3 DEF UpdateUser, LoadOwned, EraseUser, Cut, tables
<1>4. CASE InsertUser(r)
    BY <1>4 DEF InsertUser
<1>5. CASE InsertProvider(r)
  <2>1. CASE UNCHANGED <<providers, spent>>
      BY <1>1, <2>1
  <2>2. ASSUME NEW h \in ProviderHash \ spent,
               providers' = providers \cup
                   {[hash |-> h, owner |-> req[r].h, name |-> req[r].name, active |-> TRUE]},
               spent' = spent \cup {h}
        PROVE  G
    <3> DEFINE x == [hash |-> h, owner |-> req[r].h, name |-> req[r].name, active |-> TRUE]
    <3>1. x.hash \notin spent /\ providers' = providers \cup {x} BY <2>2
    <3> HIDE DEF x
    <3> QED BY <2>2, <3>1
  <2> QED BY <1>5, <2>1, <2>2 DEF InsertProvider
<1>6. CASE SetProvider(r)
  <2>1. \A p \in providers' : \E q \in providers : q.hash = p.hash /\ q.owner = p.owner
      BY <1>6 DEF SetProvider, Typed, TypeOK, Provider
  <2> QED BY <1>6, <2>1 DEF SetProvider
<1>7. CASE CheckName(r) \/ EraseProvider(r)
    BY <1>1, <1>7 DEF CheckName, EraseProvider, tables
<1>8. CASE RenameProvider(r)
  <2>1. \A p \in providers' : \E q \in providers : q.hash = p.hash /\ q.owner = p.owner
      BY <1>8 DEF RenameProvider, Typed, TypeOK, Provider
  <2> QED BY <1>8, <2>1 DEF RenameProvider
<1> QED BY <1>2, <1>3, <1>4, <1>5, <1>6, <1>7, <1>8 DEF UserStep, ProviderStep

\* Only loading the account leads to its deletion.
LEMMA OnlyOwnRecord ==
    ASSUME Typed, NEW r \in Request,
           Arrive(r) \/ UserStep(r) \/ ProviderStep(r) \/ InviteStep(r) \/ Abort(r)
    PROVE  /\ \A x \in Request \ {r} : req'[x] = req[x]
           /\ req'[r].pc = "eraseUser" =>
                  /\ UNCHANGED tables
                  /\ Owned(req'[r].h) = {}
                  /\ req'[r].seen = spent \cap ProviderHash
<1> DEFINE G == /\ \A x \in Request \ {r} : req'[x] = req[x]
                /\ req'[r].pc # "eraseUser"
<1>1. ASSUME NEW q, q.pc # "eraseUser", req' = [req EXCEPT ![r] = q] PROVE G
    BY <1>1 DEF Typed, ReadyReq
<1>2. ASSUME Finish(r) PROVE G
    BY <1>2, <1>1 DEF Finish, Idle
<1>3. ASSUME req[r] \in Active, NEW step \in Step \ {"eraseUser"}, Goto(r, step) PROVE G
    BY <1>3 DEF Goto, Typed, ReadyReq, Active
<1>4. CASE Arrive(r)
    BY <1>4, <1>1, ArriveReady DEF Begin
<1>5. CASE InsertUser(r)
  <2>0. req[r] \in Active
      BY <1>5, StepIsReady, ReadyIsActive DEF InsertUser
  <2>1. ASSUME NEW h, req' = [req EXCEPT ![r].h = h, ![r].pc = "findAuth"] PROVE G
    <3> DEFINE q == [req[r] EXCEPT !.h = h, !.pc = "findAuth"]
    <3>1. q.pc = "findAuth" BY <2>0 DEF Active
    <3>2. req' = [req EXCEPT ![r] = q] BY <2>1 DEF Typed, ReadyReq
    <3> HIDE DEF q
    <3> QED BY <3>1, <3>2, <1>1
  <2> QED BY <1>5, <1>2, <2>1 DEF InsertUser
<1>6. CASE LoadOwned(r)
  <2>0. req[r] \in Active
      BY <1>6, StepIsReady, ReadyIsActive DEF LoadOwned
  <2>1. CASE MayLeave(req[r].h)
    <3> DEFINE q == [req[r] EXCEPT !.pc = "eraseUser", !.seen = spent \cap ProviderHash]
    <3>1. q.h = req[r].h /\ q.seen = spent \cap ProviderHash BY <2>0 DEF Active
    <3>2. req' = [req EXCEPT ![r] = q] /\ UNCHANGED tables
        BY <1>6, <2>1 DEF LoadOwned, Typed, ReadyReq
    <3> HIDE DEF q
    <3>3. req'[r] = q /\ \A x \in Request \ {r} : req'[x] = req[x]
        BY <3>2 DEF Typed, ReadyReq
    <3> QED BY <2>1, <3>1, <3>2, <3>3 DEF MayLeave
  <2>2. CASE Finish(r)
      BY <2>2, <1>2
  <2> QED BY <1>6, <2>1, <2>2 DEF LoadOwned
<1>7. CASE UpdateUser(r) \/ EraseUser(r) \/ InsertProvider(r) \/ SetProvider(r)
           \/ RenameProvider(r) \/ EraseProvider(r) \/ HandOut(r) \/ InsertAuth(r) \/ Abort(r)
    BY <1>7, <1>2
    DEF UpdateUser, EraseUser, InsertProvider, SetProvider, RenameProvider, EraseProvider,
        HandOut, InsertAuth, Abort
<1>8. CASE CheckName(r) \/ RelayCheck(r) \/ FindAuth(r)
  <2>1. req[r] \in Active
      BY <1>8, StepIsReady, ReadyIsActive DEF CheckName, RelayCheck, FindAuth
  <2>2. Finish(r) \/ \E step \in Step \ {"eraseUser"} : Goto(r, step)
      BY <1>8 DEF CheckName, RelayCheck, FindAuth, Step
  <2> QED BY <2>1, <2>2, <1>2, <1>3
<1>9. CASE RelayFind(r)
  <2>0. req[r] \in Active
      BY <1>9, StepIsReady, ReadyIsActive DEF RelayFind
  <2>1. CASE Goto(r, "relayCheck")
      BY <2>0, <2>1, <1>3 DEF Step
  <2>2. ASSUME NEW h, req' = [req EXCEPT ![r].h = h, ![r].pc = "findAuth"] PROVE G
    <3> DEFINE q == [req[r] EXCEPT !.h = h, !.pc = "findAuth"]
    <3>1. q.pc = "findAuth" BY <2>0 DEF Active
    <3>2. req' = [req EXCEPT ![r] = q] BY <2>2 DEF Typed, ReadyReq
    <3> HIDE DEF q
    <3> QED BY <3>1, <3>2, <1>1
  <2> QED BY <1>9, <2>1, <2>2 DEF RelayFind
<1> QED BY <1>4, <1>5, <1>6, <1>7, <1>8, <1>9 DEF UserStep, ProviderStep, InviteStep

LEMMA LookedInductive ==
    ASSUME Typed, Keyed, LookedAll, [Next]_vars
    PROVE  LookedAll'
<1>1. CASE UNCHANGED vars
    BY <1>1 DEF vars, LookedAll, Looked
<1>2. CASE Forget
    BY <1>2 DEF Forget, LookedAll, Looked
<1>3. ASSUME NEW r \in Request,
             Arrive(r) \/ UserStep(r) \/ ProviderStep(r) \/ InviteStep(r) \/ Abort(r)
      PROVE  LookedAll'
  <2> SUFFICES ASSUME NEW x \in Request, req'[x].pc = "eraseUser"
               PROVE  /\ req'[x].seen \subseteq spent'
                      /\ \A p \in providers' :
                             p.owner = req'[x].h => p.hash \notin req'[x].seen
      BY DEF LookedAll, Looked
  <2>1. CASE x # r
    <3>1. req'[x] = req[x] BY <1>3, <2>1, OnlyOwnRecord
    <3>2. /\ req[x].seen \subseteq spent
          /\ \A p \in providers : p.owner = req[x].h => p.hash \notin req[x].seen
        BY <3>1 DEF LookedAll, Looked
    <3> QED BY <1>3, <3>1, <3>2, TablesGrow
  <2>2. CASE x = r
    <3>1. /\ UNCHANGED tables
          /\ Owned(req'[r].h) = {}
          /\ req'[r].seen = spent \cap ProviderHash
        BY <1>3, <2>2, OnlyOwnRecord
    <3> QED BY <2>2, <3>1 DEF tables, Owned
  <2> QED BY <2>1, <2>2
<1> QED BY <1>1, <1>2, <1>3 DEF Next

LEMMA LookedAlways == Spec => []LookedAll
<1>1. Init => LookedAll
    BY DEF Init, LookedAll, Looked, Idle
<1>2. Typed /\ Keyed /\ LookedAll /\ [Next]_vars => LookedAll'
    BY LookedInductive
<1> QED BY <1>1, <1>2, TypedAlways, KeyedAlways, PTL DEF Spec

\* The step that takes an owner away is a deletion that did not see the provider.
LEMMA OwnersLeave ==
    ASSUME Typed, Keyed, LookedAll, [Next]_vars, NEW p \in providers,
           p.owner \notin {u.hash : u \in users'}
    PROVE  \E r \in Request : req[r].pc = "eraseUser" /\ p.hash \notin req[r].seen
<1>1. p.owner \in {u.hash : u \in users}
    BY DEF Keyed, KeysHold, UserHashes
<1>2. ASSUME users \subseteq users' PROVE FALSE
    BY <1>1, <1>2
<1>3. \E r \in Request : UpdateUser(r) \/ EraseUser(r)
    BY <1>2, ArriveReady
    DEF Next, vars, Forget, Abort, tables, Begin, UserStep, InsertUser, LoadOwned, ProviderStep,
        InsertProvider, SetProvider, CheckName, RenameProvider, EraseProvider, InviteStep,
        HandOut, RelayFind, RelayCheck, FindAuth, InsertAuth
<1>4. PICK r \in Request : UpdateUser(r) \/ EraseUser(r)
    BY <1>3
<1>5. ~UpdateUser(r)
  <2> SUFFICES ASSUME UpdateUser(r) PROVE FALSE
      OBVIOUS
  <2>1. UserHashes' = UserHashes BY UpdateUserHashes
  <2> QED BY <1>1, <2>1 DEF UserHashes
<1>6. EraseUser(r) /\ p.owner = req[r].h
    BY <1>1, <1>4, <1>5 DEF EraseUser
<1>7. req[r].pc = "eraseUser" /\ p.hash \notin req[r].seen
    BY <1>6 DEF EraseUser, LookedAll, Looked
<1> QED BY <1>7

\* Deleting a user takes along no provider that the deletion saw, whatever other
\* requests do between its query and its commit (user_service.py:delete_user).
THEOREM DeletionSpares == Spec => SeenProvidersStay
<1>1. Typed /\ Keyed /\ LookedAll /\ [Next]_vars =>
          [\A p \in providers :
              p.owner \notin {u.hash : u \in users'} =>
                  \E r \in Request : /\ req[r].pc = "eraseUser"
                                     /\ p.hash \notin req[r].seen]_vars
    BY OwnersLeave
<1> QED BY <1>1, TypedAlways, KeyedAlways, LookedAlways, PTL DEF Spec, SeenProvidersStay

=============================================================================
