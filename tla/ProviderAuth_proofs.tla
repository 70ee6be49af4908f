------------------------- MODULE ProviderAuth_proofs -------------------------
(***************************************************************************)
(* Proofs about ProviderAuth, for every set of providers, users, request   *)
(* slots and every value of the two limits: what holds however requests    *)
(* overlap, and, for one slot, that the handlers implement ProviderConsent.*)
(***************************************************************************)
EXTENDS ProviderAuth, FiniteSetTheorems, TLAPS

-----------------------------------------------------------------------------
(* Types                                                                   *)

\* A request that is not idle has all the fields of an active one.
LEMMA BusyIsActive ==
    ASSUME TypeOK, NEW r \in Request, req[r] # Idle
    PROVE  req[r] \in Active
BY DEF TypeOK

LEMMA StepIsActive ==
    ASSUME TypeOK, NEW r \in Request, req[r].pc # "idle"
    PROVE  req[r] \in Active
BY BusyIsActive DEF Idle

\* The account, authorization and subscription rows keep their types.
LEMMA AccountTypes ==
    ASSUME DataTypeOK, AccountNext
    PROVE  DataTypeOK'
<1>1. ASSUME NEW a \in Hash, CreateAccount(a) \/ SwitchAccount(a)
      PROVE  DataTypeOK'
    BY <1>1 DEF DataTypeOK, CreateAccount, SwitchAccount, Account
<1>2. ASSUME NEW u \in User, DeleteUser(u)
      PROVE  DataTypeOK'
    BY <1>2 DEF DataTypeOK, DeleteUser, Account, Status, Hash
<1>3. ASSUME NEW p \in Provider, DeleteProvider(p)
      PROVE  DataTypeOK'
    BY <1>3 DEF DataTypeOK, DeleteProvider, Account, Status, Hash
<1> QED BY <1>1, <1>2, <1>3 DEF AccountNext

LEMMA AuthTypes ==
    ASSUME DataTypeOK, NEW u \in User, NEW p \in Provider, NEW s \in Status,
           SetAuth(u, p, s)
    PROVE  auth' \in [User -> [Provider -> Status]]
BY DEF DataTypeOK, SetAuth

LEMMA SubsTypes ==
    ASSUME DataTypeOK, NEW u \in User, NEW p \in Provider, NEW S \in SUBSET SubId,
           SetSubs(u, p, S)
    PROVE  subs' \in [User -> [Provider -> SUBSET SubId]]
BY DEF DataTypeOK, SetSubs

\* What the handlers do to their own record.
LEMMA BeginTypes ==
    ASSUME TypeOK, NEW r \in Request, NEW op \in Operation,
           NEW u \in User, NEW p \in Provider, Begin(r, op, u, p)
    PROVE  req' \in [Request -> {Idle} \cup Active]
BY DEF TypeOK, Begin, Active, Step, Status

LEMMA FinishTypes ==
    ASSUME TypeOK, NEW r \in Request, Finish(r)
    PROVE  req' \in [Request -> {Idle} \cup Active]
BY DEF TypeOK, Finish

LEMMA GotoTypes ==
    ASSUME TypeOK, NEW r \in Request, req[r] \in Active, NEW step \in Step,
           Goto(r, step)
    PROVE  req' \in [Request -> {Idle} \cup Active]
BY DEF TypeOK, Goto, Active

LEMMA AfterReadType ==
    ASSUME NEW op, NEW row
    PROVE  AfterRead(op, row) \in Step \cup {"idle"}
BY DEF AfterRead, MayApprove, MayManage, Step

LEMMA ArriveTypes ==
    ASSUME TypeOK, NEW r \in Request, Arrive(r)
    PROVE  TypeOK'
<1>1. PICK u \in User, p \in Provider :
        \/ ConnectionRequested(r, u, p) \/ ConnectionRelayed(r, u, p)
        \/ ApprovalCalled(r, u, p) \/ RejectionCalled(r, u, p)
        \/ RevocationCalled(r, u, p) \/ ProviderCalled(r, u, p)
    BY DEF Arrive
<1>2. UNCHANGED data \/ CreateAccount(u)
    BY <1>1 DEF ConnectionRequested, ConnectionRelayed, ApprovalCalled,
                RejectionCalled, RevocationCalled, ProviderCalled
<1>3. DataTypeOK'
    BY <1>2 DEF TypeOK, DataTypeOK, data, CreateAccount, Account, Hash
<1>4. \E op \in Operation : Begin(r, op, u, p)
    BY <1>1 DEF ConnectionRequested, ConnectionRelayed, ApprovalCalled,
                RejectionCalled, RevocationCalled, ProviderCalled, Operation
<1> QED BY <1>3, <1>4, BeginTypes DEF TypeOK

LEMMA HandleTypes ==
    ASSUME TypeOK, NEW r \in Request, Handle(r)
    PROVE  TypeOK'
<1>0. req[r] \in Active
    BY StepIsActive DEF Handle, ReadRow, Insert, Reset, Count, Grant, List,
       Revoke, Wipe, Erase, CountSubs, InsertSub, Load, DeleteSub
<1>a. /\ req[r].u \in User /\ req[r].p \in Provider
      /\ req[r].doomed \in SUBSET SubId /\ req[r].row \in Status
    BY <1>0 DEF Active
<1>b. DataTypeOK /\ subs[req[r].u][req[r].p] \in SUBSET SubId
                 /\ auth[req[r].u][req[r].p] \in Status
    BY <1>a DEF TypeOK, DataTypeOK
<1>1. CASE ReadRow(r)
  <2> DEFINE row == auth[req[r].u][req[r].p]
             next == AfterRead(req[r].op, row)
  <2>1. CASE next = "idle"
      BY <1>1, <2>1, FinishTypes DEF ReadRow, data, TypeOK, DataTypeOK
  <2>2. CASE next # "idle"
    <3>1. next \in Step BY <2>2, AfterReadType
    <3>2. req' = [req EXCEPT ![r].pc = next, ![r].row = row]
        BY <1>1, <2>2 DEF ReadRow
    <3> HIDE DEF next
    <3>3. req' \in [Request -> {Idle} \cup Active]
        BY <1>0, <1>b, <3>1, <3>2 DEF TypeOK, Active
    <3> QED BY <1>1, <3>3 DEF ReadRow, data, TypeOK, DataTypeOK
  <2> QED BY <2>1, <2>2
<1>2. CASE Insert(r) \/ Reset(r) \/ Grant(r) \/ Revoke(r)
  <2>1. Finish(r) /\ UNCHANGED <<account, subs>>
      BY <1>2 DEF Insert, Reset, Grant, Revoke
  <2>2. auth' = auth \/ \E s \in Status : SetAuth(req[r].u, req[r].p, s)
      BY <1>2 DEF Insert, Reset, Grant, Revoke, WriteStatus, Status
  <2>3. auth' \in [User -> [Provider -> Status]]
      BY <2>2, <1>a, <1>b, AuthTypes DEF DataTypeOK
  <2> QED BY <2>1, <2>3, FinishTypes DEF TypeOK, DataTypeOK
<1>3. CASE Count(r) \/ List(r) \/ CountSubs(r)
  <2>1. UNCHANGED data
      BY <1>3 DEF Count, List, CountSubs
  <2>2. Finish(r) \/ \E step \in Step : Goto(r, step)
      BY <1>3 DEF Count, List, CountSubs, Step
  <2> QED BY <2>1, <2>2, <1>0, FinishTypes, GotoTypes DEF TypeOK, DataTypeOK, data
<1>4. CASE Wipe(r)
  <2>1. req' \in [Request -> {Idle} \cup Active]
      BY <1>4, <1>0, <1>b DEF Wipe, TypeOK, Active, Step
  <2> QED BY <1>4, <2>1 DEF Wipe, TypeOK, DataTypeOK, data
<1>5. CASE Load(r)
  <2>1. CASE Finish(r)
      BY <1>5, <2>1, FinishTypes DEF Load, TypeOK, DataTypeOK, data
  <2>2. ASSUME NEW s \in subs[req[r].u][req[r].p],
               req' = [req EXCEPT ![r].pc = "dropSub", ![r].doomed = {s}]
        PROVE  req' \in [Request -> {Idle} \cup Active]
    <3>1. {s} \in SUBSET SubId BY <1>b
    <3> QED BY <2>2, <1>0, <3>1 DEF TypeOK, Active, Step
  <2> QED BY <1>5, <2>1, <2>2 DEF Load, TypeOK, DataTypeOK, data
<1>6. CASE Erase(r) \/ InsertSub(r) \/ DeleteSub(r)
  <2>1. Finish(r) /\ UNCHANGED account
      BY <1>6 DEF Erase, InsertSub, DeleteSub
  <2>2. auth' = auth \/ SetAuth(req[r].u, req[r].p, "NONE")
      BY <1>6 DEF Erase, InsertSub, DeleteSub
  <2>3. auth' \in [User -> [Provider -> Status]]
      BY <2>2, <1>a, <1>b, AuthTypes DEF DataTypeOK, Status
  <2>4. \/ subs' = subs
        \/ \E S \in SUBSET SubId : SetSubs(req[r].u, req[r].p, S)
      BY <1>6, <1>b DEF Erase, InsertSub, DeleteSub
  <2>5. subs' \in [User -> [Provider -> SUBSET SubId]]
      BY <2>4, <1>a, <1>b, SubsTypes DEF DataTypeOK
  <2> QED BY <2>1, <2>3, <2>5, <1>b, FinishTypes DEF TypeOK, DataTypeOK
<1> QED BY <1>1, <1>2, <1>3, <1>4, <1>5, <1>6 DEF Handle

LEMMA NextTypes == TypeOK /\ [Next]_vars => TypeOK'
<1> SUFFICES ASSUME TypeOK, [Next]_vars PROVE TypeOK'
    OBVIOUS
<1>1. CASE AccountStep
    BY <1>1, AccountTypes DEF AccountStep, TypeOK
<1>2. ASSUME NEW r \in Request, Arrive(r) PROVE TypeOK'
    BY <1>2, ArriveTypes
<1>3. ASSUME NEW r \in Request, Handle(r) PROVE TypeOK'
    BY <1>3, HandleTypes
<1>4. ASSUME NEW r \in Request, Abort(r) PROVE TypeOK'
    BY <1>4, FinishTypes DEF Abort, TypeOK, DataTypeOK, data
<1>5. CASE UNCHANGED vars
    BY <1>5 DEF vars, TypeOK, DataTypeOK
<1> QED BY <1>1, <1>2, <1>3, <1>4, <1>5 DEF Next

\* Every record, row and set keeps its type in every reachable state.
THEOREM TypeCorrect == Spec => []TypeOK
<1>1. Init => TypeOK
    BY DEF Init, DataInit, TypeOK, DataTypeOK, Account, Status
<1> QED BY <1>1, NextTypes, PTL DEF Spec

-----------------------------------------------------------------------------
(* The quota, and how far overlapping approvals can overshoot it           *)

\* The sets counted by QuotaSlack are finite.
LEMMA ApprovedFinite ==
    ASSUME NEW u \in User
    PROVE  IsFiniteSet(Approved(u)) /\ Cardinality(Approved(u)) \in Nat
BY ConsentAssumption, FS_Subset, FS_CardinalityType DEF Approved

LEMMA SlotsFinite ==
    ASSUME NEW S \in SUBSET Request
    PROVE  /\ IsFiniteSet(S) /\ Cardinality(S) \in Nat
           /\ Cardinality(S) <= Cardinality(Request)
           /\ Cardinality(Request) \in Nat
BY RequestAssumption, FS_Subset, FS_CardinalityType

\* A step that is none of the handlers' keeps or shrinks both sets.
LEMMA QuotaArrive ==
    ASSUME TypeOK, NEW r \in Request, Arrive(r) \/ Abort(r), NEW u \in User
    PROVE  Approved(u)' = Approved(u) /\ Granting(u)' \subseteq Granting(u)
<1>1. auth' = auth
    BY DEF Arrive, Abort, ConnectionRequested, ConnectionRelayed, ApprovalCalled,
           RejectionCalled, RevocationCalled, ProviderCalled, CreateAccount, data
<1>2. \A q \in Request : req'[q] = req[q] \/ req'[q].pc \in {"idle", "read"}
    BY DEF Arrive, Abort, ConnectionRequested, ConnectionRelayed, ApprovalCalled,
           RejectionCalled, RevocationCalled, ProviderCalled, Begin, Finish, Idle, TypeOK
<1> QED BY <1>1, <1>2 DEF Approved, Granting, At

LEMMA QuotaHandle ==
    ASSUME TypeOK, NEW r \in Request, Handle(r), NEW u \in User
    PROVE  \/ /\ Approved(u)' \subseteq Approved(u)
              /\ Granting(u)' \subseteq Granting(u)
           \/ /\ \E p \in Provider : Approved(u)' \subseteq Approved(u) \cup {p}
              /\ r \in Granting(u)
              /\ Granting(u)' \subseteq Granting(u) \ {r}
           \/ /\ Approved(u)' = Approved(u)
              /\ Cardinality(Approved(u)) < MaxProviders
<1>0. req[r] \in Active
    BY StepIsActive DEF Handle, ReadRow, Insert, Reset, Count, Grant, List,
       Revoke, Wipe, Erase, CountSubs, InsertSub, Load, DeleteSub
<1>1. CASE Count(r)
  <2>1. auth' = auth BY <1>1 DEF Count, data
  <2>2. CASE Cardinality(Approved(req[r].u)) >= MaxProviders
      BY <1>1, <2>1, <2>2 DEF Count, Finish, Idle, Approved, Granting, At, TypeOK
  <2>3. CASE ~(Cardinality(Approved(req[r].u)) >= MaxProviders) /\ req[r].u = u
      BY <2>1, <2>3, ApprovedFinite, ConsentAssumption DEF Approved
  <2>4. CASE ~(Cardinality(Approved(req[r].u)) >= MaxProviders) /\ req[r].u # u
    <3>1. req' = [req EXCEPT ![r].pc = "grant"]
        BY <1>1, <2>4 DEF Count, Goto
    <3>2. req'[r].u = req[r].u /\ \A q \in Request \ {r} : req'[q] = req[q]
        BY <3>1, <1>0 DEF TypeOK, Active
    <3> QED BY <2>1, <2>4, <3>2 DEF Approved, Granting, At
  <2> QED BY <2>2, <2>3, <2>4
<1>2. CASE Grant(r)
  <2>1. \A q \in Request : req'[q] = IF q = r THEN Idle ELSE req[q]
      BY <1>2 DEF Grant, Finish, TypeOK
  <2>2. Granting(u)' \subseteq Granting(u) \ {r}
      BY <2>1 DEF Granting, At, Idle
  <2>3. auth' = auth \/ SetAuth(req[r].u, req[r].p, "APPROVED")
      BY <1>2 DEF Grant, WriteStatus
  <2>4. CASE req[r].u = u
    <3>1. r \in Granting(u) BY <1>2, <2>4 DEF Grant, Granting, At
    <3>2. Approved(u)' \subseteq Approved(u) \cup {req[r].p}
        BY <2>3, <2>4, <1>0 DEF Approved, SetAuth, TypeOK, DataTypeOK, Active
    <3> QED BY <2>2, <3>1, <3>2, <1>0 DEF Active
  <2>5. CASE req[r].u # u
    <3>1. Approved(u)' = Approved(u)
        BY <2>3, <2>5, <1>0 DEF Approved, SetAuth, TypeOK, DataTypeOK, Active
    <3> QED BY <2>2, <3>1
  <2> QED BY <2>4, <2>5
<1>3. CASE ~Count(r) /\ ~Grant(r)
  <2>1. \/ auth' = auth
        \/ \E s \in {"NONE", "PENDING", "REVOKED"} : SetAuth(req[r].u, req[r].p, s)
      BY <1>3 DEF Handle, ReadRow, Insert, Reset, List, Revoke, Wipe, Erase, CountSubs,
                  InsertSub, Load, DeleteSub, WriteStatus, data
  <2>2. Approved(u)' \subseteq Approved(u)
      BY <2>1, <1>0 DEF Approved, SetAuth, TypeOK, DataTypeOK, Active
  <2>3. \A q \in Request : req'[q] = req[q] \/ req'[q].pc # "grant"
    <3>1. CASE ReadRow(r)
      <4> DEFINE row == auth[req[r].u][req[r].p]
                 next == AfterRead(req[r].op, row)
      <4>1. next # "grant" BY DEF AfterRead, MayApprove, MayManage
      <4>2. CASE next = "idle"
          BY <3>1, <4>2 DEF ReadRow, Finish, Idle, TypeOK
      <4>3. CASE next # "idle"
        <5>1. req' = [req EXCEPT ![r].pc = next, ![r].row = row]
            BY <3>1, <4>3 DEF ReadRow
        <5> HIDE DEF next, row
        <5> QED BY <4>1, <5>1, <1>0 DEF TypeOK, Active
      <4> QED BY <4>2, <4>3
    <3>2. CASE ~ReadRow(r)
        BY <1>3, <1>0, <3>2 DEF Handle, Insert, Reset, List, Revoke, Wipe, Erase,
           CountSubs, InsertSub, Load, DeleteSub, Goto, Finish, Idle, TypeOK, Active
    <3> QED BY <3>1, <3>2
  <2>4. Granting(u)' \subseteq Granting(u)
      BY <2>3 DEF Granting, At
  <2> QED BY <2>2, <2>4
<1> QED BY <1>1, <1>2, <1>3

LEMMA NextQuota == TypeOK /\ QuotaSlack /\ [Next]_vars => QuotaSlack'
<1> SUFFICES ASSUME TypeOK, QuotaSlack, [Next]_vars, NEW u \in User
             PROVE  Cardinality(Approved(u)') + Cardinality(Granting(u)')
                        <= MaxProviders + Cardinality(Request) - 1
    BY DEF QuotaSlack
<1>0. /\ Granting(u) \in SUBSET Request
      /\ Granting(u)' \in SUBSET Request
      /\ Approved(u)' \in SUBSET Provider
    BY DEF Granting, At, Approved
<1>a. /\ IsFiniteSet(Approved(u)) /\ Cardinality(Approved(u)) \in Nat
      /\ IsFiniteSet(Approved(u)') /\ Cardinality(Approved(u)') \in Nat
    BY <1>0, ApprovedFinite, ConsentAssumption, FS_Subset, FS_CardinalityType
<1>b. /\ IsFiniteSet(Granting(u)) /\ Cardinality(Granting(u)) \in Nat
      /\ IsFiniteSet(Granting(u)') /\ Cardinality(Granting(u)') \in Nat
      /\ Cardinality(Granting(u)') <= Cardinality(Request)
      /\ Cardinality(Request) \in Nat
    BY <1>0, SlotsFinite
<1>c. Cardinality(Approved(u)) + Cardinality(Granting(u))
        <= MaxProviders + Cardinality(Request) - 1
    BY DEF QuotaSlack
<1>d. MaxProviders \in Nat BY ConsentAssumption
<1>1. ASSUME Approved(u)' \subseteq Approved(u), Granting(u)' \subseteq Granting(u)
      PROVE  Cardinality(Approved(u)') + Cardinality(Granting(u)')
                <= MaxProviders + Cardinality(Request) - 1
  <2>1. Cardinality(Approved(u)') <= Cardinality(Approved(u))
      BY <1>1, <1>a, FS_Subset
  <2>2. Cardinality(Granting(u)') <= Cardinality(Granting(u))
      BY <1>1, <1>b, FS_Subset
  <2> QED BY <2>1, <2>2, <1>a, <1>b, <1>c, <1>d
<1>2. ASSUME NEW p \in Provider, Approved(u)' \subseteq Approved(u) \cup {p},
             NEW r \in Granting(u), Granting(u)' \subseteq Granting(u) \ {r}
      PROVE  Cardinality(Approved(u)') + Cardinality(Granting(u)')
                <= MaxProviders + Cardinality(Request) - 1
  <2>1. /\ IsFiniteSet(Approved(u) \cup {p})
        /\ Cardinality(Approved(u) \cup {p}) <= Cardinality(Approved(u)) + 1
    <3> DEFINE A == Approved(u)
    <3>1. IsFiniteSet(A) /\ Cardinality(A) \in Nat BY <1>a
    <3> HIDE DEF A
    <3>2. /\ IsFiniteSet(A \cup {p})
          /\ Cardinality(A \cup {p}) = IF p \in A THEN Cardinality(A) ELSE Cardinality(A) + 1
        BY <3>1, FS_AddElement
    <3>3. IsFiniteSet(A \cup {p}) /\ Cardinality(A \cup {p}) <= Cardinality(A) + 1
        BY <3>1, <3>2
    <3> QED BY <3>3 DEF A
  <2>2. Cardinality(Approved(u)') <= Cardinality(Approved(u)) + 1
    <3>1. Cardinality(Approved(u)') <= Cardinality(Approved(u) \cup {p})
        BY <1>2, <2>1, FS_Subset
    <3>2. Cardinality(Approved(u) \cup {p}) \in Nat
        BY <2>1, FS_CardinalityType
    <3> QED BY <2>1, <3>1, <3>2, <1>a
  <2>3. /\ IsFiniteSet(Granting(u) \ {r})
        /\ Cardinality(Granting(u) \ {r}) = Cardinality(Granting(u)) - 1
      BY <1>b, FS_RemoveElement
  <2>4. Cardinality(Granting(u)') <= Cardinality(Granting(u)) - 1
      BY <1>2, <2>3, FS_Subset
  <2> QED BY <2>2, <2>4, <1>a, <1>b, <1>c, <1>d
<1>3. ASSUME Approved(u)' = Approved(u), Cardinality(Approved(u)) < MaxProviders
      PROVE  Cardinality(Approved(u)') + Cardinality(Granting(u)')
                <= MaxProviders + Cardinality(Request) - 1
    BY <1>3, <1>a, <1>b, <1>d
<1>4. ASSUME NEW r \in Request, Handle(r)
      PROVE  Cardinality(Approved(u)') + Cardinality(Granting(u)')
                <= MaxProviders + Cardinality(Request) - 1
    BY <1>4, QuotaHandle, <1>1, <1>2, <1>3
<1>5. ASSUME NEW r \in Request, Arrive(r) \/ Abort(r)
      PROVE  Cardinality(Approved(u)') + Cardinality(Granting(u)')
                <= MaxProviders + Cardinality(Request) - 1
    BY <1>5, QuotaArrive, <1>1
<1>6. CASE AccountStep
  <2>1. Granting(u)' = Granting(u)
      BY <1>6 DEF AccountStep, Granting, At
  <2>2. Approved(u)' \subseteq Approved(u)
      BY <1>6 DEF AccountStep, AccountNext, CreateAccount, SwitchAccount,
                  DeleteUser, DeleteProvider, Approved, TypeOK, DataTypeOK
  <2> QED BY <1>1, <2>1, <2>2
<1>7. CASE UNCHANGED vars
  <2>1. Granting(u)' = Granting(u) /\ Approved(u)' = Approved(u)
      BY <1>7 DEF vars, Granting, At, Approved
  <2> QED BY <1>1, <2>1
<1> QED BY <1>4, <1>5, <1>6, <1>7 DEF Next

\* However many requests overlap, approvals overshoot the quota by less than
\* the number of request slots.
THEOREM QuotaSlackHolds == Spec => []QuotaSlack
<1>1. Init => QuotaSlack
  <2> SUFFICES ASSUME Init, NEW u \in User
               PROVE  Cardinality(Approved(u)) + Cardinality(Granting(u))
                        <= MaxProviders + Cardinality(Request) - 1
      BY DEF QuotaSlack
  <2>1. Approved(u) = {} /\ Granting(u) = {}
      BY DEF Init, DataInit, Approved, Granting, At, Idle
  <2>2. Cardinality(Request) \in Nat \ {0}
      BY RequestAssumption, FS_CardinalityType, FS_EmptySet
  <2> QED BY <2>1, <2>2, FS_EmptySet, ConsentAssumption
<1> QED BY <1>1, NextQuota, TypeCorrect, PTL DEF Spec

\* While requests do not overlap, the documented quota holds.
THEOREM SerialQuota ==
    ASSUME Cardinality(Request) = 1
    PROVE  Spec => []Quota
<1>1. QuotaSlack => Quota
  <2> SUFFICES ASSUME QuotaSlack, NEW u \in User
               PROVE  Cardinality(Approved(u)) <= MaxProviders
      BY DEF Quota
  <2>1. Granting(u) \in SUBSET Request
      BY DEF Granting, At
  <2>2. Cardinality(Granting(u)) \in Nat
      BY <2>1, SlotsFinite
  <2> QED BY <2>2, ApprovedFinite, ConsentAssumption DEF QuotaSlack
<1> QED BY <1>1, QuotaSlackHolds, PTL

-----------------------------------------------------------------------------
(* The limit of subscriptions, and how far overlapping creations overshoot *)

LEMMA SubsFinite ==
    ASSUME NEW S \in SUBSET SubId
    PROVE  IsFiniteSet(S) /\ Cardinality(S) \in Nat
BY ConsentAssumption, FS_Subset, FS_CardinalityType

\* Arrivals and the ends of requests change no subscription.
LEMMA SubsArrive ==
    ASSUME TypeOK, NEW r \in Request, Arrive(r) \/ Abort(r),
           NEW u \in User, NEW p \in Provider
    PROVE  subs'[u][p] = subs[u][p] /\ Creating(u, p)' \subseteq Creating(u, p)
<1>1. subs' = subs
    BY DEF Arrive, Abort, ConnectionRequested, ConnectionRelayed, ApprovalCalled,
           RejectionCalled, RevocationCalled, ProviderCalled, CreateAccount, data
<1>2. \A q \in Request : req'[q] = req[q] \/ req'[q].pc \in {"idle", "read"}
    BY DEF Arrive, Abort, ConnectionRequested, ConnectionRelayed, ApprovalCalled,
           RejectionCalled, RevocationCalled, ProviderCalled, Begin, Finish, Idle, TypeOK
<1> QED BY <1>1, <1>2 DEF Creating, At

\* A handler leaves both counts no higher, turns one of those about to insert into one
\* subscription, or joins them while the limit is not reached.
LEMMA SubsHandle ==
    ASSUME TypeOK, NEW r \in Request, Handle(r), NEW u \in User, NEW p \in Provider
    PROVE  \/ /\ subs'[u][p] \subseteq subs[u][p]
              /\ Creating(u, p)' \subseteq Creating(u, p)
           \/ /\ \E s \in SubId : subs'[u][p] = subs[u][p] \cup {s}
              /\ r \in Creating(u, p)
              /\ Creating(u, p)' \subseteq Creating(u, p) \ {r}
           \/ /\ subs'[u][p] = subs[u][p]
              /\ Cardinality(subs[u][p]) < MaxSubscriptions
<1>0. req[r] \in Active
    BY StepIsActive DEF Handle, ReadRow, Insert, Reset, Count, Grant, List,
       Revoke, Wipe, Erase, CountSubs, InsertSub, Load, DeleteSub
<1>1. CASE CountSubs(r)
  <2> DEFINE full == Cardinality(subs[req[r].u][req[r].p]) >= MaxSubscriptions
  <2>1. subs' = subs BY <1>1 DEF CountSubs, data
  <2>2. CASE full
      BY <1>1, <2>1, <2>2 DEF CountSubs, Finish, Idle, Creating, At, TypeOK
  <2>3. CASE ~full /\ req[r].u = u /\ req[r].p = p
    <3>1. Cardinality(subs[u][p]) \in Nat
        BY SubsFinite DEF TypeOK, DataTypeOK
    <3> QED BY <2>1, <2>3, <3>1, ConsentAssumption
  <2>4. CASE ~full /\ ~(req[r].u = u /\ req[r].p = p)
    <3>1. req' = [req EXCEPT ![r].pc = "insertSub"]
        BY <1>1, <2>4 DEF CountSubs, Goto
    <3>2. /\ req'[r].u = req[r].u /\ req'[r].p = req[r].p
          /\ \A q \in Request \ {r} : req'[q] = req[q]
        BY <3>1, <1>0 DEF TypeOK, Active
    <3>3. Creating(u, p)' \subseteq Creating(u, p)
        BY <2>4, <3>2 DEF Creating, At
    <3> QED BY <2>1, <3>3
  <2> QED BY <2>2, <2>3, <2>4
<1>2. CASE InsertSub(r)
  <2>1. \A q \in Request : req'[q] = IF q = r THEN Idle ELSE req[q]
      BY <1>2 DEF InsertSub, Finish, TypeOK
  <2>2. Creating(u, p)' \subseteq Creating(u, p) \ {r}
      BY <2>1 DEF Creating, At, Idle
  <2>3. subs' = subs \/ \E s \in SubId :
            SetSubs(req[r].u, req[r].p, subs[req[r].u][req[r].p] \cup {s})
      BY <1>2 DEF InsertSub
  <2>4. CASE req[r].u = u /\ req[r].p = p
    <3>1. r \in Creating(u, p) BY <1>2, <2>4 DEF InsertSub, Creating, At
    <3>2. subs'[u][p] = subs[u][p] \/ \E s \in SubId : subs'[u][p] = subs[u][p] \cup {s}
        BY <2>3, <2>4 DEF SetSubs, TypeOK, DataTypeOK
    <3> QED BY <2>2, <3>1, <3>2
  <2>5. CASE ~(req[r].u = u /\ req[r].p = p)
    <3>1. subs'[u][p] = subs[u][p]
        BY <2>3, <2>5, <1>0 DEF SetSubs, TypeOK, DataTypeOK, Active
    <3> QED BY <2>2, <3>1
  <2> QED BY <2>4, <2>5
<1>3. CASE ~CountSubs(r) /\ ~InsertSub(r)
  <2>1. \/ subs' = subs
        \/ SetSubs(req[r].u, req[r].p, subs[req[r].u][req[r].p] \ req[r].doomed)
      BY <1>3 DEF Handle, ReadRow, Insert, Reset, Count, Grant, List, Revoke, Wipe, Erase,
                  Load, DeleteSub, data
  <2>2. subs'[u][p] \subseteq subs[u][p]
      BY <2>1, <1>0 DEF SetSubs, TypeOK, DataTypeOK, Active
  <2>3. \A q \in Request : req'[q] = req[q] \/ req'[q].pc # "insertSub"
    <3>1. CASE ReadRow(r)
      <4> DEFINE row == auth[req[r].u][req[r].p]
                 next == AfterRead(req[r].op, row)
      <4>1. next # "insertSub" BY DEF AfterRead, MayApprove, MayManage
      <4>2. CASE next = "idle"
          BY <3>1, <4>2 DEF ReadRow, Finish, Idle, TypeOK
      <4>3. CASE next # "idle"
        <5>1. req' = [req EXCEPT ![r].pc = next, ![r].row = row]
            BY <3>1, <4>3 DEF ReadRow
        <5> HIDE DEF next, row
        <5> QED BY <4>1, <5>1, <1>0 DEF TypeOK, Active
      <4> QED BY <4>2, <4>3
    <3>2. CASE ~ReadRow(r)
        BY <1>3, <1>0, <3>2 DEF Handle, Insert, Reset, Count, Grant, List, Revoke, Wipe,
           Erase, Load, DeleteSub, Goto, Finish, Idle, TypeOK, Active
    <3> QED BY <3>1, <3>2
  <2>4. Creating(u, p)' \subseteq Creating(u, p)
    <3> SUFFICES ASSUME NEW q \in Creating(u, p)' PROVE q \in Creating(u, p)
        OBVIOUS
    <3>1. q \in Request /\ req'[q].pc = "insertSub" BY DEF Creating, At
    <3>2. req'[q] = req[q] BY <2>3, <3>1
    <3> QED BY <3>2 DEF Creating, At
  <2> QED BY <2>2, <2>4
<1> QED BY <1>1, <1>2, <1>3

LEMMA AccountShrinks ==
    ASSUME TypeOK, AccountNext, NEW u \in User, NEW p \in Provider
    PROVE  subs'[u][p] \subseteq subs[u][p]
<1>1. ASSUME NEW a \in Hash, CreateAccount(a) \/ SwitchAccount(a)
      PROVE  subs'[u][p] \subseteq subs[u][p]
    BY <1>1 DEF CreateAccount, SwitchAccount
<1>2. ASSUME NEW v \in User, DeleteUser(v) PROVE subs'[u][p] \subseteq subs[u][p]
    BY <1>2 DEF DeleteUser, TypeOK, DataTypeOK
<1>3. ASSUME NEW v \in Provider, DeleteProvider(v) PROVE subs'[u][p] \subseteq subs[u][p]
    BY <1>3 DEF DeleteProvider, TypeOK, DataTypeOK
<1> QED BY <1>1, <1>2, <1>3 DEF AccountNext

LEMMA NextSubs == TypeOK /\ TypeOK' /\ SubsSlack /\ [Next]_vars => SubsSlack'
<1> SUFFICES ASSUME TypeOK, TypeOK', SubsSlack, [Next]_vars, NEW u \in User, NEW p \in Provider
             PROVE  Cardinality(subs'[u][p]) + Cardinality(Creating(u, p)')
                        <= MaxSubscriptions + Cardinality(Request) - 1
    BY DEF SubsSlack
<1> DEFINE S == subs[u][p]
           T == subs'[u][p]
           C == Creating(u, p)
           D == Creating(u, p)'
           Fits == Cardinality(T) + Cardinality(D) <= MaxSubscriptions + Cardinality(Request) - 1
<1>0. /\ C \in SUBSET Request /\ D \in SUBSET Request
      /\ S \in SUBSET SubId /\ T \in SUBSET SubId
    BY DEF Creating, At, TypeOK, DataTypeOK
<1>a. /\ IsFiniteSet(S) /\ Cardinality(S) \in Nat
      /\ IsFiniteSet(T) /\ Cardinality(T) \in Nat
    BY <1>0, SubsFinite
<1>b. /\ IsFiniteSet(C) /\ Cardinality(C) \in Nat
      /\ IsFiniteSet(D) /\ Cardinality(D) \in Nat
      /\ Cardinality(D) <= Cardinality(Request)
      /\ Cardinality(Request) \in Nat
    BY <1>0, SlotsFinite
<1>c. Cardinality(S) + Cardinality(C) <= MaxSubscriptions + Cardinality(Request) - 1
    BY DEF SubsSlack
<1>d. MaxSubscriptions \in Nat BY ConsentAssumption
<1>1. ASSUME T \subseteq S, D \subseteq C PROVE Fits
  <2>1. Cardinality(T) <= Cardinality(S) /\ Cardinality(D) <= Cardinality(C)
      BY <1>1, <1>a, <1>b, FS_Subset
  <2> HIDE DEF S, T, C, D
  <2> QED BY <2>1, <1>a, <1>b, <1>c, <1>d
<1>2. ASSUME NEW s \in SubId, T = S \cup {s}, NEW r \in C, D \subseteq C \ {r} PROVE Fits
  <2> HIDE DEF S, T, C, D
  <2>0. Cardinality(S \cup {s}) = IF s \in S THEN Cardinality(S) ELSE Cardinality(S) + 1
      BY <1>a, FS_AddElement
  <2>1. Cardinality(S \cup {s}) <= Cardinality(S) + 1
      BY <2>0, <1>a
  <2>2. IsFiniteSet(C \ {r}) /\ Cardinality(C \ {r}) = Cardinality(C) - 1
      BY <1>2, <1>b, FS_RemoveElement
  <2>3. Cardinality(D) <= Cardinality(C) - 1
      BY <1>2, <2>2, FS_Subset
  <2>4. Cardinality(T) <= Cardinality(S) + 1 BY <1>2, <2>1
  <2> QED BY <2>3, <2>4, <1>a, <1>b, <1>c, <1>d
<1>3. ASSUME T = S, Cardinality(S) < MaxSubscriptions PROVE Fits
  <2> HIDE DEF S, T, C, D
  <2> QED BY <1>3, <1>a, <1>b, <1>d
<1>4. ASSUME NEW r \in Request, Handle(r) PROVE Fits
    BY <1>4, SubsHandle, <1>1, <1>2, <1>3
<1>5. ASSUME NEW r \in Request, Arrive(r) \/ Abort(r) PROVE Fits
    BY <1>5, SubsArrive, <1>1
<1>6. CASE AccountStep
  <2>1. D = C BY <1>6 DEF AccountStep, Creating, At
  <2>2. T \subseteq S
      BY <1>6, AccountShrinks DEF AccountStep
  <2> QED BY <1>1, <2>1, <2>2
<1>7. CASE UNCHANGED vars
  <2>1. D = C /\ T = S BY <1>7 DEF vars, Creating, At
  <2> QED BY <1>1, <2>1
<1> QED BY <1>4, <1>5, <1>6, <1>7 DEF Next

\* However many requests overlap, creations overshoot the limit of subscriptions by less
\* than the number of request slots (create_subscription).
THEOREM SubsSlackHolds == Spec => []SubsSlack
<1>1. Init => SubsSlack
  <2> SUFFICES ASSUME Init, NEW u \in User, NEW p \in Provider
               PROVE  Cardinality(subs[u][p]) + Cardinality(Creating(u, p))
                        <= MaxSubscriptions + Cardinality(Request) - 1
      BY DEF SubsSlack
  <2>1. subs[u][p] = {} /\ Creating(u, p) = {}
      BY DEF Init, DataInit, Creating, At, Idle
  <2>2. Cardinality(Request) \in Nat \ {0}
      BY RequestAssumption, FS_CardinalityType, FS_EmptySet
  <2> QED BY <2>1, <2>2, FS_EmptySet, ConsentAssumption
<1> QED BY <1>1, NextSubs, TypeCorrect, PTL DEF Spec

-----------------------------------------------------------------------------
(* What is deleted stays deleted                                           *)

LEMMA AuthAt ==
    ASSUME TypeOK, NEW v \in User, NEW w \in Provider, NEW st, SetAuth(v, w, st),
           NEW u \in User, NEW p \in Provider
    PROVE  auth'[u][p] = IF u = v /\ p = w THEN st ELSE auth[u][p]
BY DEF SetAuth, TypeOK, DataTypeOK

LEMMA SubsAt ==
    ASSUME TypeOK, NEW v \in User, NEW w \in Provider, NEW S, SetSubs(v, w, S),
           NEW u \in User, NEW p \in Provider
    PROVE  subs'[u][p] = IF u = v /\ p = w THEN S ELSE subs[u][p]
BY DEF SetSubs, TypeOK, DataTypeOK

\* Only for accounts that exist do the handlers write anything but a removal.
LEMMA HandleWrites ==
    ASSUME TypeOK, NEW r \in Request, Handle(r), NEW u \in User, NEW p \in Provider
    PROVE  /\ account' = account
           /\ \/ auth'[u][p] = auth[u][p] \/ auth'[u][p] = "NONE"
              \/ auth[u][p] # "NONE"
              \/ auth'[u][p] = "PENDING" /\ Exists(u) /\ Exists(p)
           /\ subs'[u][p] \subseteq subs[u][p] \/ (Exists(u) /\ Exists(p))
<1>0. /\ req[r] \in Active /\ req[r].u \in User /\ req[r].p \in Provider
  <2>1. req[r] \in Active
      BY StepIsActive DEF Handle, ReadRow, Insert, Reset, Count, Grant, List,
         Revoke, Wipe, Erase, CountSubs, InsertSub, Load, DeleteSub
  <2> QED BY <2>1 DEF Active
<1>1. account' = account
    BY DEF Handle, ReadRow, Insert, Reset, Count, Grant, List,
       Revoke, Wipe, Erase, CountSubs, InsertSub, Load, DeleteSub, data
<1>2. \/ auth' = auth
      \/ SetAuth(req[r].u, req[r].p, "NONE")
      \/ auth[req[r].u][req[r].p] # "NONE" /\ \E s \in Status : SetAuth(req[r].u, req[r].p, s)
      \/ SetAuth(req[r].u, req[r].p, "PENDING") /\ Exists(req[r].u) /\ Exists(req[r].p)
    BY DEF Handle, ReadRow, Insert, Reset, Count, Grant, List, Revoke, Wipe, Erase,
           CountSubs, InsertSub, Load, DeleteSub, WriteStatus, Status, data
<1>3. \/ auth'[u][p] = auth[u][p] \/ auth'[u][p] = "NONE"
      \/ auth[u][p] # "NONE"
      \/ auth'[u][p] = "PENDING" /\ Exists(u) /\ Exists(p)
    BY <1>0, <1>2, AuthAt
<1>4. \/ subs' = subs
      \/ \E S \in SUBSET subs[req[r].u][req[r].p] : SetSubs(req[r].u, req[r].p, S)
      \/ Exists(req[r].u) /\ Exists(req[r].p) /\ \E S \in SUBSET SubId : SetSubs(req[r].u, req[r].p, S)
  <2>1. subs[req[r].u][req[r].p] \in SUBSET SubId
      BY <1>0 DEF TypeOK, DataTypeOK
  <2> QED BY <2>1 DEF Handle, ReadRow, Insert, Reset, Count, Grant, List, Revoke, Wipe, Erase,
             CountSubs, InsertSub, Load, DeleteSub, data
<1>5. subs'[u][p] \subseteq subs[u][p] \/ (Exists(u) /\ Exists(p))
    BY <1>0, <1>4, SubsAt
<1> QED BY <1>1, <1>3, <1>5

LEMMA NextOwned == TypeOK /\ OwnedRows /\ [Next]_vars => OwnedRows'
<1> SUFFICES ASSUME TypeOK, OwnedRows, [Next]_vars, NEW u \in User, NEW p \in Provider,
                    auth'[u][p] # "NONE" \/ subs'[u][p] # {}
             PROVE  Exists(u)' /\ Exists(p)'
    BY DEF OwnedRows
<1>1. ASSUME account' = account, auth'[u][p] = auth[u][p], subs'[u][p] = subs[u][p]
      PROVE  Exists(u)' /\ Exists(p)'
    BY <1>1 DEF OwnedRows, Exists
<1>2. ASSUME NEW r \in Request, Handle(r) PROVE Exists(u)' /\ Exists(p)'
    BY <1>2, HandleWrites DEF OwnedRows, Exists
<1>3. ASSUME NEW a \in Hash, CreateAccount(a) \/ SwitchAccount(a)
      PROVE  Exists(u)' /\ Exists(p)'
    BY <1>3 DEF CreateAccount, SwitchAccount, OwnedRows, Exists, TypeOK, DataTypeOK, Hash
<1>4. ASSUME NEW r \in Request, Arrive(r) \/ Abort(r) PROVE Exists(u)' /\ Exists(p)'
  <2>1. UNCHANGED data \/ \E a \in Hash : CreateAccount(a)
      BY <1>4 DEF Arrive, Abort, ConnectionRequested, ConnectionRelayed, ApprovalCalled,
                  RejectionCalled, RevocationCalled, ProviderCalled, Hash
  <2> QED BY <1>1, <1>3, <2>1 DEF data
<1>5. CASE AccountStep
  <2>1. ASSUME NEW v \in User, DeleteUser(v) PROVE Exists(u)' /\ Exists(p)'
    <3>1. u # v BY <2>1 DEF DeleteUser, TypeOK, DataTypeOK
    <3>2. auth'[u][p] = auth[u][p] /\ subs'[u][p] = subs[u][p]
        BY <2>1, <3>1 DEF DeleteUser, TypeOK, DataTypeOK
    <3>3. account'[u] = account[u] /\ account'[p] = account[p]
        BY <2>1, <3>1, ConsentAssumption DEF DeleteUser, TypeOK, DataTypeOK, Hash
    <3> QED BY <3>2, <3>3 DEF OwnedRows, Exists
  <2>2. ASSUME NEW v \in Provider, DeleteProvider(v) PROVE Exists(u)' /\ Exists(p)'
    <3>1. p # v BY <2>2 DEF DeleteProvider, TypeOK, DataTypeOK
    <3>2. auth'[u][p] = auth[u][p] /\ subs'[u][p] = subs[u][p]
        BY <2>2, <3>1 DEF DeleteProvider, TypeOK, DataTypeOK
    <3>3. account'[u] = account[u] /\ account'[p] = account[p]
        BY <2>2, <3>1, ConsentAssumption DEF DeleteProvider, TypeOK, DataTypeOK, Hash
    <3> QED BY <3>2, <3>3 DEF OwnedRows, Exists
  <2> QED BY <1>3, <1>5, <2>1, <2>2 DEF AccountStep, AccountNext
<1>6. CASE UNCHANGED vars BY <1>1, <1>6 DEF vars
<1> QED BY <1>2, <1>4, <1>5, <1>6 DEF Next

\* No authorization and no subscription outlives its accounts, whatever requests were in
\* flight when an account went.
THEOREM OwnedRowsHold == Spec => []OwnedRows
<1>1. Init => OwnedRows BY DEF Init, DataInit, OwnedRows
<1> QED BY <1>1, NextOwned, TypeCorrect, PTL DEF Spec

\* An approval writes only a row that is there: a deleted connection is not brought back.
THEOREM ApprovalsNeedRow == Spec => ApprovalNeedsRow
<1>1. TypeOK /\ [Next]_vars =>
        [\A u \in User, p \in Provider :
            auth'[u][p] = "APPROVED" => auth[u][p] # "NONE"]_vars
  <2> SUFFICES ASSUME TypeOK, Next, NEW u \in User, NEW p \in Provider,
                      auth'[u][p] = "APPROVED"
               PROVE  auth[u][p] # "NONE"
      OBVIOUS
  <2>1. ASSUME NEW r \in Request, Handle(r) PROVE auth[u][p] # "NONE"
      BY <2>1, HandleWrites
  <2>2. CASE ~\E r \in Request : Handle(r)
    <3>1. auth' = auth \/ AccountNext
        BY <2>2 DEF Next, AccountStep, Arrive, Abort, ConnectionRequested, ConnectionRelayed,
                    ApprovalCalled, RejectionCalled, RevocationCalled, ProviderCalled,
                    CreateAccount, data
    <3>2. auth'[u][p] = auth[u][p] \/ auth'[u][p] = "NONE"
        BY <3>1 DEF AccountNext, CreateAccount, SwitchAccount, DeleteUser, DeleteProvider,
                    TypeOK, DataTypeOK
    <3> QED BY <3>2
  <2> QED BY <2>1, <2>2
<1> QED BY <1>1, TypeCorrect, PTL DEF Spec, ApprovalNeedsRow

-----------------------------------------------------------------------------
(* One request at a time: the handlers implement the atomic specification  *)
(*                                                                         *)
(* A request acts on the status it read.  While requests do not overlap    *)
(* only the administrator can come between, and what he changes about a    *)
(* row is that it goes, with an account, for good.                         *)

Gone(u, p) == account[u] = "deleted" \/ account[p] = "deleted"

\* What a request knows of its row and its subscriptions after the read.
Knows(q) ==
    q.pc \notin {"idle", "read"} =>
        /\ auth[q.u][q.p] = q.row \/ Gone(q.u, q.p)
        /\ q.pc = "insert" => q.row = "NONE"
        /\ q.pc = "reset" => q.row = "REVOKED"
        /\ q.pc \in {"count", "grant"} => q.row = "PENDING"
        /\ q.pc = "grant" => Cardinality(Approved(q.u)) < MaxProviders
        /\ q.pc \in {"list", "revoke", "wipe", "erase"} => q.row # "NONE"
        /\ q.pc \in {"wipe", "erase"} => q.op = "disconnect" \/ subs[q.u][q.p] = {}
        /\ q.pc = "erase" => subs[q.u][q.p] \subseteq q.doomed
        /\ q.pc \in {"countSubs", "insertSub", "load", "dropSub"} => q.row = "APPROVED"
        /\ q.pc = "insertSub" => Cardinality(subs[q.u][q.p]) < MaxSubscriptions
        /\ q.pc \in {"load", "dropSub"} => q.op = "deleteSub"
        /\ q.pc = "dropSub" => \E s \in SubId : q.doomed = {s}

\* A step of the request alone leaves the rows as it knows them.
LEMMA KnowsStill ==
    ASSUME NEW r \in Request, NEW t, Knows(t), req'[r] = t, UNCHANGED data
    PROVE  Knows(req[r])'
BY DEF Knows, Gone, Approved, data

LEMMA IdleKnows == Knows(Idle)
BY DEF Knows, Idle

LEMMA ReadKnows ==
    ASSUME TypeOK, NEW r \in Request, ReadRow(r)
    PROVE  Knows(req[r])'
<1> DEFINE q == req[r]
           row == auth[q.u][q.p]
           next == AfterRead(q.op, row)
<1>1. q \in Active /\ UNCHANGED data
    BY StepIsActive DEF ReadRow
<1>2. CASE next = "idle"
  <2>1. req'[r] = Idle BY <1>2 DEF ReadRow, Finish, TypeOK
  <2> QED BY <1>1, <2>1, IdleKnows, KnowsStill
<1>3. CASE next # "idle"
  <2> DEFINE t == [q EXCEPT !.pc = next, !.row = row]
  <2>1. req'[r] = t BY <1>1, <1>3 DEF ReadRow, TypeOK
  <2>2. t.pc = next /\ t.row = row /\ t.u = q.u /\ t.p = q.p /\ t.op = q.op
      BY <1>1 DEF Active
  <2> HIDE DEF t
  <2>3. next \in {"idle", "insert", "reset", "count", "list", "revoke", "wipe", "countSubs", "load"}
      BY DEF AfterRead, MayApprove, MayManage
  <2>4. /\ next = "insert" => row = "NONE"
        /\ next = "reset" => row = "REVOKED"
        /\ next = "count" => row = "PENDING"
        /\ next \in {"list", "revoke", "wipe"} => row # "NONE"
        /\ next = "wipe" => q.op = "disconnect"
        /\ next \in {"countSubs", "load"} => row = "APPROVED"
        /\ next = "load" => q.op = "deleteSub"
      BY DEF AfterRead, MayApprove, MayManage
  <2> HIDE DEF next
  <2>5. Knows(t) BY <2>2, <2>3, <2>4 DEF Knows
  <2> QED BY <1>1, <2>1, <2>5, KnowsStill
<1> QED BY <1>2, <1>3

LEMMA WalkKnows ==
    ASSUME TypeOK, NEW r \in Request, Knows(req[r]),
           Count(r) \/ List(r) \/ Wipe(r) \/ CountSubs(r) \/ Load(r)
    PROVE  Knows(req[r])'
<1> DEFINE q == req[r]
<1>1. q \in Active /\ UNCHANGED data
    BY StepIsActive DEF Count, List, Wipe, CountSubs, Load
<1>2. q.u \in User /\ q.p \in Provider /\ subs[q.u][q.p] \in SUBSET SubId
    BY <1>1 DEF Active, TypeOK, DataTypeOK
<1>3. CASE Finish(r)
  <2>1. req'[r] = Idle BY <1>3 DEF Finish, TypeOK
  <2> QED BY <1>1, <2>1, IdleKnows, KnowsStill
<1>4. ASSUME NEW step, Goto(r, step), Knows([q EXCEPT !.pc = step])
      PROVE  Knows(req[r])'
  <2>1. req'[r] = [q EXCEPT !.pc = step] BY <1>1, <1>4 DEF Goto, TypeOK
  <2> QED BY <1>1, <1>4, <2>1, KnowsStill
<1>5. CASE Count(r) /\ ~Finish(r)
  <2>1. Goto(r, "grant") /\ q.pc = "count" /\ ~(Cardinality(Approved(q.u)) >= MaxProviders)
      BY <1>5 DEF Count
  <2>2. Cardinality(Approved(q.u)) < MaxProviders
      BY <1>2, <2>1, ApprovedFinite, ConsentAssumption
  <2>3. Knows([q EXCEPT !.pc = "grant"])
    <3> DEFINE t == [q EXCEPT !.pc = "grant"]
    <3>1. t.pc = "grant" /\ t.row = q.row /\ t.u = q.u /\ t.p = q.p /\ t.op = q.op
        BY <1>1 DEF Active
    <3> HIDE DEF t
    <3>2. Knows(t) BY <2>1, <2>2, <3>1 DEF Knows
    <3> QED BY <3>2 DEF t
  <2> QED BY <1>4, <2>1, <2>3
<1>6. CASE List(r)
  <2> DEFINE step == IF subs[q.u][q.p] = {} THEN "wipe" ELSE "revoke"
             t == [q EXCEPT !.pc = step]
  <2>1. Goto(r, step) /\ q.pc = "list" BY <1>6 DEF List
  <2>2. t.pc = step /\ t.row = q.row /\ t.u = q.u /\ t.p = q.p /\ t.op = q.op
      BY <1>1 DEF Active
  <2> HIDE DEF t
  <2>3. Knows(t) BY <2>1, <2>2 DEF Knows
  <2> QED BY <1>4, <2>1, <2>3 DEF t
<1>7. CASE Wipe(r)
  <2> DEFINE t == [q EXCEPT !.pc = "erase", !.doomed = subs[q.u][q.p]]
  <2>1. req'[r] = t /\ q.pc = "wipe" BY <1>1, <1>7 DEF Wipe, TypeOK
  <2>2. /\ t.pc = "erase" /\ t.row = q.row /\ t.u = q.u /\ t.p = q.p /\ t.op = q.op
        /\ t.doomed = subs[q.u][q.p]
      BY <1>1 DEF Active
  <2> HIDE DEF t
  <2>3. Knows(t) BY <2>1, <2>2 DEF Knows
  <2> QED BY <1>1, <2>1, <2>3, KnowsStill
<1>8. CASE CountSubs(r) /\ ~Finish(r)
  <2>1. Goto(r, "insertSub") /\ q.pc = "countSubs" /\ ~(Cardinality(subs[q.u][q.p]) >= MaxSubscriptions)
      BY <1>8 DEF CountSubs
  <2>2. Cardinality(subs[q.u][q.p]) < MaxSubscriptions
      BY <1>2, <2>1, SubsFinite, ConsentAssumption
  <2>3. Knows([q EXCEPT !.pc = "insertSub"])
    <3> DEFINE t == [q EXCEPT !.pc = "insertSub"]
    <3>1. t.pc = "insertSub" /\ t.row = q.row /\ t.u = q.u /\ t.p = q.p /\ t.op = q.op
        BY <1>1 DEF Active
    <3> HIDE DEF t
    <3>2. Knows(t) BY <2>1, <2>2, <3>1 DEF Knows
    <3> QED BY <3>2 DEF t
  <2> QED BY <1>4, <2>1, <2>3
<1>9. CASE Load(r) /\ ~Finish(r)
  <2>1. PICK s \in subs[q.u][q.p] :
            q.pc = "load" /\ req' = [req EXCEPT ![r].pc = "dropSub", ![r].doomed = {s}]
      BY <1>9 DEF Load
  <2> DEFINE t == [q EXCEPT !.pc = "dropSub", !.doomed = {s}]
  <2>2. req'[r] = t BY <1>1, <2>1 DEF TypeOK
  <2>3. /\ t.pc = "dropSub" /\ t.row = q.row /\ t.u = q.u /\ t.p = q.p /\ t.op = q.op
        /\ t.doomed = {s}
      BY <1>1 DEF Active
  <2> HIDE DEF t
  <2>4. Knows(t) BY <1>2, <2>1, <2>3 DEF Knows
  <2> QED BY <1>1, <2>2, <2>4, KnowsStill
<1> QED BY <1>3, <1>5, <1>6, <1>7, <1>8, <1>9

\* Rows of the accounts that stay keep their status.
LEMMA AccountRows ==
    ASSUME DataTypeOK, AccountNext, NEW u \in User
    PROVE  \A p \in Provider : auth'[u][p] \in {auth[u][p], "NONE"}
<1> SUFFICES ASSUME NEW p \in Provider PROVE auth'[u][p] \in {auth[u][p], "NONE"}
    OBVIOUS
<1>1. ASSUME NEW a \in Hash, CreateAccount(a) \/ SwitchAccount(a)
      PROVE  auth'[u][p] = auth[u][p]
    BY <1>1 DEF CreateAccount, SwitchAccount
<1>2. ASSUME NEW v \in User, DeleteUser(v)
      PROVE  auth'[u][p] \in {auth[u][p], "NONE"}
    BY <1>2 DEF DeleteUser, DataTypeOK
<1>3. ASSUME NEW v \in Provider, DeleteProvider(v)
      PROVE  auth'[u][p] \in {auth[u][p], "NONE"}
    BY <1>3 DEF DeleteProvider, DataTypeOK
<1> QED BY <1>1, <1>2, <1>3 DEF AccountNext

\* What the administrator may have done to the row of a request.
LEMMA AccountKnows ==
    ASSUME TypeOK, TypeOK', NEW r \in Request, Knows(req[r]), AccountStep
    PROVE  Knows(req[r])'
<1>1. CASE req[r].pc \in {"idle", "read"}
    BY <1>1 DEF AccountStep, Knows
<1>2. CASE req[r].pc \notin {"idle", "read"}
  <2>1. PICK t : t = req[r] OBVIOUS
  <2>2. t \in Active /\ t.u \in User /\ t.p \in Provider /\ req'[r] = t
      BY <1>2, <2>1, StepIsActive DEF AccountStep, Active
  <2>3. subs'[t.u][t.p] \subseteq subs[t.u][t.p]
      BY <2>2, AccountShrinks DEF AccountStep
  <2>4. \/ auth'[t.u][t.p] = auth[t.u][t.p] /\ (Gone(t.u, t.p) => Gone(t.u, t.p)')
        \/ Gone(t.u, t.p)'
    <3>1. t.u \in Hash /\ t.p \in Hash BY <2>2 DEF Hash
    <3>2. ASSUME NEW a \in Hash, CreateAccount(a) \/ SwitchAccount(a)
          PROVE  auth'[t.u][t.p] = auth[t.u][t.p] /\ (Gone(t.u, t.p) => Gone(t.u, t.p)')
        BY <3>1, <3>2 DEF CreateAccount, SwitchAccount, Exists, Gone, TypeOK, DataTypeOK
    <3>3. ASSUME NEW v \in User, DeleteUser(v)
          PROVE  \/ auth'[t.u][t.p] = auth[t.u][t.p] /\ (Gone(t.u, t.p) => Gone(t.u, t.p)')
                 \/ Gone(t.u, t.p)'
        BY <2>2, <3>1, <3>3 DEF DeleteUser, Gone, TypeOK, DataTypeOK
    <3>4. ASSUME NEW v \in Provider, DeleteProvider(v)
          PROVE  \/ auth'[t.u][t.p] = auth[t.u][t.p] /\ (Gone(t.u, t.p) => Gone(t.u, t.p)')
                 \/ Gone(t.u, t.p)'
        BY <2>2, <3>1, <3>4 DEF DeleteProvider, Gone, TypeOK, DataTypeOK
    <3> QED BY <3>2, <3>3, <3>4 DEF AccountStep, AccountNext
  <2>5. Approved(t.u)' \subseteq Approved(t.u)
    <3>1. \A p \in Provider : auth'[t.u][p] \in {auth[t.u][p], "NONE"}
        BY <2>2, AccountRows DEF AccountStep, TypeOK
    <3> QED BY <3>1 DEF Approved
  <2>6. Cardinality(Approved(t.u)) < MaxProviders => Cardinality(Approved(t.u)') < MaxProviders
    <3>1. IsFiniteSet(Approved(t.u)) /\ Cardinality(Approved(t.u)) \in Nat
        BY <2>2, ApprovedFinite
    <3>2. IsFiniteSet(Approved(t.u)') /\ Cardinality(Approved(t.u)') <= Cardinality(Approved(t.u))
        BY <2>5, <3>1, FS_Subset
    <3>3. Cardinality(Approved(t.u)') \in Nat BY <3>2, FS_CardinalityType
    <3> QED BY <3>1, <3>2, <3>3, ConsentAssumption
  <2>7. Cardinality(subs[t.u][t.p]) < MaxSubscriptions => Cardinality(subs'[t.u][t.p]) < MaxSubscriptions
    <3>1. IsFiniteSet(subs[t.u][t.p]) /\ Cardinality(subs[t.u][t.p]) \in Nat
        BY <2>2, SubsFinite DEF TypeOK, DataTypeOK
    <3>2. IsFiniteSet(subs'[t.u][t.p]) /\ Cardinality(subs'[t.u][t.p]) <= Cardinality(subs[t.u][t.p])
        BY <2>3, <3>1, FS_Subset
    <3>3. Cardinality(subs'[t.u][t.p]) \in Nat BY <3>2, FS_CardinalityType
    <3> QED BY <3>1, <3>2, <3>3, ConsentAssumption
  <2>8. Knows(t) BY <2>1
  <2>9. Knows(t)'
      BY <2>3, <2>4, <2>6, <2>7, <2>8 DEF Knows
  <2> QED BY <2>2, <2>9 DEF Knows
<1> QED BY <1>1, <1>2

LEMMA NextKnows ==
    ASSUME NEW o, Request = {o}, TypeOK, TypeOK', Knows(req[o]), [Next]_vars
    PROVE  Knows(req[o])'
<1>1. CASE UNCHANGED vars
  <2>1. req'[o] = req[o] /\ UNCHANGED data /\ o \in Request BY <1>1 DEF vars, data
  <2> QED BY <2>1, KnowsStill
<1>2. CASE AccountStep
  <2>1. o \in Request OBVIOUS
  <2> QED BY <1>2, <2>1, AccountKnows
<1>3. CASE Arrive(o)
  <2>1. req'[o].pc = "read"
      BY <1>3 DEF Arrive, ConnectionRequested, ConnectionRelayed, ApprovalCalled,
         RejectionCalled, RevocationCalled, ProviderCalled, Begin, TypeOK
  <2> QED BY <2>1 DEF Knows
<1>4. CASE Finish(o)
  <2>1. req'[o].pc = "idle" BY <1>4 DEF Finish, Idle, TypeOK
  <2> QED BY <2>1 DEF Knows
<1>5. CASE ReadRow(o) \/ Count(o) \/ List(o) \/ Wipe(o) \/ CountSubs(o) \/ Load(o)
  <2>1. o \in Request OBVIOUS
  <2> QED BY <1>5, <2>1, ReadKnows, WalkKnows
<1>6. CASE Handle(o) /\ ~Finish(o)
    BY <1>5, <1>6 DEF Handle, Insert, Reset, Grant, Revoke, Erase, InsertSub, DeleteSub
<1>7. CASE Abort(o) BY <1>4, <1>7 DEF Abort
<1> QED BY <1>1, <1>2, <1>3, <1>4, <1>6, <1>7 DEF Next


-----------------------------------------------------------------------------
(* Requests that do not overlap behave as the atomic requests of           *)
(* ProviderConsent: the step that commits is the request, and every other  *)
(* step of a handler leaves the tables as they are.                        *)

\* Writing what is there changes nothing.
LEMMA SameAuth ==
    ASSUME DataTypeOK, NEW u \in User, NEW p \in Provider, SetAuth(u, p, auth[u][p])
    PROVE  auth' = auth
BY DEF DataTypeOK, SetAuth

LEMMA SameSubs ==
    ASSUME DataTypeOK, NEW u \in User, NEW p \in Provider, SetSubs(u, p, subs[u][p])
    PROVE  subs' = subs
BY DEF DataTypeOK, SetSubs

\* The state between two steps of a request that runs alone.
Settled(r) == TypeOK /\ OwnedRows /\ SubsHaveRow /\ Knows(req[r])

\* A row that is not what the request read is gone, and all under it.
LEMMA GoneIsEmpty ==
    ASSUME OwnedRows, NEW u \in User, NEW p \in Provider, Gone(u, p)
    PROVE  auth[u][p] = "NONE" /\ subs[u][p] = {} /\ ~(Exists(u) /\ Exists(p))
BY DEF OwnedRows, Gone, Exists

LEMMA ArriveConsents ==
    ASSUME NEW r \in Request, Arrive(r)
    PROVE  [ConsentNext]_data
BY DEF Arrive, ConnectionRequested, ConnectionRelayed, ApprovalCalled, RejectionCalled,
       RevocationCalled, ProviderCalled, ConsentNext, AccountNext, Hash

LEMMA HandleConsents ==
    ASSUME NEW r \in Request, Settled(r), Handle(r)
    PROVE  [ConsentNext]_data
<1>1. PICK q : q = req[r] OBVIOUS
<1>2. /\ q \in Active /\ q.u \in User /\ q.p \in Provider /\ q.doomed \in SUBSET SubId
      /\ q.row \in Status
  <2>1. q \in Active
      BY <1>1, StepIsActive DEF Settled, Handle, ReadRow, Insert, Reset, Count, Grant, List,
         Revoke, Wipe, Erase, CountSubs, InsertSub, Load, DeleteSub
  <2> QED BY <2>1 DEF Active
<1>3. PICK u \in User, p \in Provider : u = q.u /\ p = q.p BY <1>2
<1>4. DataTypeOK BY DEF Settled, TypeOK
<1>5. Gone(u, p) => auth[u][p] = "NONE" /\ subs[u][p] = {} /\ ~(Exists(u) /\ Exists(p))
    BY GoneIsEmpty DEF Settled
<1>6. Knows(q) BY <1>1 DEF Settled
<1>7. ASSUME Ask(u, p) \/ Approve(u, p) \/ Withdraw(u, p) \/ Disconnect(u, p)
             \/ \E s \in SubId : AddSub(u, p, s) \/ DropSub(u, p, s)
      PROVE  [ConsentNext]_data
    BY <1>7 DEF ConsentNext
<1>8. CASE ReadRow(r) \/ Count(r) \/ List(r) \/ Wipe(r) \/ CountSubs(r) \/ Load(r)
    BY <1>8 DEF ReadRow, Count, List, Wipe, CountSubs, Load
<1>9. CASE Insert(r)
  <2>1. CASE auth[u][p] = "NONE" /\ Exists(u) /\ Exists(p)
    <3>1. Ask(u, p) BY <1>1, <1>3, <1>9, <2>1 DEF Insert, Ask
    <3> QED BY <1>7, <3>1
  <2>2. CASE ~(auth[u][p] = "NONE" /\ Exists(u) /\ Exists(p))
      BY <1>1, <1>3, <1>9, <2>2 DEF Insert, data
  <2> QED BY <2>1, <2>2
<1>10. CASE Reset(r)
  <2>1. q.pc = "reset" /\ UNCHANGED <<account, subs>> /\ WriteStatus(u, p, "PENDING")
      BY <1>1, <1>3, <1>10 DEF Reset
  <2>2. CASE auth[u][p] = "NONE" BY <2>1, <2>2 DEF WriteStatus, data
  <2>3. CASE auth[u][p] # "NONE"
    <3>1. auth[u][p] = "REVOKED" BY <1>3, <1>5, <1>6, <2>1, <2>3 DEF Knows
    <3>2. Exists(u) /\ Exists(p) BY <2>3 DEF Settled, OwnedRows
    <3>3. Ask(u, p) BY <2>1, <3>1, <3>2 DEF Ask, WriteStatus
    <3> QED BY <1>7, <3>3
  <2> QED BY <2>2, <2>3
<1>11. CASE Grant(r)
  <2>1. q.pc = "grant" /\ UNCHANGED <<account, subs>> /\ WriteStatus(u, p, "APPROVED")
      BY <1>1, <1>3, <1>11 DEF Grant
  <2>2. CASE auth[u][p] = "NONE" BY <2>1, <2>2 DEF WriteStatus, data
  <2>3. CASE auth[u][p] # "NONE"
    <3>1. auth[u][p] = "PENDING" /\ Cardinality(Approved(u)) < MaxProviders
        BY <1>3, <1>5, <1>6, <2>1, <2>3 DEF Knows
    <3>2. Approve(u, p) BY <2>1, <3>1 DEF Approve, WriteStatus
    <3> QED BY <1>7, <3>2
  <2> QED BY <2>2, <2>3
<1>12. CASE Revoke(r)
  <2>1. /\ q.pc = "revoke" /\ UNCHANGED <<account, subs>>
        /\ q.row = "REVOKED" => auth' = auth
        /\ q.row # "REVOKED" => WriteStatus(u, p, "REVOKED")
      BY <1>1, <1>3, <1>12 DEF Revoke
  <2>2. CASE auth[u][p] = "NONE" \/ q.row = "REVOKED" BY <2>1, <2>2 DEF WriteStatus, data
  <2>3. CASE auth[u][p] # "NONE" /\ q.row # "REVOKED"
    <3>1. auth[u][p] \in {"PENDING", "APPROVED"}
        BY <1>2, <1>3, <1>5, <1>6, <2>1, <2>3 DEF Knows, Status
    <3>2. Withdraw(u, p) BY <2>1, <2>3, <3>1 DEF Withdraw, WriteStatus
    <3> QED BY <1>7, <3>2
  <2> QED BY <2>2, <2>3
<1>13. CASE Erase(r)
  <2>1. /\ q.pc = "erase" /\ UNCHANGED account /\ SetAuth(u, p, "NONE")
        /\ SetSubs(u, p, subs[u][p] \ q.doomed)
      BY <1>1, <1>3, <1>13 DEF Erase
  <2>2. subs[u][p] \ q.doomed = {} BY <1>3, <1>6, <2>1 DEF Knows
  <2>3. CASE auth[u][p] = "NONE"
    <3>1. subs[u][p] = {} BY <2>3 DEF Settled, SubsHaveRow
    <3>2. auth' = auth /\ subs' = subs
        BY <1>4, <2>1, <2>2, <2>3, <3>1, SameAuth, SameSubs
    <3> QED BY <2>1, <3>2 DEF data
  <2>4. CASE auth[u][p] # "NONE"
    <3>1. Disconnect(u, p) BY <2>1, <2>2, <2>4 DEF Disconnect
    <3> QED BY <1>7, <3>1
  <2> QED BY <2>3, <2>4
<1>14. CASE InsertSub(r)
  <2>1. q.pc = "insertSub" /\ UNCHANGED <<account, auth>>
      BY <1>1, <1>14 DEF InsertSub
  <2>2. CASE ~(Exists(u) /\ Exists(p))
      BY <1>1, <1>3, <1>14, <2>1, <2>2 DEF InsertSub, data
  <2>3. CASE Exists(u) /\ Exists(p)
    <3>1. PICK s \in SubId : s \notin Tokens /\ SetSubs(u, p, subs[u][p] \cup {s})
        BY <1>1, <1>3, <1>14, <2>3 DEF InsertSub, FreshToken
    <3>2. auth[u][p] = "APPROVED" /\ Cardinality(subs[u][p]) < MaxSubscriptions
        BY <1>3, <1>5, <1>6, <2>1, <2>3 DEF Knows
    <3>3. AddSub(u, p, s) BY <2>1, <3>1, <3>2 DEF AddSub
    <3> QED BY <1>7, <3>3
  <2> QED BY <2>2, <2>3
<1>15. CASE DeleteSub(r)
  <2>1. q.pc = "dropSub" /\ UNCHANGED <<account, auth>> /\ SetSubs(u, p, subs[u][p] \ q.doomed)
      BY <1>1, <1>3, <1>15 DEF DeleteSub
  <2>2. PICK s \in SubId : q.doomed = {s} BY <1>2, <1>6, <2>1 DEF Knows
  <2>3. CASE s \notin subs[u][p]
    <3>1. subs[u][p] \ q.doomed = subs[u][p] BY <2>2, <2>3
    <3>2. subs' = subs BY <1>4, <2>1, <3>1, SameSubs
    <3> QED BY <2>1, <3>2 DEF data
  <2>4. CASE s \in subs[u][p]
    <3>1. auth[u][p] = "APPROVED" BY <1>3, <1>5, <1>6, <2>1, <2>4 DEF Knows
    <3>2. DropSub(u, p, s) BY <2>1, <2>2, <2>4, <3>1 DEF DropSub
    <3> QED BY <1>7, <3>2
  <2> QED BY <2>3, <2>4
<1> QED BY <1>8, <1>9, <1>10, <1>11, <1>12, <1>13, <1>14, <1>15 DEF Handle

LEMMA NextConsents ==
    ASSUME NEW o, Request = {o}, Settled(o), [Next]_vars
    PROVE  [ConsentNext]_data
<1>1. CASE UNCHANGED vars BY <1>1 DEF vars, data
<1>2. CASE AccountStep BY <1>2 DEF AccountStep, ConsentNext
<1>3. CASE Abort(o) BY <1>3 DEF Abort
<1>4. CASE Arrive(o) \/ Handle(o)
  <2>1. o \in Request OBVIOUS
  <2> QED BY <1>4, <2>1, ArriveConsents, HandleConsents
<1> QED BY <1>1, <1>2, <1>3, <1>4 DEF Next

\* In the specification of the atomic requests a row stands over every
\* subscription.
LEMMA ConsentKeepsRow ==
    ASSUME DataTypeOK, SubsHaveRow, [ConsentNext]_data
    PROVE  SubsHaveRow'
<1> SUFFICES ASSUME NEW u \in User, NEW p \in Provider, subs'[u][p] # {}
             PROVE  auth'[u][p] # "NONE"
    BY DEF SubsHaveRow
<1>0. subs[u][p] # {} => auth[u][p] # "NONE" BY DEF SubsHaveRow
<1>1. CASE UNCHANGED data BY <1>0, <1>1 DEF data
<1>2. ASSUME NEW a \in Hash, CreateAccount(a) \/ SwitchAccount(a)
      PROVE  auth'[u][p] # "NONE"
    BY <1>0, <1>2 DEF CreateAccount, SwitchAccount
<1>3. ASSUME NEW v \in User, DeleteUser(v)
      PROVE  auth'[u][p] # "NONE"
    BY <1>0, <1>3 DEF DeleteUser, DataTypeOK
<1>4. ASSUME NEW v \in Provider, DeleteProvider(v)
      PROVE  auth'[u][p] # "NONE"
    BY <1>0, <1>4 DEF DeleteProvider, DataTypeOK
<1>5. ASSUME NEW v \in User, NEW w \in Provider,
             Ask(v, w) \/ Approve(v, w) \/ Withdraw(v, w) \/ Reject(v, w)
      PROVE  auth'[u][p] # "NONE"
  <2>1. subs'[u][p] = subs[u][p] /\ (Reject(v, w) => subs[v][w] = {})
      BY <1>5 DEF Ask, Approve, Withdraw, Reject
  <2>2. \E st \in Status : SetAuth(v, w, st) /\ (st = "NONE" => Reject(v, w))
      BY <1>5 DEF Ask, Approve, Withdraw, Reject, Status
  <2>3. \E st \in Status : /\ auth'[u][p] = IF u = v /\ p = w THEN st ELSE auth[u][p]
                           /\ st = "NONE" => Reject(v, w)
      BY <2>2 DEF SetAuth, DataTypeOK
  <2> QED BY <1>0, <2>1, <2>3
<1>6. ASSUME NEW v \in User, NEW w \in Provider, Disconnect(v, w)
      PROVE  auth'[u][p] # "NONE"
    BY <1>0, <1>6 DEF Disconnect, SetAuth, SetSubs, DataTypeOK
<1>7. ASSUME NEW v \in User, NEW w \in Provider, NEW s \in SubId,
             AddSub(v, w, s) \/ DropSub(v, w, s)
      PROVE  auth'[u][p] # "NONE"
    BY <1>0, <1>7 DEF AddSub, DropSub, SetSubs, DataTypeOK
<1> QED BY <1>1, <1>2, <1>3, <1>4, <1>5, <1>6, <1>7 DEF ConsentNext, AccountNext

LEMMA AlwaysSettled ==
    ASSUME NEW o, Request = {o}
    PROVE  Spec => [](SubsHaveRow /\ Knows(req[o]))
<1>1. Init => SubsHaveRow /\ Knows(req[o])
    BY IdleKnows DEF Init, DataInit, SubsHaveRow
<1>2. /\ SubsHaveRow /\ Knows(req[o]) /\ TypeOK /\ TypeOK' /\ OwnedRows /\ [Next]_vars
      => SubsHaveRow' /\ Knows(req[o])'
    BY NextKnows, NextConsents, ConsentKeepsRow DEF Settled, TypeOK
<1> QED BY <1>1, <1>2, TypeCorrect, OwnedRowsHold, PTL DEF Spec

\* The handlers, query by query, implement the atomic connection API when no
\* two requests overlap.
THEOREM HandlersImplementConsent ==
    ASSUME NEW o, Request = {o}
    PROVE  Spec => ConsentSpec
<1>1. Init => DataInit BY DEF Init
<1>2. TypeOK /\ OwnedRows /\ SubsHaveRow /\ Knows(req[o]) /\ [Next]_vars => [ConsentNext]_data
    BY NextConsents DEF Settled
<1> QED BY <1>1, <1>2, AlwaysSettled, TypeCorrect, OwnedRowsHold, PTL DEF Spec, ConsentSpec

\* A provider keeps no subscription the user cannot see and withdraw, while
\* requests do not overlap.
THEOREM SerialSubsHaveRow ==
    ASSUME NEW o, Request = {o}
    PROVE  Spec => []SubsHaveRow
BY AlwaysSettled, PTL

\* Only a pending row becomes approved, while requests do not overlap.
THEOREM SerialPendingApproved ==
    ASSUME NEW o, Request = {o}
    PROVE  Spec => OnlyPendingApproved
<1>1. ASSUME DataTypeOK, [ConsentNext]_data, NEW u \in User, NEW p \in Provider,
             auth'[u][p] = "APPROVED"
      PROVE  auth[u][p] \in {"PENDING", "APPROVED"}
  <2>1. CASE auth'[u][p] = auth[u][p] BY <1>1, <2>1
  <2>2. CASE AccountNext
      BY <1>1, <2>2, AccountRows
  <2>3. ASSUME NEW v \in User, NEW w \in Provider,
               Ask(v, w) \/ Approve(v, w) \/ Withdraw(v, w) \/ Reject(v, w) \/ Disconnect(v, w)
        PROVE  auth[u][p] \in {"PENDING", "APPROVED"}
    <3>1. \E st \in Status : SetAuth(v, w, st) /\ (st = "APPROVED" => auth[v][w] = "PENDING")
        BY <2>3 DEF Ask, Approve, Withdraw, Reject, Disconnect, Status
    <3>2. \E st \in Status : /\ auth'[u][p] = IF u = v /\ p = w THEN st ELSE auth[u][p]
                             /\ st = "APPROVED" => auth[v][w] = "PENDING"
        BY <1>1, <3>1 DEF SetAuth, DataTypeOK
    <3> QED BY <1>1, <3>2
  <2>4. ASSUME NEW v \in User, NEW w \in Provider, NEW s \in SubId,
               AddSub(v, w, s) \/ DropSub(v, w, s)
        PROVE  auth'[u][p] = auth[u][p]
      BY <2>4 DEF AddSub, DropSub
  <2> QED BY <1>1, <2>1, <2>2, <2>3, <2>4 DEF ConsentNext, data
<1>2. TypeOK /\ [ConsentNext]_data
        => [\A u \in User, p \in Provider :
              auth'[u][p] = "APPROVED" => auth[u][p] \in {"PENDING", "APPROVED"}]_vars
    BY <1>1 DEF TypeOK
<1>3. TypeOK /\ OwnedRows /\ SubsHaveRow /\ Knows(req[o]) /\ [Next]_vars => [ConsentNext]_data
    BY NextConsents DEF Settled
<1> QED BY <1>2, <1>3, AlwaysSettled, TypeCorrect, OwnedRowsHold, PTL
        DEF Spec, OnlyPendingApproved

\* What a request takes away it was asked to take away.
LEMMA HandleLoses ==
    ASSUME NEW r \in Request, Settled(r), Handle(r), NEW u \in User, NEW p \in Provider
    PROVE  \/ subs[u][p] \subseteq subs'[u][p]
           \/ /\ req[r] # Idle /\ req'[r] = Idle
              /\ req[r].op \in {"deleteSub", "disconnect"}
              /\ req[r].u = u /\ req[r].p = p
<1>1. PICK q : q = req[r] OBVIOUS
<1>2. TypeOK /\ Knows(q) BY <1>1 DEF Settled
<1>3. CASE ReadRow(r) \/ Insert(r) \/ Reset(r) \/ Count(r) \/ Grant(r) \/ List(r)
           \/ Revoke(r) \/ Wipe(r) \/ CountSubs(r) \/ Load(r)
    BY <1>3 DEF ReadRow, Insert, Reset, Count, Grant, List, Revoke, Wipe, CountSubs, Load, data
<1>4. CASE InsertSub(r)
  <2>1. q \in Active /\ q.u \in User /\ q.p \in Provider
      BY <1>1, <1>2, <1>4, StepIsActive DEF InsertSub, Active
  <2>2. CASE subs' = subs BY <2>2
  <2>3. ASSUME NEW s \in SubId, SetSubs(q.u, q.p, subs[q.u][q.p] \cup {s})
        PROVE  subs[u][p] \subseteq subs'[u][p]
    <3>1. subs'[u][p] = IF u = q.u /\ p = q.p THEN subs[q.u][q.p] \cup {s} ELSE subs[u][p]
        BY <1>2, <2>1, <2>3, SubsAt
    <3> QED BY <3>1
  <2> QED BY <1>1, <1>4, <2>2, <2>3 DEF InsertSub
<1>5. CASE Erase(r) \/ DeleteSub(r)
  <2>1. /\ q.pc \in {"erase", "dropSub"} /\ q \in Active /\ q.u \in User /\ q.p \in Provider
        /\ Finish(r) /\ SetSubs(q.u, q.p, subs[q.u][q.p] \ q.doomed)
      BY <1>1, <1>2, <1>5, StepIsActive DEF Erase, DeleteSub, Active
  <2>2. q # Idle /\ req'[r] = Idle BY <1>2, <2>1 DEF Finish, TypeOK, Idle
  <2>3. q.op \in {"deleteSub", "disconnect"} \/ subs[q.u][q.p] = {}
      BY <1>2, <2>1 DEF Knows
  <2>4. (u = q.u /\ p = q.p) \/ subs'[u][p] = subs[u][p]
      BY <1>2, <2>1, SubsAt
  <2> QED BY <1>1, <2>2, <2>3, <2>4
<1> QED BY <1>3, <1>4, <1>5 DEF Handle

\* A subscription goes only on purpose, while requests do not overlap: a
\* rejection loses none.
THEOREM SerialSubsLost ==
    ASSUME NEW o, Request = {o}
    PROVE  Spec => SubsLostOnPurpose
<1>1. ASSUME Settled(o), [Next]_vars, NEW u \in User, NEW p \in Provider
      PROVE  \/ subs[u][p] \subseteq subs'[u][p]
             \/ account' # account
             \/ \E r \in Request : /\ req[r] # Idle /\ req'[r] = Idle
                                   /\ req[r].op \in {"deleteSub", "disconnect"}
                                   /\ req[r].u = u /\ req[r].p = p
  <2>1. CASE UNCHANGED vars BY <2>1 DEF vars
  <2>2. CASE AccountNext
    <3>1. ASSUME NEW a \in Hash, CreateAccount(a) \/ SwitchAccount(a)
          PROVE  subs' = subs
        BY <3>1 DEF CreateAccount, SwitchAccount
    <3>2. ASSUME NEW v \in Hash, Exists(v), account' = [account EXCEPT ![v] = "deleted"]
          PROVE  account' # account
        BY <1>1, <3>2 DEF Exists, Settled, TypeOK, DataTypeOK
    <3>3. ASSUME NEW v \in User, DeleteUser(v) PROVE account' # account
        BY <3>2, <3>3 DEF DeleteUser, Hash
    <3>4. ASSUME NEW v \in Provider, DeleteProvider(v) PROVE account' # account
        BY <3>2, <3>4 DEF DeleteProvider, Hash
    <3> QED BY <2>2, <3>1, <3>3, <3>4 DEF AccountNext
  <2>3. CASE Abort(o) BY <2>3 DEF Abort, data
  <2>4. CASE Arrive(o)
      BY <2>4 DEF Arrive, ConnectionRequested, ConnectionRelayed, ApprovalCalled,
         RejectionCalled, RevocationCalled, ProviderCalled, CreateAccount, data
  <2>5. CASE Handle(o)
    <3>1. o \in Request OBVIOUS
    <3> QED BY <1>1, <2>5, <3>1, HandleLoses
  <2> QED BY <1>1, <2>1, <2>2, <2>3, <2>4, <2>5 DEF Next, AccountStep
<1>2. TypeOK /\ OwnedRows /\ SubsHaveRow /\ Knows(req[o]) /\ [Next]_vars
        => [\A u \in User, p \in Provider :
              \/ subs[u][p] \subseteq subs'[u][p]
              \/ account' # account
              \/ \E r \in Request : /\ req[r] # Idle /\ req'[r] = Idle
                                    /\ req[r].op \in {"deleteSub", "disconnect"}
                                    /\ req[r].u = u /\ req[r].p = p]_vars
    BY <1>1 DEF Settled
<1> QED BY <1>2, AlwaysSettled, TypeCorrect, OwnedRowsHold, PTL DEF Spec, SubsLostOnPurpose

=============================================================================
