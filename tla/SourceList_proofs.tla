-------------------------- MODULE SourceList_proofs --------------------------
(***************************************************************************)
(* Proofs about SourceList, for every set of subscriptions and sources and *)
(* every limit: the types, for any number of requests in flight, and the   *)
(* limit, the cache and the order of a replacement while requests do not   *)
(* overlap.                                                                *)
(***************************************************************************)
EXTENDS SourceList, FiniteSetTheorems, TLAPS

-----------------------------------------------------------------------------
(* Sources with their places, and lists of sources                         *)

LEMMA PlacesAre ==
    ASSUME NEW f \in Places
    PROVE  DOMAIN f \in SUBSET Item /\ f \in [DOMAIN f -> 0 .. 2 * MaxSources]
BY DEF Places

LEMMA NoRowsPlaced == NoRows \in Places /\ DOMAIN NoRows = {}
<1>1. NoRows \in [{} -> 0 .. 2 * MaxSources] /\ {} \in SUBSET Item
    BY DEF NoRows
<1> QED BY <1>1 DEF Places, NoRows

LEMMA PlacedIs ==
    ASSUME NEW q, q.mine \in Places, NEW x \in Item,
           q.base + q.done \in 0 .. 2 * MaxSources
    PROVE  /\ Placed(q, x) \in Places
           /\ DOMAIN Placed(q, x) = DOMAIN q.mine \cup {x}
           /\ \A y \in DOMAIN q.mine \cup {x} :
                  Placed(q, x)[y] = IF y = x THEN q.base + q.done ELSE q.mine[y]
<1> DEFINE X == DOMAIN q.mine \cup {x}
<1>1. X \in SUBSET Item /\ q.mine \in [DOMAIN q.mine -> 0 .. 2 * MaxSources]
    BY PlacesAre
<1>2. \A y \in X : (IF y = x THEN q.base + q.done ELSE q.mine[y]) \in 0 .. 2 * MaxSources
    BY <1>1
<1>3. Placed(q, x) \in [X -> 0 .. 2 * MaxSources]
    BY <1>2 DEF Placed
<1>4. Placed(q, x) \in Places
    BY <1>1, <1>3 DEF Places
<1> QED BY <1>4 DEF Placed

LEMMA WrittenIs ==
    ASSUME NEW q, q.mine \in Places, rows[q.s] \in Places
    PROVE  Written(q) \in Places /\ DOMAIN Written(q) = Has(q.s) \cup DOMAIN q.mine
<1> DEFINE X == Has(q.s) \cup DOMAIN q.mine
<1>1. /\ q.mine \in [DOMAIN q.mine -> 0 .. 2 * MaxSources]
      /\ rows[q.s] \in [Has(q.s) -> 0 .. 2 * MaxSources]
      /\ X \in SUBSET Item
    BY PlacesAre DEF Has
<1>2. \A x \in X : (IF x \in DOMAIN q.mine THEN q.mine[x] ELSE rows[q.s][x]) \in 0 .. 2 * MaxSources
    BY <1>1
<1>3. Written(q) \in [X -> 0 .. 2 * MaxSources]
    BY <1>2 DEF Written
<1>4. Written(q) \in Places
    BY <1>1, <1>3 DEF Places
<1> QED BY <1>4 DEF Written

LEMMA RestrictPlaced ==
    ASSUME NEW f \in Places, NEW X, X \subseteq DOMAIN f
    PROVE  Restrict(f, X) \in Places /\ DOMAIN Restrict(f, X) = X
<1>1. Restrict(f, X) = [x \in X |-> f[x]]
    BY DEF Restrict
<1>2. X \in SUBSET Item /\ Restrict(f, X) \in [X -> 0 .. 2 * MaxSources]
    BY <1>1, PlacesAre
<1> QED BY <1>1, <1>2 DEF Places

LEMMA ListsAre ==
    ASSUME NEW list \in Lists
    PROVE  /\ list \in Seq(Item)
           /\ Len(list) \in 0 .. MaxSources
           /\ ToSet(list) \in SUBSET Item
<1>1. PICK m \in 0 .. MaxSources : list \in [1 .. m -> Item]
    BY DEF Lists, BoundedSeq, SeqOf
<1>2. m \in Nat BY <1>1, SourceAssumption
<1>3. list \in Seq(Item) /\ Len(list) = m BY <1>1, <1>2
<1> QED BY <1>1, <1>3 DEF ToSet

-----------------------------------------------------------------------------
(* Types                                                                   *)

\* The list a request brings is no longer than the limit, and no place is taken
\* beyond it, so that every order_index is in range.
Fits(q) == q.pc # "idle" => Len(q.list) <= MaxSources /\ q.done <= Len(q.list)
Bounded == \A r \in Request : Fits(req[r])

Typed == TypeOK /\ Bounded

LEMMA BusyIsActive ==
    ASSUME TypeOK, NEW r \in Request, req[r].pc # "idle"
    PROVE  req[r] \in Active
BY DEF TypeOK, Idle

\* What a step on one slot has to show.
LEMMA SlotTypes ==
    ASSUME Typed, NEW r \in Request, NEW q \in Active \cup {Idle}, Fits(q),
           req' = [req EXCEPT ![r] = q]
    PROVE  req' \in [Request -> {Idle} \cup Active] /\ Bounded'
<1>1. req' \in [Request -> {Idle} \cup Active]
    BY DEF Typed, TypeOK
<1>2. ASSUME NEW x \in Request PROVE Fits(req'[x])
    BY <1>2 DEF Typed, TypeOK, Bounded
<1> QED BY <1>1, <1>2 DEF Bounded, Fits

LEMMA FinishTypes ==
    ASSUME Typed, NEW r \in Request, Finish(r)
    PROVE  req' \in [Request -> {Idle} \cup Active] /\ Bounded'
<1>1. Fits(Idle) BY DEF Fits, Idle
<1> QED BY <1>1, SlotTypes DEF Finish

LEMMA BeginTypes ==
    ASSUME Typed, NEW r \in Request, NEW s \in Sub, NEW list \in Lists,
           NEW op \in {"create", "add", "replace", "remove", "delete", "refresh"},
           NEW pc \in {"fetch", "unique", "limit"}, NEW gone \in SUBSET Item,
           Begin(r, op, pc, s, list, gone)
    PROVE  Typed'
<1> DEFINE q == [pc |-> pc, op |-> op, s |-> s, list |-> list, done |-> 0, loaded |-> Has(s),
                 gone |-> gone, doomed |-> {}, fetched |-> {}, seen |-> {}, base |-> 0,
                 mine |-> NoRows, inserted |-> {}]
<1>1. list \in Seq(Item) /\ Len(list) \in 0 .. MaxSources
    BY ListsAre
<1>2. Has(s) \in SUBSET Item
    BY PlacesAre DEF Typed, TypeOK, Has
<1>3. 0 \in 0 .. MaxSources BY SourceAssumption
<1>4. q \in Active
    BY <1>1, <1>2, <1>3, NoRowsPlaced DEF Active
<1>5. Fits(q) BY <1>1 DEF Fits
<1>6. req' = [req EXCEPT ![r] = q]
    BY DEF Begin
<1> HIDE DEF q
<1>7. req' \in [Request -> {Idle} \cup Active] /\ Bounded'
    BY <1>4, <1>5, <1>6, SlotTypes
<1> QED BY <1>7 DEF Begin, Typed, TypeOK

LEMMA ArriveTypes ==
    ASSUME Typed, NEW r \in Request, Arrive(r)
    PROVE  Typed'
<1>1. <<>> \in Lists
  <2>1. 0 \in 0 .. MaxSources BY SourceAssumption
  <2>2. <<>> \in [1 .. 0 -> Item] OBVIOUS
  <2> QED BY <2>1, <2>2 DEF Lists, BoundedSeq, SeqOf
<1>2. live \subseteq Sub /\ \A s \in Sub : Has(s) \in SUBSET Item
    BY PlacesAre DEF Typed, TypeOK, Has
<1>3. CASE Create(r) BY <1>3, BeginTypes DEF Create
<1>4. CASE Add(r) BY <1>2, <1>4, BeginTypes DEF Add
<1>5. CASE Replace(r)
  <2>1. PICK s \in live, list \in Lists :
            Begin(r, "replace", IF Has(s) \ ToSet(list) = {} THEN "limit" ELSE "unique",
                  s, list, Has(s) \ ToSet(list))
      BY <1>5 DEF Replace
  <2> QED BY <1>2, <2>1, BeginTypes
<1>6. CASE RemoveSources(r) BY <1>1, <1>2, <1>6, BeginTypes DEF RemoveSources
<1>7. CASE Delete(r) BY <1>1, <1>2, <1>7, BeginTypes DEF Delete
<1>8. CASE Refresh(r) BY <1>1, <1>2, <1>8, BeginTypes DEF Refresh
<1> QED BY <1>3, <1>4, <1>5, <1>6, <1>7, <1>8 DEF Arrive

\* A source of the list is a source, and its place is in range.
LEMMA NextSource ==
    ASSUME Typed, NEW r \in Request, More(r, req[r])
    PROVE  /\ req[r] \in Active
           /\ Head1(req[r]) \in Item
           /\ req[r].base + req[r].done \in 0 .. 2 * MaxSources
           /\ req[r].done + 1 \in Nat
           /\ req[r].done + 1 <= Len(req[r].list)
<1>1. req[r] \in Active BY BusyIsActive DEF Typed, More
<1>2. /\ req[r].list \in Seq(Item) /\ req[r].done \in Nat
      /\ req[r].base \in 0 .. MaxSources /\ MaxSources \in Nat
    BY <1>1, SourceAssumption DEF Active
<1>3. req[r].done < Len(req[r].list) /\ Len(req[r].list) <= MaxSources
    BY DEF More, Typed, Bounded, Fits
<1>4. req[r].done + 1 \in 1 .. Len(req[r].list)
    BY <1>2, <1>3
<1>5. Head1(req[r]) \in Item
    BY <1>2, <1>4 DEF Head1
<1> QED BY <1>1, <1>2, <1>3, <1>5

LEMMA HandleTypes ==
    ASSUME Typed, NEW r \in Request, Handle(r)
    PROVE  Typed'
<1> DEFINE q == req[r]
<1> USE DEF Typed
<1>0. req \in [Request -> {Idle} \cup Active] /\ q.pc # "idle" /\ q \in Active
  <2>1. q.pc # "idle"
      BY DEF Handle, FetchAll, Unique, Drop, Limit, TooMany, Update, Insert, Commit, More
  <2> QED BY <2>1, BusyIsActive DEF TypeOK
<1>00. Fits(q) /\ Len(q.list) \in Nat /\ q.done \in Nat
    BY <1>0 DEF Bounded, Active
<1>1. CASE FetchAll(r)
  <2>0. PICK skipped \in SUBSET (q.loaded \cap cached) :
            \E failed \in SUBSET ((q.loaded \cap Url) \ skipped) :
            req' = [req EXCEPT ![r].pc = IF failed = {} THEN "drop" ELSE "unique",
                               ![r].gone = failed,
                               ![r].fetched = (q.loaded \cap Url) \ skipped]
      BY <1>1 DEF FetchAll
  <2>1. PICK failed \in SUBSET ((q.loaded \cap Url) \ skipped) :
            req' = [req EXCEPT ![r].pc = IF failed = {} THEN "drop" ELSE "unique",
                               ![r].gone = failed,
                               ![r].fetched = (q.loaded \cap Url) \ skipped]
      BY <2>0
  <2> DEFINE t == [q EXCEPT !.pc = IF failed = {} THEN "drop" ELSE "unique",
                            !.gone = failed, !.fetched = (q.loaded \cap Url) \ skipped]
  <2>2. t \in Active BY <1>0, SourceAssumption DEF Active
  <2>3. Fits(t) BY <1>0, <1>00 DEF Fits, Active
  <2>4. req' = [req EXCEPT ![r] = t] BY <1>0, <2>1
  <2> HIDE DEF t
  <2> QED BY <2>2, <2>3, <2>4, <1>1, SlotTypes DEF FetchAll, TypeOK
<1>2. CASE Unique(r)
  <2> DEFINE D == {u \in q.gone \cap q.loaded \cap Url : Cardinality(Users(u)) = 1}
             t == [q EXCEPT !.pc = "drop", !.doomed = D]
  <2>1. D \in SUBSET Url OBVIOUS
  <2>4. req' = [req EXCEPT ![r] = t] BY <1>0, <1>2 DEF Unique
  <2> HIDE DEF D
  <2>2. t \in Active BY <1>0, <2>1 DEF Active
  <2>3. Fits(t) BY <1>0, <1>00 DEF Fits, Active
  <2> HIDE DEF t
  <2> QED BY <2>2, <2>3, <2>4, <1>2, SlotTypes DEF Unique, TypeOK
<1>3. CASE Drop(r)
  <2>1. q.s \in Sub /\ q.gone \in SUBSET Item /\ q.fetched \in SUBSET Url
      BY <1>0 DEF Active
  <2>2. Restrict(rows[q.s], DOMAIN rows[q.s] \ q.gone) \in Places
      BY <2>1, RestrictPlaced DEF TypeOK
  <2>3. live' \subseteq Sub /\ rows' \in [Sub -> Places] /\ cached' \subseteq Url
      BY <1>3, <2>1, <2>2 DEF Drop, TypeOK
  <2>4. CASE q.op = "replace"
    <3> DEFINE t == [q EXCEPT !.pc = "limit", !.loaded = @ \ q.gone, !.gone = {}, !.doomed = {}]
    <3>1. req' = [req EXCEPT ![r] = t] BY <1>0, <1>3, <2>4 DEF Drop
    <3>2. t \in Active BY <1>0 DEF Active
    <3>3. Fits(t) BY <1>0, <1>00 DEF Fits, Active
    <3> HIDE DEF t
    <3> QED BY <2>3, <3>1, <3>2, <3>3, SlotTypes DEF TypeOK
  <2>5. CASE q.op # "replace"
      BY <1>3, <2>3, <2>5, FinishTypes DEF Drop, TypeOK
  <2> QED BY <2>4, <2>5
<1>4. CASE Limit(r)
  <2> DEFINE n == Cardinality(Has(q.s))
  <2>1. Has(q.s) \in SUBSET Item /\ IsFiniteSet(Item)
      BY <1>0, PlacesAre, SourceAssumption DEF Active, TypeOK, Has
  <2>2. n \in Nat /\ MaxSources \in Nat
      BY <2>1, FS_Subset, FS_CardinalityType, SourceAssumption
  <2> HIDE DEF n
  <2>3. CASE n >= MaxSources
    <3> DEFINE t == [q EXCEPT !.pc = "full"]
    <3>1. req' = [req EXCEPT ![r] = t] BY <1>0, <1>4, <2>3 DEF Limit, n
    <3>2. t \in Active BY <1>0 DEF Active
    <3>3. Fits(t) BY <1>0, <1>00 DEF Fits, Active
    <3> HIDE DEF t
    <3> QED BY <1>4, <3>1, <3>2, <3>3, SlotTypes DEF Limit, TypeOK
  <2>4. CASE ~(n >= MaxSources)
    <3> DEFINE b == IF q.op = "replace" THEN 0 ELSE n
               t == [q EXCEPT !.pc = "apply", !.seen = Has(q.s), !.base = b]
    <3>1. req' = [req EXCEPT ![r] = t] BY <1>0, <1>4, <2>4 DEF Limit, n
    <3>2. b \in 0 .. MaxSources BY <2>2, <2>4
    <3> HIDE DEF b
    <3>3. t \in Active BY <1>0, <2>1, <3>2 DEF Active
    <3>4. Fits(t) BY <1>0, <1>00 DEF Fits, Active
    <3> HIDE DEF t
    <3> QED BY <1>4, <3>1, <3>3, <3>4, SlotTypes DEF Limit, TypeOK
  <2> QED BY <2>3, <2>4
<1>5. CASE TooMany(r)
  <2> DEFINE t == [q EXCEPT !.pc = "full"]
  <2>1. req' = [req EXCEPT ![r] = t] BY <1>0, <1>5 DEF TooMany
  <2>2. t \in Active BY <1>0 DEF Active
  <2>3. Fits(t) BY <1>0, <1>00 DEF Fits, Active
  <2> HIDE DEF t
  <2> QED BY <1>5, <2>1, <2>2, <2>3, SlotTypes DEF TooMany, TypeOK
<1>6. CASE Update(r) \/ Insert(r)
  <2> DEFINE x == Head1(q)
             P == Placed(q, x)
  <2>1. /\ x \in Item /\ q.done + 1 \in Nat /\ q.done + 1 <= Len(q.list)
        /\ q.base + q.done \in 0 .. 2 * MaxSources
      BY <1>6, NextSource DEF Update, Insert
  <2>2. P \in Places BY <1>0, <2>1, PlacedIs DEF Active
  <2>3. ASSUME NEW t \in Active, t.done = q.done + 1, t.list = q.list,
               req' = [req EXCEPT ![r] = t]
        PROVE  Typed'
    <3>1. Fits(t) BY <1>00, <1>0, <2>1, <2>3 DEF Fits
    <3> QED BY <1>6, <2>3, <3>1, SlotTypes DEF Update, Insert, TypeOK
  <2> HIDE DEF x, P
  <2>4. CASE Update(r)
    <3> DEFINE t == [q EXCEPT !.done = @ + 1, !.seen = @ \cup {x}, !.mine = P]
    <3>1. t \in Active /\ t.done = q.done + 1 /\ t.list = q.list
        BY <1>0, <2>1, <2>2 DEF Active
    <3>2. req' = [req EXCEPT ![r] = t] BY <1>0, <2>4 DEF Update, x, P
    <3> HIDE DEF t
    <3> QED BY <2>3, <3>1, <3>2
  <2>5. CASE Insert(r) /\ x \in q.seen
    <3> DEFINE t == [q EXCEPT !.done = @ + 1]
    <3>1. t \in Active /\ t.done = q.done + 1 /\ t.list = q.list
        BY <1>0, <2>1 DEF Active
    <3>2. req' = [req EXCEPT ![r] = t] BY <1>0, <2>5 DEF Insert, x, P
    <3> HIDE DEF t
    <3> QED BY <2>3, <3>1, <3>2
  <2>6. CASE Insert(r) /\ x \notin q.seen
    <3> DEFINE F == IF x \in Url /\ Users(x) = {} THEN q.fetched \cup {x} ELSE q.fetched
               t == [q EXCEPT !.done = @ + 1, !.seen = @ \cup {x}, !.mine = P,
                              !.inserted = @ \cup {x}, !.fetched = F]
    <3>1. req' = [req EXCEPT ![r] = t] BY <1>0, <2>6 DEF Insert, x, P
    <3>2. F \in SUBSET Url BY <1>0 DEF Active
    <3> HIDE DEF F
    <3>3. t \in Active /\ t.done = q.done + 1 /\ t.list = q.list
        BY <1>0, <2>1, <2>2, <3>2 DEF Active
    <3> HIDE DEF t
    <3> QED BY <2>3, <3>1, <3>3
  <2> QED BY <1>6, <2>4, <2>5, <2>6
<1>7. CASE Commit(r)
  <2>1. q.s \in Sub /\ q.mine \in Places /\ q.fetched \in SUBSET Url
      BY <1>0 DEF Active
  <2>2. Written(q) \in Places BY <2>1, WrittenIs DEF TypeOK
  <2>3. live' \subseteq Sub /\ rows' \in [Sub -> Places] /\ cached' \subseteq Url
      BY <1>7, <2>1, <2>2 DEF Commit, TypeOK
  <2> QED BY <1>7, <2>3, FinishTypes DEF Commit, TypeOK
<1> QED BY <1>1, <1>2, <1>3, <1>4, <1>5, <1>6, <1>7 DEF Handle

LEMMA NextTypes == Typed /\ [Next]_vars => Typed'
<1> SUFFICES ASSUME Typed, [Next]_vars PROVE Typed'
    OBVIOUS
<1>1. CASE UNCHANGED vars
    BY <1>1 DEF vars, Typed, TypeOK, Bounded, Fits
<1>2. ASSUME NEW r \in Request, Arrive(r) PROVE Typed'
    BY <1>2, ArriveTypes
<1>3. ASSUME NEW r \in Request, Handle(r) PROVE Typed'
    BY <1>3, HandleTypes
<1>4. ASSUME NEW r \in Request, Abort(r) PROVE Typed'
    BY <1>4, FinishTypes DEF Abort, Typed, TypeOK
<1>5. ASSUME NEW r \in Request, Wipe(r) PROVE Typed'
  <2>1. PICK S \in SUBSET live :
            live' = live \ S /\ rows' = [s \in Sub |-> IF s \in S THEN NoRows ELSE rows[s]]
      BY <1>5 DEF Wipe
  <2>2. live' \subseteq Sub /\ rows' \in [Sub -> Places]
      BY <2>1, NoRowsPlaced DEF Typed, TypeOK
  <2> QED BY <1>5, <2>2 DEF Wipe, Typed, TypeOK, Bounded, Fits
<1> QED BY <1>1, <1>2, <1>3, <1>4, <1>5 DEF Next

LEMMA InitTyped == Init => Typed
BY NoRowsPlaced DEF Init, Typed, TypeOK, Bounded, Fits, Idle

\* Subscriptions, sources, cache rows and requests have their types, and every
\* order_index is in range, however requests overlap.
THEOREM TypeCorrect == Spec => []TypeOK
<1>1. Typed => TypeOK BY DEF Typed
<1> QED BY <1>1, InitTyped, NextTypes, PTL DEF Spec

-----------------------------------------------------------------------------
(* One request at a time                                                   *)
(*                                                                         *)
(* While requests do not overlap, what a request has loaded stays what is  *)
(* stored, so the rows it finds used once are used by its subscription     *)
(* alone, and the sources it counts are those its commit leaves.           *)

\* A replacement keeps what its list names, from the places of the list on.
Replacing(q) ==
    /\ q.pc \in {"unique", "drop"} => q.gone = Has(q.s) \ ToSet(q.list)
    /\ q.pc \in {"limit", "apply"} => Has(q.s) \subseteq ToSet(q.list)
    /\ q.pc = "apply" =>
        /\ q.base = 0
        /\ DOMAIN q.mine = {q.list[i] : i \in 1 .. q.done}
        /\ \A i \in 1 .. q.done :
              (\A j \in (i + 1) .. q.done : q.list[j] # q.list[i])
                  => q.mine[q.list[i]] = i - 1

\* What a request has counted, and which of the URLs it writes are in the cache.
Adding(q) ==
    /\ q.seen = Has(q.s) \cup DOMAIN q.mine
    /\ Cardinality(q.seen) <= MaxSources
    /\ \A u \in DOMAIN q.mine \cap Url : u \in cached \cup q.fetched

Sound(q) ==
    q.pc # "idle" =>
        /\ q.loaded = Has(q.s)
        /\ q.pc = "fetch" => q.op = "refresh" /\ q.doomed = {}
        /\ q.pc = "drop" => q.doomed = {u \in q.gone \cap q.loaded \cap Url :
                                            Cardinality(Users(u)) = 1}
        /\ q.pc \in {"fetch", "unique", "drop", "limit"} => q.mine = NoRows /\ q.done = 0
        /\ q.pc = "apply" => Adding(q)
        /\ q.op = "replace" => Replacing(q)

Kept == SourceLimit /\ CachedWhileUsed

LEMMA FiniteUsers == \A u : IsFiniteSet(Users(u))
<1> TAKE u
<1>1. Users(u) \in SUBSET Sub BY DEF Users
<1> QED BY <1>1, FS_Subset, SourceAssumption

\* A URL of the subscription that is used once is used there alone.
LEMMA UsedThere ==
    ASSUME NEW u, NEW s \in Sub, u \in Has(s), Cardinality(Users(u)) = 1
    PROVE  Users(u) = {s}
<1>1. PICK x : Users(u) = {x}
    BY FiniteUsers, FS_Singleton
<1>2. s \in Users(u) BY DEF Users
<1> QED BY <1>1, <1>2

LEMMA IdleSound == Sound(Idle)
BY DEF Sound, Idle

\* A request that arrives holds what is stored, and counts nothing yet.
LEMMA ArriveSound ==
    ASSUME NEW r, Request = {r}, Typed, Kept, Arrive(r)
    PROVE  Kept' /\ Sound(req[r])'
<1>1. rows' = rows /\ cached' = cached
    BY DEF Arrive, Create, Add, Replace, RemoveSources, Delete, Refresh, Begin
<1>2. Kept'
    BY <1>1 DEF Kept, SourceLimit, CachedWhileUsed, Users, Has
<1>3. PICK op, pc, s, list, gone :
        /\ Begin(r, op, pc, s, list, gone)
        /\ pc \in {"fetch", "limit", "unique"}
        /\ pc = "fetch" => op = "refresh"
        /\ op = "replace" => /\ pc = IF gone = {} THEN "limit" ELSE "unique"
                             /\ gone = Has(s) \ ToSet(list)
  <2>1. CASE Create(r) BY <2>1 DEF Create
  <2>2. CASE Add(r) BY <2>2 DEF Add
  <2>3. CASE Replace(r)
    <3>1. PICK s \in live, list \in Lists :
              Begin(r, "replace", IF Has(s) \ ToSet(list) = {} THEN "limit" ELSE "unique",
                    s, list, Has(s) \ ToSet(list))
        BY <2>3 DEF Replace
    <3> QED BY <3>1
  <2>4. CASE RemoveSources(r) BY <2>4 DEF RemoveSources
  <2>5. CASE Delete(r) BY <2>5 DEF Delete
  <2>6. CASE Refresh(r) BY <2>6 DEF Refresh
  <2> QED BY <2>1, <2>2, <2>3, <2>4, <2>5, <2>6 DEF Arrive
<1> DEFINE q == [pc |-> pc, op |-> op, s |-> s, list |-> list, done |-> 0, loaded |-> Has(s),
                 gone |-> gone, doomed |-> {}, fetched |-> {}, seen |-> {}, base |-> 0,
                 mine |-> NoRows, inserted |-> {}]
<1>4. req' = [req EXCEPT ![r] = q] BY <1>3 DEF Begin
<1>5. req'[r] = q BY <1>4 DEF Typed, TypeOK
<1>6. q.pc # "apply" /\ q.pc # "drop" /\ q.pc # "idle"
    BY <1>3
<1>7. op = "replace" => /\ pc = "unique" => gone = Has(s) \ ToSet(list)
                        /\ pc = "limit" => Has(s) \subseteq ToSet(list)
    BY <1>3
<1>8. Has(s)' = Has(s) BY <1>1 DEF Has
<1>9. Sound(req[r])'
    BY <1>3, <1>5, <1>6, <1>7, <1>8 DEF Sound, Replacing
<1> QED BY <1>2, <1>9

\* A commit of removals takes the cache rows of exactly those URLs that lose their
\* last use.
LEMMA DropClears ==
    ASSUME NEW r \in Request, Typed, CachedWhileUsed, Sound(req[r]), Drop(r)
    PROVE  /\ \A s \in Sub : Has(s)' = IF s = req[r].s THEN Has(s) \ req[r].gone ELSE Has(s)
           /\ CachedWhileUsed'
           /\ \A u \in Url : Users(u) # {} /\ Users(u)' = {} => u \notin cached'
<1> DEFINE q == req[r]
           D == {u \in q.gone \cap q.loaded \cap Url : Cardinality(Users(u)) = 1}
<1>1. q \in Active /\ q.s \in Sub
    BY BusyIsActive DEF Drop, Typed, Active
<1>0. PICK t \in Sub : t = q.s BY <1>1
<1>2. q.loaded = Has(t) /\ q.doomed = D
    BY <1>0 DEF Sound, Drop
<1>3. Has(t)' = Has(t) \ q.gone
  <2>1. rows'[t] = Restrict(rows[t], DOMAIN rows[t] \ q.gone)
      BY <1>0 DEF Drop, Typed, TypeOK
  <2> QED BY <2>1, RestrictPlaced DEF Has, Typed, TypeOK
<1>4. \A s \in Sub : s # t => Has(s)' = Has(s)
    BY <1>0 DEF Drop, Has, Typed, TypeOK
<1>5. cached' = (cached \cup q.fetched) \ D
    BY <1>2 DEF Drop
<1>6. ASSUME NEW u, u \in D PROVE Users(u)' = {}
  <2>1. Users(u) = {t} BY <1>2, <1>6, UsedThere
  <2>2. u \in q.gone BY <1>6
  <2> QED BY <1>3, <1>4, <2>1, <2>2 DEF Users
<1>7. \A u : Users(u)' \subseteq Users(u)
    BY <1>3, <1>4 DEF Users
<1>8. CachedWhileUsed'
    BY <1>5, <1>6, <1>7 DEF CachedWhileUsed
<1>9. \A u \in Url : Users(u) # {} /\ Users(u)' = {} => u \in D
  <2> SUFFICES ASSUME NEW u \in Url, NEW s \in Users(u), Users(u)' = {} PROVE u \in D
      OBVIOUS
  <2>1. \A x \in Users(u) : x = t BY <1>4 DEF Users
  <2>2. Users(u) = {t} BY <2>1
  <2>3. u \in Has(t) /\ u \notin Has(t)' BY <2>2 DEF Users
  <2>4. Cardinality(Users(u)) = 1 BY <2>2, FS_Singleton
  <2> QED BY <1>2, <1>3, <2>3, <2>4
<1>10. \A u \in D : u \notin cached' BY <1>5
<1> HIDE DEF D
<1> QED BY <1>0, <1>3, <1>4, <1>8, <1>9, <1>10

LEMMA DropSound ==
    ASSUME NEW r, Request = {r}, Typed, Kept, Sound(req[r]), Drop(r)
    PROVE  Kept' /\ Sound(req[r])'
<1> DEFINE q == req[r]
<1>1. q \in Active /\ q.s \in Sub
    BY BusyIsActive DEF Drop, Typed, Active
<1>2. /\ \A s \in Sub : Has(s)' = IF s = q.s THEN Has(s) \ q.gone ELSE Has(s)
      /\ CachedWhileUsed'
    BY DropClears DEF Kept
<1>3. SourceLimit'
  <2> SUFFICES ASSUME NEW s \in Sub PROVE Cardinality(Has(s)') <= MaxSources
      BY DEF SourceLimit
  <2>1. Has(s) \in SUBSET Item BY PlacesAre DEF Typed, TypeOK, Has
  <2>2. IsFiniteSet(Has(s)) BY <2>1, FS_Subset, SourceAssumption
  <2>3. Has(s)' \in SUBSET Has(s) BY <1>2
  <2>4. IsFiniteSet(Has(s)') /\ Cardinality(Has(s)') <= Cardinality(Has(s))
      BY <2>2, <2>3, FS_Subset
  <2>5. Cardinality(Has(s)) \in Nat /\ Cardinality(Has(s)') \in Nat
      BY <2>2, <2>4, FS_CardinalityType
  <2> QED BY <2>4, <2>5, SourceAssumption DEF Kept, SourceLimit
<1>4. CASE q.op = "replace"
  <2> DEFINE t == [q EXCEPT !.pc = "limit", !.loaded = @ \ q.gone, !.gone = {}, !.doomed = {}]
  <2>1. req'[r] = t BY <1>1, <1>4 DEF Drop, Typed, TypeOK
  <2>2. /\ t.pc = "limit" /\ t.loaded = q.loaded \ q.gone /\ t.s = q.s /\ t.list = q.list
        /\ t.op = "replace" /\ t.mine = q.mine /\ t.done = q.done
      BY <1>1, <1>4 DEF Active
  <2> HIDE DEF t
  <2>3. q.pc = "drop" /\ q.gone = Has(q.s) \ ToSet(q.list) /\ q.loaded = Has(q.s)
      BY <1>4 DEF Drop, Sound, Replacing
  <2>4. q.mine = NoRows /\ q.done = 0
      BY <1>4, <2>3 DEF Sound
  <2>5. PICK s \in Sub : s = q.s BY <1>1
  <2>6. t.loaded = Has(s)' /\ Has(s)' \subseteq ToSet(q.list)
      BY <1>2, <2>2, <2>3, <2>5
  <2>7. Sound(req[r])'
      BY <2>1, <2>2, <2>4, <2>5, <2>6 DEF Sound, Replacing
  <2> QED BY <1>2, <1>3, <2>7 DEF Kept
<1>5. CASE q.op # "replace"
  <2>1. req'[r] = Idle BY <1>5 DEF Drop, Finish, Typed, TypeOK
  <2>2. Sound(req[r])' BY <2>1 DEF Sound, Idle
  <2> QED BY <1>2, <1>3, <2>2 DEF Kept
<1> QED BY <1>4, <1>5

\* A step of the request alone leaves what it relies on as it was.
LEMMA Unmoved ==
    ASSUME NEW r \in Request, NEW t, Sound(t), req'[r] = t,
           rows' = rows, cached' = cached
    PROVE  Sound(req[r])'
BY DEF Sound, Adding, Replacing, Has, Users

LEMMA KeptAlong ==
    ASSUME Kept, rows' = rows, cached' = cached
    PROVE  Kept'
BY DEF Kept, SourceLimit, CachedWhileUsed, Users, Has

\* One more source of the list gets its place.
LEMMA PlaceSound ==
    ASSUME NEW r \in Request, Typed, Sound(req[r]), More(r, req[r]),
           Cardinality(req[r].seen) < MaxSources,
           NEW x, x = Head1(req[r]), NEW t, t.mine = Placed(req[r], x),
           t.pc = "apply", t.s = req[r].s, t.op = req[r].op, t.list = req[r].list,
           t.loaded = req[r].loaded, t.base = req[r].base, t.done = req[r].done + 1,
           t.seen = req[r].seen \cup {x}, req[r].fetched \subseteq t.fetched,
           x \in Url => x \in cached \cup t.fetched
    PROVE  Sound(t)
<1> DEFINE q == req[r]
<1>1. /\ q \in Active /\ q.pc = "apply" /\ x \in Item
      /\ q.base + q.done \in 0 .. 2 * MaxSources
      /\ q.done \in Nat /\ q.done + 1 <= Len(q.list)
    BY NextSource DEF More, Active
<1>2. Adding(q) /\ q.loaded = Has(q.s) /\ (q.op = "replace" => Replacing(q))
    BY <1>1 DEF Sound
<1>3. /\ DOMAIN t.mine = DOMAIN q.mine \cup {x}
      /\ \A y \in DOMAIN q.mine \cup {x} :
             t.mine[y] = IF y = x THEN q.base + q.done ELSE q.mine[y]
    BY DEF Placed
<1>4. Adding(t)
  <2>1. q.seen \in SUBSET Item /\ IsFiniteSet(q.seen)
      BY <1>1, FS_Subset, SourceAssumption DEF Active
  <2>2. Cardinality(q.seen) \in Nat
      BY <2>1, FS_CardinalityType
  <2>3. Cardinality(q.seen \cup {x}) =
            IF x \in q.seen THEN Cardinality(q.seen) ELSE Cardinality(q.seen) + 1
      BY <2>1, FS_AddElement
  <2>6. Cardinality(t.seen) <= MaxSources
      BY <2>2, <2>3, SourceAssumption
  <2>4. t.seen = Has(t.s) \cup DOMAIN t.mine
      BY <1>2, <1>3 DEF Adding
  <2>5. \A u \in DOMAIN t.mine \cap Url : u \in cached \cup t.fetched
      BY <1>2, <1>3 DEF Adding
  <2> QED BY <2>4, <2>5, <2>6 DEF Adding
<1>5. ASSUME q.op = "replace" PROVE Replacing(t)
  <2> DEFINE n == q.done
             list == q.list
  <2>1. /\ q.base = 0 /\ DOMAIN q.mine = {list[i] : i \in 1 .. n}
        /\ \A i \in 1 .. n : (\A j \in (i + 1) .. n : list[j] # list[i])
                                 => q.mine[list[i]] = i - 1
        /\ Has(q.s) \subseteq ToSet(list)
      BY <1>1, <1>2, <1>5 DEF Replacing
  <2>2. n \in Nat /\ x = list[n + 1] BY <1>1 DEF Head1
  <2> HIDE DEF n, list
  <2>3. DOMAIN t.mine = {list[i] : i \in 1 .. n + 1}
    <3>1. 1 .. n + 1 = (1 .. n) \cup {n + 1} BY <2>2
    <3> QED BY <1>3, <2>1, <2>2, <3>1
  <2>4. ASSUME NEW i \in 1 .. n + 1, \A j \in (i + 1) .. n + 1 : list[j] # list[i]
        PROVE  t.mine[list[i]] = i - 1
    <3>1. CASE i = n + 1
        BY <1>3, <2>1, <2>2, <3>1 DEF n
    <3>2. CASE i # n + 1
      <4>1. i \in 1 .. n /\ n + 1 \in (i + 1) .. n + 1 BY <2>2, <3>2
      <4>2. list[i] # x BY <2>2, <2>4, <4>1
      <4>3. \A j \in (i + 1) .. n : list[j] # list[i] BY <2>2, <2>4
      <4>4. list[i] \in DOMAIN q.mine BY <2>1, <4>1
      <4>5. t.mine[list[i]] = q.mine[list[i]] BY <1>3, <4>2, <4>4
      <4> QED BY <2>1, <4>1, <4>3, <4>5
    <3> QED BY <3>1, <3>2
  <2> QED BY <2>1, <2>3, <2>4 DEF Replacing, n, list
<1> QED BY <1>2, <1>4, <1>5 DEF Sound

LEMMA WalkSound ==
    ASSUME NEW r, Request = {r}, Typed, Kept, Sound(req[r]),
           FetchAll(r) \/ Unique(r) \/ Limit(r) \/ TooMany(r) \/ Update(r) \/ Insert(r)
    PROVE  Kept' /\ Sound(req[r])'
<1> DEFINE q == req[r]
<1>1. rows' = rows /\ cached' = cached
    BY DEF FetchAll, Unique, Limit, TooMany, Update, Insert
<1>2. Kept' BY <1>1, KeptAlong
<1>3. /\ req \in [Request -> {Idle} \cup Active] /\ q \in Active /\ q.pc # "idle"
      /\ q.s \in Sub /\ r \in Request
  <2>1. q.pc # "idle"
      BY DEF FetchAll, Unique, Limit, TooMany, Update, Insert, More
  <2> QED BY <2>1, BusyIsActive DEF Typed, TypeOK, Active
<1>4. CASE FetchAll(r)
  <2>0. PICK skipped \in SUBSET (q.loaded \cap cached) :
            \E failed \in SUBSET ((q.loaded \cap Url) \ skipped) :
            req' = [req EXCEPT ![r].pc = IF failed = {} THEN "drop" ELSE "unique",
                               ![r].gone = failed,
                               ![r].fetched = (q.loaded \cap Url) \ skipped]
      BY <1>4 DEF FetchAll
  <2>1. PICK failed \in SUBSET ((q.loaded \cap Url) \ skipped) :
            req' = [req EXCEPT ![r].pc = IF failed = {} THEN "drop" ELSE "unique",
                               ![r].gone = failed,
                               ![r].fetched = (q.loaded \cap Url) \ skipped]
      BY <2>0
  <2> DEFINE t == [q EXCEPT !.pc = IF failed = {} THEN "drop" ELSE "unique",
                            !.gone = failed, !.fetched = (q.loaded \cap Url) \ skipped]
  <2>2. req'[r] = t BY <1>3, <2>1
  <2>3. q.op = "refresh" /\ q.doomed = {} /\ q.loaded = Has(q.s) /\ q.mine = NoRows /\ q.done = 0
      BY <1>3, <1>4 DEF Sound, FetchAll
  <2>4. Sound(t) BY <1>3, <2>3 DEF Sound, Active
  <2> QED BY <1>1, <1>2, <1>3, <2>2, <2>4, Unmoved
<1>5. CASE Unique(r)
  <2> DEFINE D == {u \in q.gone \cap q.loaded \cap Url : Cardinality(Users(u)) = 1}
             t == [q EXCEPT !.pc = "drop", !.doomed = D]
  <2>1. req'[r] = t BY <1>3, <1>5 DEF Unique
  <2>2. q.pc = "unique" BY <1>5 DEF Unique
  <2>3. /\ t.pc = "drop" /\ t.doomed = D /\ t.gone = q.gone /\ t.loaded = q.loaded
        /\ t.s = q.s /\ t.op = q.op /\ t.list = q.list /\ t.mine = q.mine /\ t.done = q.done
      BY <1>3 DEF Active
  <2> HIDE DEF t
  <2>4. Sound(t) BY <2>2, <2>3 DEF Sound, Replacing
  <2> QED BY <1>1, <1>2, <1>3, <2>1, <2>4, Unmoved
<1>6. CASE req' = [req EXCEPT ![r].pc = "full"]
  <2> DEFINE t == [q EXCEPT !.pc = "full"]
  <2>1. req'[r] = t BY <1>3, <1>6
  <2>2. /\ t.pc = "full" /\ t.loaded = q.loaded /\ t.s = q.s
      BY <1>3 DEF Active
  <2> HIDE DEF t
  <2>3. Sound(t) BY <1>3, <2>2 DEF Sound, Replacing
  <2> QED BY <1>1, <1>2, <1>3, <2>1, <2>3, Unmoved
<1>7. CASE TooMany(r) BY <1>6, <1>7 DEF TooMany
<1>8. CASE Limit(r)
  <2> DEFINE n == Cardinality(Has(q.s))
  <2>1. CASE n >= MaxSources BY <1>6, <1>8, <2>1 DEF Limit
  <2>2. CASE ~(n >= MaxSources)
    <3> DEFINE b == IF q.op = "replace" THEN 0 ELSE n
               t == [q EXCEPT !.pc = "apply", !.seen = Has(q.s), !.base = b]
    <3>1. req'[r] = t BY <1>3, <1>8, <2>2 DEF Limit
    <3>2. /\ t.pc = "apply" /\ t.seen = Has(q.s) /\ t.base = b /\ t.s = q.s /\ t.op = q.op
          /\ t.list = q.list /\ t.loaded = q.loaded /\ t.mine = q.mine /\ t.done = q.done
        BY <1>3 DEF Active
    <3> HIDE DEF t
    <3>3. q.pc = "limit" BY <1>8 DEF Limit
    <3>4. q.mine = NoRows /\ q.done = 0 /\ q.loaded = Has(q.s) BY <3>3 DEF Sound
    <3>5. n <= MaxSources BY <1>3 DEF Kept, SourceLimit
    <3>6. Adding(t)
        BY <3>2, <3>4, <3>5, NoRowsPlaced DEF Adding
    <3>7. q.op = "replace" => Replacing(t)
      <4>1. {q.list[i] : i \in 1 .. 0} = {} OBVIOUS
      <4> QED BY <3>2, <3>3, <3>4, <4>1, NoRowsPlaced DEF Replacing, Sound
    <3>8. Sound(t) BY <3>2, <3>4, <3>6, <3>7 DEF Sound
    <3> QED BY <1>1, <1>2, <1>3, <3>1, <3>8, Unmoved
  <2> QED BY <2>1, <2>2
<1>9. CASE Update(r) \/ Insert(r)
  <2> DEFINE x == Head1(q)
  <2>1. More(r, q) /\ Cardinality(q.seen) < MaxSources /\ q.pc = "apply"
      BY <1>9 DEF Update, Insert, More
  <2>2. /\ q.seen = Has(q.s) \cup DOMAIN q.mine /\ q.loaded = Has(q.s)
        /\ \A u \in DOMAIN q.mine \cap Url : u \in cached \cup q.fetched
      BY <1>3, <2>1 DEF Sound, Adding
  <2>3. \A u \in Url : Users(u) # {} => u \in cached
      BY DEF Kept, CachedWhileUsed
  <2>4. Exists(q, x) => x \in q.seen BY <2>2 DEF Exists
  <2>5. q.done + 1 = q.done + 1 /\ x = Head1(q) OBVIOUS
  <2> HIDE DEF x
  <2>6. CASE Update(r)
    <3> DEFINE t == [q EXCEPT !.done = @ + 1, !.seen = @ \cup {x}, !.mine = Placed(q, x)]
    <3>1. req'[r] = t BY <1>3, <2>6 DEF Update, x
    <3>2. /\ t.mine = Placed(q, x) /\ t.pc = q.pc /\ t.s = q.s /\ t.op = q.op
          /\ t.list = q.list /\ t.loaded = q.loaded /\ t.base = q.base
          /\ t.done = q.done + 1 /\ t.seen = q.seen \cup {x} /\ t.fetched = q.fetched
        BY <1>3 DEF Active
    <3> HIDE DEF t
    <3>3. x \in q.seen BY <2>4, <2>6 DEF Update, x
    <3>4. x \in Url => x \in cached \cup q.fetched
        BY <1>3, <2>2, <2>3, <3>3 DEF Users
    <3>5. Sound(t) BY <1>3, <2>1, <2>5, <3>2, <3>4, PlaceSound
    <3> QED BY <1>1, <1>2, <1>3, <3>1, <3>5, Unmoved
  <2>7. CASE Insert(r)
    <3> DEFINE F == IF x \in Url /\ Users(x) = {} THEN q.fetched \cup {x} ELSE q.fetched
               t == [q EXCEPT !.done = @ + 1, !.seen = @ \cup {x}, !.mine = Placed(q, x),
                              !.inserted = @ \cup {x}, !.fetched = F]
    <3>0. x \notin q.seen BY <2>2, <2>7 DEF Insert, Exists, x
    <3>1. req'[r] = t BY <1>3, <2>7, <3>0 DEF Insert, x
    <3>2. /\ t.mine = Placed(q, x) /\ t.pc = q.pc /\ t.s = q.s /\ t.op = q.op
          /\ t.list = q.list /\ t.loaded = q.loaded /\ t.base = q.base
          /\ t.done = q.done + 1 /\ t.seen = q.seen \cup {x} /\ t.fetched = F
        BY <1>3 DEF Active
    <3> HIDE DEF t
    <3>3. q.fetched \subseteq F /\ (x \in Url => x \in cached \cup F)
        BY <2>3
    <3> HIDE DEF F
    <3>4. Sound(t) BY <1>3, <2>1, <2>5, <3>2, <3>3, PlaceSound
    <3> QED BY <1>1, <1>2, <1>3, <3>1, <3>4, Unmoved
  <2> QED BY <1>9, <2>6, <2>7
<1> QED BY <1>4, <1>5, <1>7, <1>8, <1>9

\* A commit of additions leaves what the request has counted.
LEMMA CommitLeaves ==
    ASSUME NEW r \in Request, Typed, Sound(req[r]), Commit(r)
    PROVE  /\ req[r].s \in Sub /\ Adding(req[r])
           /\ rows'[req[r].s] = Written(req[r])
           /\ DOMAIN rows'[req[r].s] = req[r].seen
           /\ \A s \in Sub : Has(s)' = IF s = req[r].s THEN req[r].seen ELSE Has(s)
<1> DEFINE q == req[r]
<1>1. q \in Active /\ q.s \in Sub /\ q.pc = "apply"
    BY BusyIsActive DEF Commit, Typed, Active
<1>2. Adding(q) BY <1>1 DEF Sound
<1>3. rows'[q.s] = Written(q) /\ \A s \in Sub : s # q.s => rows'[s] = rows[s]
    BY <1>1 DEF Commit, Typed, TypeOK
<1>4. DOMAIN Written(q) = q.seen
    BY <1>2 DEF Written, Adding
<1> QED BY <1>1, <1>2, <1>3, <1>4 DEF Has

LEMMA CommitSound ==
    ASSUME NEW r, Request = {r}, Typed, Kept, Sound(req[r]), Commit(r)
    PROVE  Kept' /\ Sound(req[r])'
<1> DEFINE q == req[r]
<1>1. /\ q.s \in Sub /\ Adding(q)
      /\ \A s \in Sub : Has(s)' = IF s = q.s THEN q.seen ELSE Has(s)
    BY CommitLeaves
<1>2. SourceLimit'
    BY <1>1 DEF Kept, SourceLimit, Adding
<1>3. CachedWhileUsed'
  <2> SUFFICES ASSUME NEW u \in Url, NEW s \in Sub, u \in Has(s)' PROVE u \in cached'
      BY DEF CachedWhileUsed, Users
  <2>1. cached' = cached \cup q.fetched BY DEF Commit
  <2>2. (\E x \in Sub : u \in Has(x)) => u \in cached
      BY DEF Kept, CachedWhileUsed, Users
  <2>3. u \in Has(s) \/ u \in Has(q.s) \/ u \in DOMAIN q.mine
      BY <1>1 DEF Adding
  <2> QED BY <1>1, <2>1, <2>2, <2>3 DEF Adding
<1>4. Sound(req[r])'
  <2>1. req'[r] = Idle BY DEF Commit, Finish, Typed, TypeOK
  <2> QED BY <2>1 DEF Sound, Idle
<1> QED BY <1>2, <1>3, <1>4 DEF Kept

LEMMA NextSound ==
    ASSUME NEW r, Request = {r}, Typed, Kept, Sound(req[r]), [Next]_vars
    PROVE  Kept' /\ Sound(req[r])'
<1>1. CASE UNCHANGED vars
  <2>1. rows' = rows /\ cached' = cached /\ req' = req BY <1>1 DEF vars
  <2>2. r \in Request OBVIOUS
  <2> QED BY <2>1, <2>2, KeptAlong, Unmoved
<1>2. CASE Arrive(r) BY <1>2, ArriveSound
<1>3. CASE Handle(r) BY <1>3, WalkSound, DropSound, CommitSound DEF Handle
<1>4. CASE Abort(r)
  <2>1. req'[r] = Idle /\ rows' = rows /\ cached' = cached
      BY <1>4 DEF Abort, Finish, Typed, TypeOK
  <2>2. r \in Request OBVIOUS
  <2> QED BY <2>1, <2>2, IdleSound, KeptAlong, Unmoved
<1>5. CASE Wipe(r)
  <2>1. PICK S \in SUBSET live :
            rows' = [s \in Sub |-> IF s \in S THEN NoRows ELSE rows[s]]
      BY <1>5 DEF Wipe
  <2>2. \A s \in Sub : Has(s)' = {} \/ Has(s)' = Has(s)
      BY <2>1, NoRowsPlaced DEF Has
  <2>3. SourceLimit'
      BY <2>2, FS_EmptySet, SourceAssumption DEF Kept, SourceLimit
  <2>4. CachedWhileUsed'
      BY <1>5, <2>2 DEF Wipe, Kept, CachedWhileUsed, Users
  <2>5. Sound(req[r])' BY <1>5 DEF Wipe, Sound, Idle
  <2> QED BY <2>3, <2>4, <2>5 DEF Kept
<1>6. [Next]_vars => \/ UNCHANGED vars \/ Arrive(r) \/ Handle(r) \/ Abort(r) \/ Wipe(r)
    BY DEF Next
<1> QED BY <1>1, <1>2, <1>3, <1>4, <1>5, <1>6

\* The invariant of a run without overlap, and that it is one.
Serial(r) == Typed /\ Kept /\ Sound(req[r])

LEMMA InitSerial == ASSUME NEW r, Request = {r}, Init PROVE Serial(r)
<1>1. SourceLimit
    BY NoRowsPlaced, FS_EmptySet, SourceAssumption DEF Init, SourceLimit, Has
<1>2. CachedWhileUsed
    BY NoRowsPlaced DEF Init, CachedWhileUsed, Users, Has
<1>3. Sound(req[r]) BY IdleSound DEF Init
<1> QED BY <1>1, <1>2, <1>3, InitTyped DEF Serial, Kept

LEMMA SerialAlways ==
    ASSUME NEW o, Request = {o}
    PROVE  Spec => []Serial(o)
<1>1. Init => Serial(o) BY InitSerial
<1>2. Serial(o) /\ [Next]_vars => Serial(o)'
    BY NextSound, NextTypes DEF Serial
<1> QED BY <1>1, <1>2, PTL DEF Spec

\* No subscription has more sources than the limit, over adding, replacing and
\* removing in any order (services/subscription_service.py:_add_sources_internal).
THEOREM LimitHolds ==
    ASSUME NEW o, Request = {o}
    PROVE  Spec => []SourceLimit
<1>1. Serial(o) => SourceLimit BY DEF Serial, Kept
<1> QED BY <1>1, SerialAlways, PTL

\* Every URL in use has its cache row (_delete_from_cache, _add_external_source).
THEOREM UsedIsCached ==
    ASSUME NEW o, Request = {o}
    PROVE  Spec => []CachedWhileUsed
<1>1. Serial(o) => CachedWhileUsed BY DEF Serial, Kept
<1> QED BY <1>1, SerialAlways, PTL

\* The cache row of a URL goes in the commit that takes its last use, but for bulk
\* deletion (_delete_from_cache).
THEOREM LastUseClears ==
    ASSUME NEW o, Request = {o}
    PROVE  Spec => CacheGoesWithLastUse
<1>1. Serial(o) /\ [Next]_vars =>
        [\A u \in Url : Users(u) # {} /\ u \in cached' /\ Users(u)' = {}
                            => \E r \in Request : Wipe(r)]_vars
  <2> SUFFICES ASSUME Serial(o), [Next]_vars, NEW u \in Url, Users(u) # {}, u \in cached',
                      Users(u)' = {}, ~UNCHANGED vars
               PROVE  \E x \in Request : Wipe(x)
      OBVIOUS
  <2>1. Arrive(o) \/ Handle(o) \/ Abort(o) \/ Wipe(o) BY DEF Next
  <2>2. ASSUME rows' = rows PROVE FALSE BY <2>2 DEF Users, Has
  <2>3. CASE Arrive(o)
      BY <2>2, <2>3 DEF Arrive, Create, Add, Replace, RemoveSources, Delete, Refresh, Begin
  <2>4. CASE Abort(o) BY <2>2, <2>4 DEF Abort
  <2>5. CASE Drop(o) BY <2>5, DropClears DEF Serial, Kept
  <2>6. CASE Commit(o)
    <3>1. \A s \in Sub : Has(s) \subseteq Has(s)'
        BY <2>6, CommitLeaves DEF Serial, Adding
    <3> QED BY <3>1 DEF Users
  <2>7. CASE Handle(o) /\ ~Drop(o) /\ ~Commit(o)
      BY <2>2, <2>7 DEF Handle, FetchAll, Unique, Limit, TooMany, Update, Insert
  <2>8. CASE Wipe(o) BY <2>8
  <2> QED BY <2>1, <2>3, <2>4, <2>5, <2>6, <2>7, <2>8
<1> QED BY <1>1, SerialAlways, PTL DEF Spec, CacheGoesWithLastUse

\* A replacement leaves the sources of its list, in the order of the list
\* (replace_sources).
THEOREM ReplacementOrders ==
    ASSUME NEW o, Request = {o}
    PROVE  Spec => ReplacedInOrder
<1> DEFINE Latest(list, i) == \A j \in (i + 1) .. Len(list) : list[j] # list[i]
<1>1. ASSUME Serial(o), Commit(o), req[o].op = "replace"
      PROVE  LET q == req[o]
             IN  /\ DOMAIN rows'[q.s] = ToSet(q.list)
                 /\ \A i, j \in DOMAIN q.list :
                       Latest(q.list, i) /\ Latest(q.list, j) /\ i < j =>
                           rows'[q.s][q.list[i]] < rows'[q.s][q.list[j]]
  <2> DEFINE q == req[o]
  <2>1. q \in Active /\ q.pc = "apply" /\ q.done = Len(q.list) /\ q.list \in Seq(Item)
      BY <1>1, BusyIsActive DEF Serial, Typed, Commit, Active
  <2>2. Replacing(q) BY <1>1, <2>1 DEF Serial, Sound
  <2>3. /\ Adding(q) /\ rows'[q.s] = Written(q) /\ DOMAIN rows'[q.s] = q.seen
      BY <1>1, CommitLeaves DEF Serial
  <2>4. DOMAIN q.list = 1 .. Len(q.list) BY <2>1
  <2>5. DOMAIN q.mine = ToSet(q.list) /\ Has(q.s) \subseteq ToSet(q.list)
      BY <2>1, <2>2, <2>4 DEF Replacing, ToSet
  <2>6. DOMAIN rows'[q.s] = ToSet(q.list)
      BY <2>3, <2>5 DEF Adding
  <2>7. ASSUME NEW i \in DOMAIN q.list, Latest(q.list, i)
        PROVE  rows'[q.s][q.list[i]] = i - 1
    <3>1. q.list[i] \in DOMAIN q.mine BY <2>5, <2>7 DEF ToSet
    <3>2. q.mine[q.list[i]] = i - 1 BY <2>1, <2>2, <2>4, <2>7 DEF Replacing
    <3> QED BY <2>3, <3>1, <3>2 DEF Written
  <2>8. \A i \in DOMAIN q.list : i \in Int BY <2>4
  <2>9. ASSUME NEW i \in DOMAIN q.list, NEW j \in DOMAIN q.list,
               Latest(q.list, i), Latest(q.list, j), i < j
        PROVE  rows'[q.s][q.list[i]] < rows'[q.s][q.list[j]]
    <3>1. rows'[q.s][q.list[i]] = i - 1 /\ rows'[q.s][q.list[j]] = j - 1
        BY <2>7, <2>9
    <3> QED BY <2>8, <2>9, <3>1
  <2> HIDE DEF q, Latest
  <2> QED BY <2>6, <2>9 DEF q
<1>2. Serial(o) /\ [Next]_vars =>
        [\A r \in Request :
            LET q == req[r]
                last(i) == \A j \in (i + 1) .. Len(q.list) : q.list[j] # q.list[i]
            IN  Commit(r) /\ q.op = "replace" =>
                    /\ DOMAIN rows'[q.s] = ToSet(q.list)
                    /\ \A i, j \in DOMAIN q.list :
                          last(i) /\ last(j) /\ i < j =>
                              rows'[q.s][q.list[i]] < rows'[q.s][q.list[j]]]_vars
    BY <1>1
<1> QED BY <1>2, SerialAlways, PTL DEF Spec, ReplacedInOrder

=============================================================================
