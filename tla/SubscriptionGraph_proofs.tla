----------------------- MODULE SubscriptionGraph_proofs -----------------------
(***************************************************************************)
(* Proofs about SubscriptionGraph, for every set of tokens and every limit *)
(* of the nesting depth: the types, for any number of requests in flight,  *)
(* and, while requests do not overlap, that no cycle is stored, what a     *)
(* reference may name, and that references are refused for a reason.       *)
(***************************************************************************)
EXTENDS SubscriptionGraph, FiniteSetTheorems, SequenceTheorems, TLAPS

-----------------------------------------------------------------------------
(* The stack of the walk                                                   *)

\* What dropping references from the top frame does to a stack.
LEMMA PoppedStack ==
    ASSUME NEW st \in Seq(Frame), Len(st) >= 1, NEW R \in SUBSET Token
    PROVE  LET p == [st EXCEPT ![Len(st)].rest = R]
           IN  /\ p \in Seq(Frame)
               /\ Len(p) = Len(st)
               /\ \A i \in 1 .. Len(st) :
                     /\ p[i].node = st[i].node
                     /\ p[i].rest = IF i = Len(st) THEN R ELSE st[i].rest
<1> DEFINE f == [st[Len(st)] EXCEPT !.rest = R]
<1>1. Len(st) \in 1 .. Len(st) /\ st[Len(st)] \in Frame
    BY LenProperties, ElementOfSeq
<1>2. f \in Frame /\ f.node = st[Len(st)].node /\ f.rest = R
    BY <1>1 DEF Frame
<1>3. [st EXCEPT ![Len(st)].rest = R] = [st EXCEPT ![Len(st)] = f]
    OBVIOUS
<1> HIDE DEF f
<1> QED BY <1>1, <1>2, <1>3, ExceptSeq

\* What a new call on top does.
LEMMA PushedStack ==
    ASSUME NEW st \in Seq(Frame), NEW f \in Frame, NEW p, p = Append(st, f)
    PROVE  /\ p \in Seq(Frame)
           /\ Len(p) = Len(st) + 1
           /\ \A i \in 1 .. Len(st) : p[i] = st[i]
           /\ p[Len(st) + 1] = f
BY LenProperties

\* What a return does.
LEMMA ReturnedStack ==
    ASSUME NEW st \in Seq(Frame), Len(st) > 1, NEW p, p = SubSeq(st, 1, Len(st) - 1)
    PROVE  /\ p \in Seq(Frame)
           /\ Len(p) = Len(st) - 1
           /\ \A i \in 1 .. Len(st) - 1 : p[i] = st[i]
BY LenProperties, ElementOfSeq, SubSeqProperties

-----------------------------------------------------------------------------
(* Types                                                                   *)

\* The walk never holds more calls than the depth allows, so that every budget
\* it notes is in range.
WalkBounded ==
    \A r \in Request : req[r].pc = "check" => Len(req[r].stack) \in 1 .. MaxNesting + 2

LEMMA BusyIsActive ==
    ASSUME TypeOK, NEW r \in Request, req[r].pc # "idle"
    PROVE  req[r] \in Active
BY DEF TypeOK, Idle

LEMMA SuccType == ASSUME NEW x PROVE Succ(x) \in SUBSET Token
BY DEF Succ

LEMMA FollowTypes ==
    ASSUME TypeOK, WalkBounded, NEW r \in Request, Follow(r)
    PROVE  req' \in [Request -> {Idle} \cup Active] /\ WalkBounded'
<1> DEFINE q == req[r]
           n == Len(q.stack)
<1>1. q \in Active BY BusyIsActive DEF Follow
<1>2. q.stack \in Seq(Frame) /\ n \in 1 .. MaxNesting + 2 /\ MaxNesting \in Nat
    BY <1>1, GraphAssumption DEF Active, WalkBounded, Follow
<1>3. PICK c \in Top(q).rest :
        req' = IF Raises(q, c)
               THEN [req EXCEPT ![r].pc = "refused"]
               ELSE IF Memoised(q, c)
               THEN [req EXCEPT ![r].stack = [q.stack EXCEPT ![n].rest = @ \ {c}]]
               ELSE [req EXCEPT ![r].stack =
                         Append([q.stack EXCEPT ![n].rest = @ \ {c}],
                                [node |-> c, rest |-> Succ(c)])]
    BY DEF Follow
<1>4. Top(q) \in Frame /\ Top(q) = q.stack[n]
    BY <1>2, ElementOfSeq DEF Top
<1>5. c \in Token BY <1>3, <1>4 DEF Frame
<1> DEFINE R == q.stack[n].rest \ {c}
           popped == [q.stack EXCEPT ![n].rest = R]
           pushed == Append(popped, [node |-> c, rest |-> Succ(c)])
<1>6. R \in SUBSET Token BY <1>4 DEF Frame
<1> HIDE DEF R
<1>7. popped \in Seq(Frame) /\ Len(popped) = n
  <2>1. n >= 1 BY <1>2
  <2> QED BY <1>2, <1>6, <2>1, PoppedStack
<1>8. pushed \in Seq(Frame) /\ Len(pushed) = n + 1
    BY <1>5, <1>7, SuccType, PushedStack DEF Frame
<1>9. popped = [q.stack EXCEPT ![n].rest = @ \ {c}]
    BY DEF R
<1> HIDE DEF popped, pushed
<1>10. CASE Raises(q, c)
    BY <1>1, <1>3, <1>10 DEF TypeOK, Active, WalkBounded
<1>11. CASE ~Raises(q, c) /\ Memoised(q, c)
  <2>1. req' = [req EXCEPT ![r].stack = popped]
      BY <1>3, <1>9, <1>11
  <2> QED BY <2>1, <1>1, <1>2, <1>7 DEF TypeOK, Active, WalkBounded
<1>12. CASE ~Raises(q, c) /\ ~Memoised(q, c)
  <2>1. req' = [req EXCEPT ![r].stack = pushed]
      BY <1>3, <1>9, <1>12 DEF pushed
  <2>2. n + 1 \in 1 .. MaxNesting + 2
      BY <1>2, <1>12 DEF Raises, Depth
  <2> QED BY <2>1, <2>2, <1>1, <1>8 DEF TypeOK, Active, WalkBounded
<1> QED BY <1>10, <1>11, <1>12

LEMMA WalkEndTypes ==
    ASSUME TypeOK, WalkBounded, NEW r \in Request, Return(r) \/ Pass(r)
    PROVE  req' \in [Request -> {Idle} \cup Active] /\ WalkBounded'
<1> DEFINE q == req[r]
           n == Len(q.stack)
<1>1. q \in Active BY BusyIsActive DEF Return, Pass
<1>2. q.stack \in Seq(Frame) /\ n \in 1 .. MaxNesting + 2 /\ MaxNesting \in Nat
    BY <1>1, GraphAssumption DEF Active, WalkBounded, Return, Pass
<1>3. CASE Return(r)
  <2> DEFINE p == SubSeq(q.stack, 1, n - 1)
             m == MaxNesting - (n - 2)
  <2>1. n > 1 /\ req' = [req EXCEPT ![r].stack = p, ![r].memo[Top(q).node] = m]
      BY <1>3 DEF Return
  <2>2. p \in Seq(Frame) /\ Len(p) = n - 1
      BY <1>2, <2>1, ReturnedStack
  <2>3. m \in -1 .. MaxNesting
    <3>1. n > 1 BY <2>1
    <3> HIDE DEF n
    <3> QED BY <1>2, <3>1
  <2> DEFINE M == [q.memo EXCEPT ![Top(q).node] = m]
  <2>4. M \in [Token -> -1 .. MaxNesting]
      BY <1>1, <2>3 DEF Active
  <2>5. req' = [req EXCEPT ![r].stack = p, ![r].memo = M]
      BY <2>1, <1>1 DEF TypeOK, Active
  <2>6. Len(p) \in 1 .. MaxNesting + 2
      BY <1>2, <2>1, <2>2
  <2> HIDE DEF p, m, M
  <2> QED BY <1>1, <2>2, <2>4, <2>5, <2>6 DEF TypeOK, Active, WalkBounded
<1>4. CASE Pass(r)
  <2>1. q.done \cup {q.target} \in SUBSET Token /\ <<>> \in Seq(Frame)
      BY <1>1 DEF Active
  <2> QED BY <1>1, <1>4, <2>1 DEF Pass, TypeOK, Active, WalkBounded
<1> QED BY <1>3, <1>4

LEMMA HandleTypes ==
    ASSUME TypeOK, WalkBounded, NEW r \in Request, Handle(r)
    PROVE  TypeOK' /\ WalkBounded'
<1> DEFINE q == req[r]
<1>1. q \in Active
    BY BusyIsActive DEF Handle, Prune, Open, Walk, Follow, Return, Pass, Commit
<1>2. /\ q.s \in Token /\ q.done \in SUBSET Token /\ q.todo \in SUBSET Token
      /\ q.loaded \in SUBSET Token
    BY <1>1 DEF Active
<1>3. CASE Prune(r)
  <2>1. status' = status /\ refs' \subseteq refs
      BY <1>3 DEF Prune
  <2>2. \/ Finish(r)
        \/ req' = [req EXCEPT ![r].pc = "next",
                              ![r].loaded = Succ(q.s) \ (q.loaded \ q.todo)]
      BY <1>3 DEF Prune
  <2>3. req' \in [Request -> {Idle} \cup Active] /\ WalkBounded'
    <3>1. CASE Finish(r)
        BY <3>1 DEF Finish, TypeOK, Idle, WalkBounded
    <3>2. Succ(q.s) \ (q.loaded \ q.todo) \in SUBSET Token
        BY SuccType
    <3>3. CASE req' = [req EXCEPT ![r].pc = "next",
                              ![r].loaded = Succ(q.s) \ (q.loaded \ q.todo)]
        BY <1>1, <3>2, <3>3 DEF TypeOK, Active, WalkBounded
    <3> QED BY <2>2, <3>1, <3>3
  <2> QED BY <2>1, <2>3 DEF TypeOK
<1>4. CASE Open(r)
  <2>1. PICK t \in q.todo :
          \/ req' = [req EXCEPT ![r].pc = "check", ![r].todo = @ \ {t}, ![r].target = t,
                               ![r].stack = <<[node |-> q.s, rest |-> {t}]>>,
                               ![r].memo = NoMemo]
          \/ req' = [req EXCEPT ![r].pc = "refused", ![r].target = t]
      BY <1>4 DEF Open
  <2>2. NoMemo \in [Token -> -1 .. MaxNesting] /\ MaxNesting \in Nat
      BY GraphAssumption DEF NoMemo
  <2> DEFINE st == <<[node |-> q.s, rest |-> {t}]>>
  <2>3. st \in Seq(Frame) /\ Len(st) = 1
      BY <1>2, <2>1 DEF Frame
  <2> HIDE DEF st
  <2>4. req' \in [Request -> {Idle} \cup Active] /\ WalkBounded'
    <3>1. CASE req' = [req EXCEPT ![r].pc = "check", ![r].todo = @ \ {t}, ![r].target = t,
                               ![r].stack = st, ![r].memo = NoMemo]
      <4> DEFINE new == [q EXCEPT !.pc = "check", !.todo = @ \ {t}, !.target = t,
                                  !.stack = st, !.memo = NoMemo]
      <4>1. new \in Active /\ new.stack = st
          BY <1>1, <1>2, <2>1, <2>2, <2>3 DEF Active
      <4>2. req' = [req EXCEPT ![r] = new]
          BY <3>1
      <4> HIDE DEF new
      <4>3. Len(new.stack) \in 1 .. MaxNesting + 2
        <5>1. Len(new.stack) = 1
            BY <2>3, <4>1, Zenon
        <5>2. 1 \in 1 .. MaxNesting + 2
            BY <2>2
        <5> QED BY <5>1, <5>2, Zenon
      <4> QED BY <4>1, <4>2, <4>3 DEF TypeOK, WalkBounded
    <3>2. CASE req' = [req EXCEPT ![r].pc = "refused", ![r].target = t]
        BY <1>1, <1>2, <2>1, <3>2 DEF TypeOK, Active, WalkBounded
    <3> QED BY <2>1, <3>1, <3>2 DEF st
  <2> QED BY <1>4, <2>4 DEF Open, TypeOK
<1>5. CASE Walk(r)
    BY <1>5, FollowTypes, WalkEndTypes DEF Walk, Follow, Return, Pass, TypeOK
<1>6. CASE Commit(r)
  <2>1. status' \in [Token -> Status] /\ refs' \subseteq Token \X Token
      BY <1>2, <1>6 DEF Commit, TypeOK, Status
  <2> QED BY <1>6, <2>1 DEF Commit, Finish, TypeOK, Idle, WalkBounded
<1> QED BY <1>3, <1>4, <1>5, <1>6 DEF Handle

LEMMA NextTypes == TypeOK /\ WalkBounded /\ [Next]_vars => TypeOK' /\ WalkBounded'
<1> SUFFICES ASSUME TypeOK, WalkBounded, [Next]_vars PROVE TypeOK' /\ WalkBounded'
    OBVIOUS
<1>1. ASSUME NEW r \in Request, Submit(r) PROVE TypeOK' /\ WalkBounded'
  <2>1. PICK s \in Token, T \in SUBSET Token, op \in {"create", "add", "replace"},
             pc \in {"prune", "next"} :
          req' = [req EXCEPT ![r] =
                [pc |-> pc, op |-> op, s |-> s, loaded |-> Succ(s), todo |-> T, target |-> s,
                 done |-> {}, stack |-> <<>>, memo |-> NoMemo]]
      BY <1>1 DEF Submit
  <2>2. NoMemo \in [Token -> -1 .. MaxNesting]
      BY GraphAssumption DEF NoMemo
  <2>3. <<>> \in Seq(Frame)
      OBVIOUS
  <2> QED BY <1>1, <2>1, <2>2, <2>3, SuccType DEF Submit, TypeOK, Active, WalkBounded
<1>2. ASSUME NEW r \in Request, Handle(r) PROVE TypeOK' /\ WalkBounded'
    BY <1>2, HandleTypes
<1>3. ASSUME NEW r \in Request, Abort(r) PROVE TypeOK' /\ WalkBounded'
    BY <1>3 DEF Abort, Finish, TypeOK, Idle, WalkBounded
<1>4. ASSUME NEW r \in Request, OneStep(r) PROVE TypeOK' /\ WalkBounded'
    BY <1>4 DEF OneStep, Remove, Delete, Wipe, TypeOK, Status, Live, WalkBounded
<1>5. CASE UNCHANGED vars
    BY <1>5 DEF vars, TypeOK, WalkBounded
<1> QED BY <1>1, <1>2, <1>3, <1>4, <1>5 DEF Next

\* Every row and record keeps its type, however many requests overlap; the
\* budgets of the memo stay between 0 and the limit.
THEOREM TypeCorrect == Spec => []TypeOK
<1>1. Init => TypeOK /\ WalkBounded
    BY DEF Init, TypeOK, Status, Idle, WalkBounded
<1> QED BY <1>1, NextTypes, PTL DEF Spec

-----------------------------------------------------------------------------
(* No cycle while requests do not overlap                                  *)
(*                                                                         *)
(* A cycle is shut out by closed sets: the targets a request has checked   *)
(* lie in a set of tokens that is closed under references and leaves out   *)
(* the subscription that is changed, so nothing they reach refers back to  *)
(* it.  The walk builds that set: it is the set of the tokens of the memo, *)
(* and it is closed because a call notes its token after all its           *)
(* references have been followed.                                          *)

\* The targets that passed reach nothing that reaches back.
Certified(q) ==
    \E C \in SUBSET Token : Closed(C) /\ q.done \subseteq C /\ q.s \notin C

\* A reference of the call in frame i is to be followed, noted in the memo, or
\* followed right now.
Covered(q, i, y) ==
    \/ y \in q.stack[i].rest
    \/ q.memo[y] >= 0
    \/ i < Len(q.stack) /\ y = q.stack[i + 1].node

Walked(q) ==
    /\ \A x, y \in Token : q.memo[x] >= 0 /\ <<x, y>> \in refs => q.memo[y] >= 0
    /\ q.memo[q.s] < 0
    /\ q.stack[1].node = q.s
    /\ Covered(q, 1, q.target)
    /\ \A i \in 2 .. Len(q.stack) :
          /\ q.stack[i].node # q.s
          /\ \A y \in Succ(q.stack[i].node) : Covered(q, i, y)

LEMMA SuccShrinks ==
    ASSUME refs' \subseteq refs, NEW x
    PROVE  Succ(x)' \subseteq Succ(x)
BY DEF Succ

LEMMA ClosedShrinks ==
    ASSUME refs' \subseteq refs, NEW C \in SUBSET Token, Closed(C)
    PROVE  Closed(C)'
BY SuccShrinks DEF Closed, Succ

\* Removing references closes no cycle.
LEMMA AcyclicShrinks ==
    ASSUME refs' \subseteq refs, Acyclic
    PROVE  Acyclic'
<1> SUFFICES ASSUME NEW x \in Token
             PROVE  \E C \in SUBSET Token : (Succ(x) \subseteq C /\ Closed(C) /\ x \notin C)'
    BY DEF Acyclic
<1>1. PICK C \in SUBSET Token : Succ(x) \subseteq C /\ Closed(C) /\ x \notin C
    BY DEF Acyclic
<1>2. Closed(C)' /\ Succ(x)' \subseteq C
    BY <1>1, ClosedShrinks, SuccShrinks
<1> QED BY <1>1, <1>2

\* The references of one request close no cycle when its targets are certified:
\* every closed set that shows that a token is on no cycle is corrected by the
\* certificate.
LEMMA AcyclicGrows ==
    ASSUME Acyclic, NEW s \in Token, NEW T \in SUBSET Token,
           NEW C \in SUBSET Token, Closed(C), T \subseteq C, s \notin C,
           refs' = refs \cup ({s} \X T)
    PROVE  Acyclic'
<1> SUFFICES ASSUME NEW x \in Token
             PROVE  \E D \in SUBSET Token : (Succ(x) \subseteq D /\ Closed(D) /\ x \notin D)'
    BY DEF Acyclic
<1>1. PICK D \in SUBSET Token : Succ(x) \subseteq D /\ Closed(D) /\ x \notin D
    BY DEF Acyclic
<1>2. \A y : Succ(y)' = IF y = s THEN Succ(y) \cup T ELSE Succ(y)
    BY DEF Succ
<1>3. Closed(C)'
    BY <1>2 DEF Closed
<1>4. CASE x = s
  <2> DEFINE E == D \cup C
  <2>1. E \in SUBSET Token /\ Succ(x)' \subseteq E /\ x \notin E
      BY <1>1, <1>2, <1>4
  <2>2. Closed(E)'
      BY <1>1, <1>2, <1>4 DEF Closed
  <2> QED BY <2>1, <2>2
<1>5. CASE x # s /\ s \notin D
  <2>1. Closed(D)' /\ Succ(x)' \subseteq D
      BY <1>1, <1>2, <1>5 DEF Closed
  <2> QED BY <1>1, <2>1
<1>6. CASE x # s /\ s \in D /\ x \in C
  <2> DEFINE E == D \cap C
  <2>1. E \in SUBSET Token /\ x \notin E
      BY <1>1
  <2>2. Succ(x)' \subseteq E
      BY <1>1, <1>2, <1>6 DEF Closed
  <2>3. Closed(E)'
      BY <1>1, <1>2 DEF Closed
  <2> QED BY <2>1, <2>2, <2>3
<1>7. CASE x # s /\ s \in D /\ x \notin C
  <2> DEFINE E == D \cup C
  <2>1. E \in SUBSET Token /\ Succ(x)' \subseteq E /\ x \notin E
      BY <1>1, <1>2, <1>7
  <2>2. Closed(E)'
      BY <1>1, <1>2, <1>7 DEF Closed
  <2> QED BY <2>1, <2>2
<1> QED BY <1>4, <1>5, <1>6, <1>7

\* One call of the walk: the reference followed is in the memo, or is now the
\* call on top.
LEMMA FollowWalked ==
    ASSUME TypeOK, WalkBounded, NEW r \in Request, Follow(r), Walked(req[r])
    PROVE  req'[r].pc = "check" => Walked(req'[r])
<1> DEFINE q == req[r]
           n == Len(q.stack)
<1>1. q \in Active BY BusyIsActive DEF Follow
<1>2. q.stack \in Seq(Frame) /\ n \in 1 .. MaxNesting + 2 /\ MaxNesting \in Nat
    BY <1>1, GraphAssumption DEF Active, WalkBounded, Follow
<1>3. PICK c \in Top(q).rest :
        req' = IF Raises(q, c)
               THEN [req EXCEPT ![r].pc = "refused"]
               ELSE IF Memoised(q, c)
               THEN [req EXCEPT ![r].stack = [q.stack EXCEPT ![n].rest = @ \ {c}]]
               ELSE [req EXCEPT ![r].stack =
                         Append([q.stack EXCEPT ![n].rest = @ \ {c}],
                                [node |-> c, rest |-> Succ(c)])]
    BY DEF Follow
<1>4. Top(q) \in Frame /\ Top(q) = q.stack[n]
    BY <1>2, ElementOfSeq DEF Top
<1>5. c \in Token BY <1>3, <1>4 DEF Frame
<1> DEFINE R == q.stack[n].rest \ {c}
           popped == [q.stack EXCEPT ![n].rest = R]
           pushed == Append(popped, [node |-> c, rest |-> Succ(c)])
<1>6. R \in SUBSET Token BY <1>4 DEF Frame
<1> HIDE DEF R
<1>7. /\ popped \in Seq(Frame) /\ Len(popped) = n
      /\ \A i \in 1 .. n : /\ popped[i].node = q.stack[i].node
                           /\ popped[i].rest = IF i = n THEN R ELSE q.stack[i].rest
  <2>1. n >= 1 BY <1>2
  <2> QED BY <1>2, <1>6, <2>1, PoppedStack
<1>8. /\ Len(pushed) = n + 1
      /\ \A i \in 1 .. n : pushed[i] = popped[i]
      /\ pushed[n + 1] = [node |-> c, rest |-> Succ(c)]
    BY <1>5, <1>7, SuccType, PushedStack DEF Frame
<1>9. popped = [q.stack EXCEPT ![n].rest = @ \ {c}]
    BY DEF R
<1>w. /\ \A x, y \in Token : q.memo[x] >= 0 /\ <<x, y>> \in refs => q.memo[y] >= 0
      /\ q.memo[q.s] < 0
      /\ q.stack[1].node = q.s
      /\ Covered(q, 1, q.target)
      /\ \A i \in 2 .. n : /\ q.stack[i].node # q.s
                           /\ \A y \in Succ(q.stack[i].node) : Covered(q, i, y)
    BY DEF Walked
<1>n. n \in Nat /\ n >= 1 /\ q.memo[c] \in Int
    BY <1>1, <1>2, <1>5 DEF Active
<1> HIDE DEF popped, pushed
<1>10. CASE Raises(q, c)
    BY <1>3, <1>10 DEF TypeOK
<1>11. CASE ~Raises(q, c) /\ Memoised(q, c)
  <2>1. /\ req'[r].stack = popped /\ req'[r].memo = q.memo
        /\ req'[r].s = q.s /\ req'[r].target = q.target
    <3>1. req' = [req EXCEPT ![r].stack = popped]
        BY <1>3, <1>9, <1>11
    <3> QED BY <3>1, <1>1 DEF TypeOK, Active
  <2>2. q.memo[c] >= 0
    <3>1. Budget(q) >= 0 /\ Budget(q) \in Int
        BY <1>2, <1>n, <1>11 DEF Raises, Budget, Depth
    <3> QED BY <1>n, <1>11, <3>1 DEF Memoised
  <2>3. \A i \in 1 .. n : \A y : Covered(q, i, y) => Covered(req'[r], i, y)
    <3> SUFFICES ASSUME NEW i \in 1 .. n, NEW y, Covered(q, i, y)
                 PROVE  Covered(req'[r], i, y)
        OBVIOUS
    <3>1. CASE i = n
        BY <1>7, <2>1, <2>2, <3>1, <1>n DEF Covered, R
    <3>2. CASE i < n
        BY <1>7, <2>1, <2>2, <3>2, <1>n DEF Covered
    <3> QED BY <3>1, <3>2, <1>n
  <2> QED BY <1>w, <1>n, <1>7, <2>1, <2>3 DEF Walked
<1>12. CASE ~Raises(q, c) /\ ~Memoised(q, c)
  <2>1. /\ req'[r].stack = pushed /\ req'[r].memo = q.memo
        /\ req'[r].s = q.s /\ req'[r].target = q.target
    <3>1. req' = [req EXCEPT ![r].stack = pushed]
        BY <1>3, <1>9, <1>12 DEF pushed
    <3> QED BY <3>1, <1>1 DEF TypeOK, Active
  <2>2. c # q.s
      BY <1>n, <1>w, <1>12 DEF Raises, Visited
  <2>3. \A i \in 1 .. n : \A y : Covered(q, i, y) => Covered(req'[r], i, y)
    <3> SUFFICES ASSUME NEW i \in 1 .. n, NEW y, Covered(q, i, y)
                 PROVE  Covered(req'[r], i, y)
        OBVIOUS
    <3>1. CASE i = n
        BY <1>7, <1>8, <2>1, <3>1, <1>n DEF Covered, R
    <3>2. CASE i < n
      <4>1. pushed[i].rest = q.stack[i].rest /\ pushed[i + 1].node = q.stack[i + 1].node
        <5>1. i \in 1 .. n /\ i + 1 \in 1 .. n /\ i # n
            BY <3>2, <1>n
        <5>2. pushed[i] = popped[i] /\ pushed[i + 1] = popped[i + 1]
            BY <1>8, <5>1
        <5> QED BY <1>7, <5>1, <5>2
      <4> QED BY <1>8, <2>1, <3>2, <4>1, <1>n DEF Covered
    <3> QED BY <3>1, <3>2, <1>n
  <2>4. \A y \in Succ(c) : Covered(req'[r], n + 1, y)
      BY <1>8, <2>1 DEF Covered
  <2>5. \A i \in 2 .. n + 1 :
            /\ pushed[i].node # q.s
            /\ \A y \in Succ(pushed[i].node) : Covered(req'[r], i, y)
    <3> SUFFICES ASSUME NEW i \in 2 .. n + 1
                 PROVE  /\ pushed[i].node # q.s
                        /\ \A y \in Succ(pushed[i].node) : Covered(req'[r], i, y)
        OBVIOUS
    <3>1. CASE i = n + 1
        BY <1>8, <2>2, <2>4, <3>1
    <3>2. CASE i \in 2 .. n
      <4>1. pushed[i].node = q.stack[i].node
          BY <1>7, <1>8, <3>2, <1>n
      <4> QED BY <1>w, <2>3, <3>2, <4>1, <1>n
    <3> QED BY <3>1, <3>2, <1>n
  <2>6. pushed[1].node = q.s /\ Covered(req'[r], 1, q.target)
      BY <1>w, <1>7, <1>8, <1>n, <2>3
  <2> QED BY <1>w, <1>8, <2>1, <2>5, <2>6 DEF Walked
<1> QED BY <1>10, <1>11, <1>12

\* A call returns: all its references are in the memo, and now it is too.
LEMMA ReturnWalked ==
    ASSUME TypeOK, WalkBounded, NEW r \in Request, Return(r), Walked(req[r])
    PROVE  Walked(req'[r])
<1> DEFINE q == req[r]
           n == Len(q.stack)
           x == Top(q).node
           p == SubSeq(q.stack, 1, n - 1)
           m == MaxNesting - (n - 2)
           M == [q.memo EXCEPT ![x] = m]
<1>1. q \in Active BY BusyIsActive DEF Return
<1>2. /\ q.stack \in Seq(Frame) /\ n \in 1 .. MaxNesting + 2 /\ MaxNesting \in Nat
      /\ q.memo \in [Token -> -1 .. MaxNesting]
    BY <1>1, GraphAssumption DEF Active, WalkBounded, Return
<1>3. n > 1 /\ Top(q).rest = {} /\ req' = [req EXCEPT ![r].stack = p, ![r].memo[x] = m]
    BY DEF Return
<1>4. Top(q) \in Frame /\ Top(q) = q.stack[n]
    BY <1>2, ElementOfSeq DEF Top
<1>5. x \in Token BY <1>4 DEF Frame
<1>6. /\ Len(p) = n - 1
      /\ \A i \in 1 .. n - 1 : p[i] = q.stack[i]
    BY <1>2, <1>3, ReturnedStack
<1>7. req'[r].stack = p /\ req'[r].memo = M /\ req'[r].s = q.s /\ req'[r].target = q.target
    BY <1>1, <1>3 DEF TypeOK, Active
<1>8. m >= 0 /\ n \in Nat /\ n >= 2
  <2>1. n > 1 BY <1>3
  <2> HIDE DEF n
  <2> QED BY <1>2, <2>1
<1>9. \A y \in Token : M[y] = IF y = x THEN m ELSE q.memo[y]
    BY <1>2
<1>w. /\ \A a, b \in Token : q.memo[a] >= 0 /\ <<a, b>> \in refs => q.memo[b] >= 0
      /\ q.memo[q.s] < 0
      /\ q.stack[1].node = q.s
      /\ Covered(q, 1, q.target)
      /\ \A i \in 2 .. n : /\ q.stack[i].node # q.s
                           /\ \A y \in Succ(q.stack[i].node) : Covered(q, i, y)
    BY DEF Walked
<1>t. q.s \in Token /\ q.target \in Token
    BY <1>1 DEF Active
<1>e. q.stack[n].rest = {} /\ q.stack[n].node = x
    BY <1>3, <1>4
<1>d. \A y : Covered(q, n, y) => q.memo[y] >= 0
    BY <1>8, <1>e DEF Covered
<1> HIDE DEF p, m, M, n, x
<1>10. \A b \in Token : <<x, b>> \in refs => q.memo[b] >= 0
    BY <1>5, <1>8, <1>w, <1>d, <1>e DEF Succ
<1>11. \A a, b \in Token : M[a] >= 0 /\ <<a, b>> \in refs => M[b] >= 0
    BY <1>8, <1>9, <1>10, <1>w
<1>12. x # q.s
    BY <1>8, <1>w, <1>e
<1>13. M[q.s] < 0
    BY <1>9, <1>12, <1>t, <1>w
<1>14. \A i \in 1 .. n - 1, y \in Token : Covered(q, i, y) => Covered(req'[r], i, y)
  <2> SUFFICES ASSUME NEW i \in 1 .. n - 1, NEW y \in Token, Covered(q, i, y)
               PROVE  Covered(req'[r], i, y)
      OBVIOUS
  <2>1. CASE y \in q.stack[i].rest
      BY <2>1, <1>6, <1>7 DEF Covered
  <2>2. CASE q.memo[y] >= 0
      BY <2>2, <1>7, <1>8, <1>9 DEF Covered
  <2>3. CASE i < n /\ y = q.stack[i + 1].node
    <3>1. CASE i + 1 = n
        BY <2>3, <3>1, <1>e, <1>7, <1>8, <1>9 DEF Covered
    <3>2. CASE i + 1 < n
        BY <2>3, <3>2, <1>6, <1>7, <1>8 DEF Covered
    <3> QED BY <3>1, <3>2, <1>8
  <2> QED BY <2>1, <2>2, <2>3 DEF Covered, n
<1>15. Covered(req'[r], 1, q.target)
    BY <1>8, <1>14, <1>t, <1>w
<1>16. \A i \in 2 .. n - 1 :
            /\ p[i].node # q.s
            /\ \A y \in Succ(p[i].node) : Covered(req'[r], i, y)
    BY <1>6, <1>8, <1>14, <1>w DEF Succ
<1> QED BY <1>6, <1>7, <1>8, <1>11, <1>13, <1>15, <1>16, <1>w DEF Walked

\* The walk is over: the tokens of the memo certify the target.
LEMMA PassCertified ==
    ASSUME TypeOK, NEW r \in Request, Pass(r), Walked(req[r]), Certified(req[r])
    PROVE  Certified(req'[r])
<1> DEFINE q == req[r]
           Noted == {x \in Token : q.memo[x] >= 0}
<1>1. q \in Active BY BusyIsActive DEF Pass
<1>2. PICK C \in SUBSET Token : Closed(C) /\ q.done \subseteq C /\ q.s \notin C
    BY DEF Certified
<1>3. Closed(Noted)
    BY DEF Walked, Closed, Succ
<1>4. q.target \in Noted
  <2>1. q.stack[1].rest = {} /\ Len(q.stack) = 1
      BY DEF Pass, Top
  <2>2. q.memo[q.target] >= 0
      BY <2>1 DEF Walked, Covered
  <2> QED BY <1>1, <2>2 DEF Active
<1>5. q.s \notin Noted
  <2>1. q.memo[q.s] \in Int /\ q.memo[q.s] < 0
      BY <1>1, GraphAssumption DEF Active, Walked
  <2> QED BY <2>1
<1>6. req'[r].done = q.done \cup {q.target} /\ req'[r].s = q.s
    BY <1>1 DEF Pass, TypeOK, Active
<1> DEFINE D == C \cup Noted
<1>7. D \in SUBSET Token /\ Closed(D)
    BY <1>2, <1>3 DEF Closed
<1>8. req'[r].done \subseteq D /\ req'[r].s \notin D
    BY <1>2, <1>4, <1>5, <1>6
<1> QED BY <1>7, <1>8 DEF Certified

\* What is known of the request in the one slot.
Sound(q) ==
    q.pc # "idle" => Certified(q) /\ (q.pc = "check" => Walked(q))

LEMMA SoundStable ==
    ASSUME refs' = refs, NEW r \in Request, Sound(req'[r])
    PROVE  Sound(req[r])'
BY DEF Sound, Certified, Closed, Walked, Covered, Succ

LEMMA HandleSound ==
    ASSUME TypeOK, WalkBounded, Acyclic, NEW r \in Request, Sound(req[r]), Handle(r)
    PROVE  Acyclic' /\ Sound(req[r])'
<1> DEFINE q == req[r]
<1>1. q \in Active /\ q.pc # "idle"
    BY BusyIsActive DEF Handle, Prune, Open, Walk, Follow, Return, Pass, Commit
<1>2. PICK C \in SUBSET Token : Closed(C) /\ q.done \subseteq C /\ q.s \notin C
    BY <1>1 DEF Sound, Certified
<1>3. CASE Prune(r)
  <2>1. refs' \subseteq refs
      BY <1>3 DEF Prune
  <2>2. req'[r] = Idle \/ (req'[r].pc = "next" /\ req'[r].s = q.s /\ req'[r].done = q.done)
      BY <1>1, <1>3 DEF Prune, Finish, TypeOK, Active
  <2>3. Closed(C)'
      BY <1>2, <2>1, ClosedShrinks
  <2> QED BY <1>2, <2>1, <2>2, <2>3, AcyclicShrinks DEF Sound, Certified, Idle
<1>4. CASE Open(r)
  <2>1. PICK t \in q.todo :
          \/ req' = [req EXCEPT ![r].pc = "check", ![r].todo = @ \ {t}, ![r].target = t,
                               ![r].stack = <<[node |-> q.s, rest |-> {t}]>>,
                               ![r].memo = NoMemo]
          \/ req' = [req EXCEPT ![r].pc = "refused", ![r].target = t]
      BY <1>4 DEF Open
  <2>2. t \in Token /\ q.s \in Token
      BY <1>1 DEF Active
  <2> DEFINE st == <<[node |-> q.s, rest |-> {t}]>>
             opened == [q EXCEPT !.pc = "check", !.todo = @ \ {t}, !.target = t,
                                 !.stack = st, !.memo = NoMemo]
             refused == [q EXCEPT !.pc = "refused", !.target = t]
  <2>a. req'[r] = opened \/ req'[r] = refused
      BY <2>1 DEF TypeOK
  <2>b. /\ opened.s = q.s /\ opened.done = q.done /\ opened.target = t
        /\ opened.memo = NoMemo /\ opened.stack = st
      BY <1>1 DEF Active
  <2>c. refused.s = q.s /\ refused.done = q.done /\ refused.pc = "refused"
      BY <1>1 DEF Active
  <2> HIDE DEF st, opened, refused
  <2>3. Certified(req'[r])
      BY <1>2, <2>a, <2>b, <2>c DEF Certified
  <2>4. ASSUME req'[r].pc = "check" PROVE Walked(req'[r])
    <3>1. /\ req'[r].target = t /\ req'[r].s = q.s /\ req'[r].memo = NoMemo
          /\ req'[r].stack = <<[node |-> q.s, rest |-> {t}]>>
        BY <2>4, <2>a, <2>b, <2>c DEF st
    <3>2. \A x \in Token : NoMemo[x] = -1
        BY DEF NoMemo
    <3> QED BY <2>2, <3>1, <3>2 DEF Walked, Covered
  <2> QED BY <1>4, <2>3, <2>4, SoundStable DEF Open, Sound, Acyclic, Succ, Closed
<1>5. CASE Follow(r)
  <2>1. Walked(q) BY <1>1, <1>5 DEF Sound, Follow
  <2>2. req'[r].s = q.s /\ req'[r].done = q.done
      BY <1>1, <1>5 DEF Follow, TypeOK, Active
  <2>3. Sound(req'[r])
      BY <1>2, <1>5, <2>1, <2>2, FollowWalked DEF Sound, Certified
  <2> QED BY <1>5, <2>3, SoundStable DEF Follow, Acyclic, Succ, Closed
<1>6. CASE Return(r)
  <2>1. Walked(q) BY <1>1, <1>6 DEF Sound, Return
  <2>2. req'[r].s = q.s /\ req'[r].done = q.done
      BY <1>1, <1>6 DEF Return, TypeOK, Active
  <2>3. Sound(req'[r])
      BY <1>2, <1>6, <2>1, <2>2, ReturnWalked DEF Sound, Certified
  <2> QED BY <1>6, <2>3, SoundStable DEF Return, Acyclic, Succ, Closed
<1>7. CASE Pass(r)
  <2>1. Walked(q) /\ Certified(q)
      BY <1>1, <1>7 DEF Sound, Pass
  <2>2. req'[r].pc = "next"
      BY <1>1, <1>7 DEF Pass, TypeOK, Active
  <2>3. Sound(req'[r])
      BY <1>7, <2>1, <2>2, PassCertified DEF Sound
  <2> QED BY <1>7, <2>3, SoundStable DEF Pass, Acyclic, Succ, Closed
<1>8. CASE Commit(r)
  <2>1. q.s \in Token /\ q.done \in SUBSET Token
      BY <1>1 DEF Active
  <2>2. refs' = refs \cup ({q.s} \X q.done)
      BY <1>8 DEF Commit
  <2>3. Acyclic'
      BY <1>2, <2>1, <2>2, AcyclicGrows
  <2>4. req'[r] = Idle
      BY <1>8 DEF Commit, Finish, TypeOK
  <2> QED BY <2>3, <2>4 DEF Sound, Idle
<1> QED BY <1>3, <1>4, <1>5, <1>6, <1>7, <1>8 DEF Handle, Walk

LEMMA NextAcyclic ==
    ASSUME NEW r \in Request, Request = {r}
    PROVE  TypeOK /\ WalkBounded /\ Acyclic /\ Sound(req[r]) /\ [Next]_vars
               => Acyclic' /\ Sound(req[r])'
<1> SUFFICES ASSUME TypeOK, WalkBounded, Acyclic, Sound(req[r]), [Next]_vars
             PROVE  Acyclic' /\ Sound(req[r])'
    OBVIOUS
<1>1. CASE Submit(r)
  <2>1. req'[r].pc \in {"prune", "next"} /\ req'[r].done = {}
      BY <1>1 DEF Submit, TypeOK
  <2>2. Closed({})
      BY DEF Closed
  <2>3. Sound(req'[r])
      BY <2>1, <2>2 DEF Sound, Certified
  <2> QED BY <1>1, <2>3, SoundStable DEF Submit, Acyclic, Succ, Closed
<1>2. CASE Handle(r)
    BY <1>2, HandleSound
<1>3. CASE Abort(r)
  <2>1. req'[r] = Idle /\ refs' = refs
      BY <1>3 DEF Abort, Finish, TypeOK
  <2> QED BY <2>1 DEF Sound, Idle, Acyclic, Succ, Closed
<1>4. CASE OneStep(r)
  <2>1. refs' \subseteq refs /\ req' = req /\ req[r] = Idle
      BY <1>4 DEF OneStep, Remove, Delete, Wipe
  <2> QED BY <2>1, AcyclicShrinks DEF Sound, Idle
<1>5. CASE UNCHANGED vars
  <2>1. refs' = refs /\ req' = req
      BY <1>5 DEF vars
  <2> QED BY <2>1, SoundStable DEF Acyclic, Succ, Closed
<1> QED BY <1>1, <1>2, <1>3, <1>4, <1>5 DEF Next

\* While requests do not overlap no cycle of references is ever stored,
\* whatever the number of subscriptions and the nesting limit are.
THEOREM SerialAcyclic ==
    ASSUME NEW r, Request = {r}
    PROVE  Spec => []Acyclic
<1>1. Init => Acyclic /\ Sound(req[r])
  <2> SUFFICES ASSUME Init PROVE Acyclic /\ Sound(req[r])
      OBVIOUS
  <2>1. \A x \in Token : Succ(x) \subseteq {} /\ Closed({}) /\ x \notin {}
      BY DEF Init, Succ, Closed
  <2> QED BY <2>1 DEF Init, Acyclic, Sound, Idle
<1>2. Init => TypeOK /\ WalkBounded
    BY DEF Init, TypeOK, Status, Idle, WalkBounded
<1>3. TypeOK /\ WalkBounded /\ Acyclic /\ Sound(req[r]) /\ [Next]_vars
        => Acyclic' /\ Sound(req[r])'
    BY NextAcyclic
<1> QED BY <1>1, <1>2, <1>3, NextTypes, PTL DEF Spec


-----------------------------------------------------------------------------
(* What a reference may name.  Within one request nothing is deleted, so   *)
(* the targets it accepts are there when its rows are written; what goes   *)
(* later takes the references to it along, unless it goes with its owner.  *)

\* The targets of a request are there.
Found(q) ==
    q.pc # "idle" => q.done \subseteq Live /\ (q.pc = "check" => q.target \in Live)

LEMMA FoundStable ==
    ASSUME Live \subseteq Live', NEW r \in Request, Found(req'[r])
    PROVE  Found(req[r])'
BY DEF Found

\* A step of a request that writes no row.
LEMMA HandleFound ==
    ASSUME TypeOK, NEW r \in Request, Found(req[r]), Prune(r) \/ Open(r) \/ Walk(r)
    PROVE  Found(req'[r]) /\ status' = status /\ refs' \subseteq refs
<1>1. PICK q : q = req[r] OBVIOUS
<1>2. q \in Active /\ q.pc # "idle"
    BY <1>1, BusyIsActive DEF Prune, Open, Walk, Follow, Return, Pass
<1>3. status' = status /\ refs' \subseteq refs
    BY DEF Prune, Open, Walk, Follow, Return, Pass
<1>4. CASE Prune(r)
  <2>1. req'[r] = Idle \/ (req'[r].pc = "next" /\ req'[r].done = q.done)
      BY <1>1, <1>2, <1>4 DEF Prune, Finish, TypeOK, Active
  <2> QED BY <1>1, <1>2, <1>3, <2>1 DEF Found, Idle
<1>5. CASE Open(r)
  <2>1. /\ req'[r].done = q.done
        /\ req'[r].pc = "refused" \/ (req'[r].pc = "check" /\ req'[r].target \in Live)
    <3>1. PICK t \in q.todo :
              req' = IF t \in Live
                     THEN [req EXCEPT ![r].pc = "check", ![r].todo = @ \ {t}, ![r].target = t,
                               ![r].stack = <<[node |-> q.s, rest |-> {t}]>>,
                               ![r].memo = NoMemo]
                     ELSE [req EXCEPT ![r].pc = "refused", ![r].target = t]
        BY <1>1, <1>5 DEF Open
    <3>2. CASE t \in Live
      <4>1. req'[r] = [q EXCEPT !.pc = "check", !.todo = @ \ {t}, !.target = t,
                                !.stack = <<[node |-> q.s, rest |-> {t}]>>, !.memo = NoMemo]
          BY <1>1, <3>1, <3>2 DEF TypeOK
      <4> QED BY <1>2, <3>2, <4>1 DEF Active
    <3>3. CASE t \notin Live
      <4>1. req'[r] = [q EXCEPT !.pc = "refused", !.target = t]
          BY <1>1, <3>1, <3>3 DEF TypeOK
      <4> QED BY <1>2, <4>1 DEF Active
    <3> QED BY <3>2, <3>3
  <2> QED BY <1>1, <1>2, <1>3, <2>1 DEF Found
<1>6. CASE Follow(r) \/ Return(r)
  <2>1. q.pc = "check" /\ req'[r].done = q.done /\ req'[r].target = q.target
    <3>1. CASE Follow(r) BY <1>1, <1>2, <3>1 DEF Follow, TypeOK, Active
    <3>2. CASE Return(r) BY <1>1, <1>2, <3>2 DEF Return, TypeOK, Active
    <3> QED BY <1>6, <3>1, <3>2
  <2> QED BY <1>1, <1>2, <1>3, <2>1 DEF Found
<1>7. CASE Pass(r)
  <2>1. q.pc = "check" /\ req'[r].pc = "next" /\ req'[r].done = q.done \cup {q.target}
      BY <1>1, <1>2, <1>7 DEF Pass, TypeOK, Active
  <2> QED BY <1>1, <1>2, <1>3, <2>1 DEF Found
<1> QED BY <1>3, <1>4, <1>5, <1>6, <1>7 DEF Walk

LEMMA NextDangling ==
    ASSUME NEW r \in Request, Request = {r}
    PROVE  TypeOK /\ DanglingOnlyWiped /\ Found(req[r]) /\ [Next]_vars
               => DanglingOnlyWiped' /\ Found(req[r])'
<1> SUFFICES ASSUME TypeOK, DanglingOnlyWiped, Found(req[r]), [Next]_vars
             PROVE  DanglingOnlyWiped' /\ Found(req[r])'
    OBVIOUS
<1>1. ASSUME status' = status, refs' \subseteq refs, Found(req'[r])
      PROVE  DanglingOnlyWiped' /\ Found(req[r])'
  <2>1. Live' = Live BY <1>1 DEF Live
  <2> QED BY <1>1, <2>1, FoundStable DEF DanglingOnlyWiped
<1>2. CASE UNCHANGED vars
    BY <1>1, <1>2 DEF vars
<1>3. CASE Submit(r)
  <2>1. req'[r].pc # "check" /\ req'[r].done = {}
      BY <1>3 DEF Submit, TypeOK
  <2> QED BY <1>1, <1>3, <2>1 DEF Submit, Found
<1>4. CASE Abort(r)
  <2>1. req'[r] = Idle BY <1>4 DEF Abort, Finish, TypeOK
  <2> QED BY <1>1, <1>4, <2>1 DEF Abort, Found, Idle
<1>5. CASE Prune(r) \/ Open(r) \/ Walk(r)
    BY <1>1, <1>5, HandleFound
<1>6. CASE Commit(r)
  <2>1. PICK q : q = req[r] OBVIOUS
  <2>2. q.s \in Token /\ q.pc = "next" /\ q.done \subseteq Live /\ req'[r] = Idle
      BY <1>6, <2>1, BusyIsActive DEF Commit, Finish, TypeOK, Active, Found
  <2>3. \A x \in Token : status'[x] = IF x = q.s THEN "live" ELSE status[x]
      BY <1>6, <2>1, <2>2 DEF Commit, TypeOK
  <2>4. Live \subseteq Live' /\ q.s \in Live'
      BY <2>2, <2>3 DEF Live
  <2>5. ASSUME NEW e \in refs' PROVE e[1] \in Live' /\ status'[e[2]] \in {"live", "wiped"}
    <3>1. CASE e \in refs
      <4>1. e[2] \in Token BY <3>1 DEF TypeOK
      <4> QED BY <2>3, <2>4, <3>1, <4>1 DEF DanglingOnlyWiped
    <3>2. CASE e \in {q.s} \X q.done
        BY <2>2, <2>3, <2>4, <3>2 DEF Live
    <3> QED BY <1>6, <2>1, <2>5, <3>1, <3>2 DEF Commit
  <2> QED BY <2>2, <2>5 DEF DanglingOnlyWiped, Found, Idle
<1>7. CASE Remove(r)
  <2>1. req'[r] = req[r] /\ status' = status /\ refs' \subseteq refs BY <1>7 DEF Remove
  <2> QED BY <1>1, <2>1
<1>8. CASE Delete(r)
  <2>1. PICK s \in Live : /\ status' = [status EXCEPT ![s] = "deleted"]
                          /\ refs' = {e \in refs : s \notin {e[1], e[2]}}
      BY <1>8 DEF Delete
  <2>2. \A x \in Token : x # s => status'[x] = status[x] BY <2>1 DEF TypeOK, Live
  <2>3. \A e \in refs' : e \in refs /\ e[1] \in Token /\ e[2] \in Token /\ e[1] # s /\ e[2] # s
      BY <2>1 DEF TypeOK
  <2>4. DanglingOnlyWiped' BY <2>2, <2>3 DEF DanglingOnlyWiped, Live
  <2>5. req'[r] = Idle BY <1>8 DEF Delete
  <2> QED BY <2>4, <2>5 DEF Found, Idle
<1>9. CASE Wipe(r)
  <2>1. PICK S \in SUBSET Live :
            /\ status' = [t \in Token |-> IF t \in S THEN "wiped" ELSE status[t]]
            /\ refs' = {e \in refs : e[1] \notin S}
      BY <1>9 DEF Wipe
  <2>2. \A x \in Token : status'[x] = IF x \in S THEN "wiped" ELSE status[x] BY <2>1
  <2>3. \A e \in refs' : e \in refs /\ e[1] \in Token /\ e[2] \in Token /\ e[1] \notin S
      BY <2>1 DEF TypeOK
  <2>4. DanglingOnlyWiped' BY <2>2, <2>3 DEF DanglingOnlyWiped, Live
  <2>5. req'[r] = Idle BY <1>9 DEF Wipe
  <2> QED BY <2>4, <2>5 DEF Found, Idle
<1> QED BY <1>2, <1>3, <1>4, <1>5, <1>6, <1>7, <1>8, <1>9 DEF Next, Handle, OneStep

\* While requests do not overlap, a reference comes from a subscription that
\* is there, and leads to one that is or that went in bulk with its owner.
THEOREM SerialDangling ==
    ASSUME NEW r, Request = {r}
    PROVE  Spec => []DanglingOnlyWiped
<1>1. Init => DanglingOnlyWiped /\ Found(req[r])
    BY DEF Init, DanglingOnlyWiped, Found, Idle
<1>2. TypeOK /\ DanglingOnlyWiped /\ Found(req[r]) /\ [Next]_vars
        => DanglingOnlyWiped' /\ Found(req[r])'
    BY NextDangling
<1> QED BY <1>1, <1>2, TypeCorrect, PTL DEF Spec


-----------------------------------------------------------------------------
(* Why a reference is refused.  The stack of the walk is a chain from the  *)
(* target.  Since nothing stored has a cycle, what the walk follows from a *)
(* call is never a token of that call or of a later one, so a token that   *)
(* is visited twice is the subscription that is changed.                   *)

\* The tokens of the calls above call i, and of all they lead to, leave out the
\* token of call i.
Apart(q, i) ==
    \E C \in SUBSET Token :
        /\ Closed(C) /\ Succ(q.stack[i].node) \subseteq C /\ q.stack[i].node \notin C
        /\ \A j \in 3 .. Len(q.stack) : j > i => q.stack[j].node \in C

\* The stack is a chain that begins with the target.
Climbed(q) ==
    /\ q.stack[1].node = q.s /\ q.stack[1].rest \subseteq {q.target}
    /\ Len(q.stack) >= 2 => q.stack[2].node = q.target
    /\ \A i \in 2 .. Len(q.stack) :
          q.stack[i].rest \subseteq Succ(q.stack[i].node) /\ Apart(q, i)
    /\ \A i \in 3 .. Len(q.stack) : q.stack[i].node \in Succ(q.stack[i - 1].node)

Justified(q) ==
    /\ q.pc = "check" => Climbed(q)
    /\ q.pc = "refused" /\ q.target \in Live => Reaches(q.target, q.s) \/ ~WithinDepth(q.target)

LEMMA JustifiedStable ==
    ASSUME refs' = refs, status' = status, NEW r \in Request, Justified(req'[r])
    PROVE  Justified(req[r])'
BY DEF Justified, Climbed, Apart, Closed, Succ, Live, Reaches, WithinDepth, Chains

\* A stack with references dropped, or calls returned, is still a chain.
LEMMA ClimbedShorter ==
    ASSUME NEW q, NEW t, Climbed(q), Len(q.stack) \in Nat, Len(t.stack) \in 1 .. Len(q.stack),
           t.s = q.s, t.target = q.target,
           \A i \in 1 .. Len(t.stack) : /\ t.stack[i].node = q.stack[i].node
                                        /\ t.stack[i].rest \subseteq q.stack[i].rest
    PROVE  Climbed(t)
<1>1. /\ \A i \in 1 .. Len(t.stack) : i \in 1 .. Len(q.stack)
      /\ \A i \in 2 .. Len(t.stack) : i \in 2 .. Len(q.stack) /\ i \in 1 .. Len(t.stack)
      /\ \A j \in 3 .. Len(t.stack) : j \in 3 .. Len(q.stack) /\ j \in 1 .. Len(t.stack)
    OBVIOUS
<1>2. ASSUME NEW i \in 2 .. Len(t.stack) PROVE Apart(t, i)
  <2>1. PICK C \in SUBSET Token :
            /\ Closed(C) /\ Succ(q.stack[i].node) \subseteq C /\ q.stack[i].node \notin C
            /\ \A j \in 3 .. Len(q.stack) : j > i => q.stack[j].node \in C
      BY <1>1 DEF Climbed, Apart
  <2>2. \A j \in 3 .. Len(t.stack) : j > i => t.stack[j].node \in C
      BY <1>1, <2>1
  <2> QED BY <2>1, <2>2 DEF Apart
<1>3. \A i \in 2 .. Len(t.stack) : t.stack[i].rest \subseteq Succ(t.stack[i].node)
    BY <1>1 DEF Climbed
<1>4. \A i \in 3 .. Len(t.stack) : t.stack[i].node \in Succ(t.stack[i - 1].node)
  <2> SUFFICES ASSUME NEW i \in 3 .. Len(t.stack)
               PROVE  t.stack[i].node \in Succ(t.stack[i - 1].node)
      OBVIOUS
  <2>1. i - 1 \in 1 .. Len(t.stack) /\ i \in 3 .. Len(q.stack) /\ i \in 1 .. Len(t.stack)
      OBVIOUS
  <2> QED BY <2>1 DEF Climbed
<1> QED BY <1>1, <1>2, <1>3, <1>4 DEF Climbed

\* The reference that is followed is above every call but the first.
LEMMA FollowedApart ==
    ASSUME NEW q, Climbed(q), Len(q.stack) \in Nat \ {0}, NEW c \in q.stack[Len(q.stack)].rest,
           NEW i \in 2 .. Len(q.stack)
    PROVE  \E C \in SUBSET Token :
              /\ Closed(C) /\ Succ(q.stack[i].node) \subseteq C /\ q.stack[i].node \notin C
              /\ \A j \in 3 .. Len(q.stack) : j > i => q.stack[j].node \in C
              /\ c \in C
<1>1. PICK C \in SUBSET Token :
          /\ Closed(C) /\ Succ(q.stack[i].node) \subseteq C /\ q.stack[i].node \notin C
          /\ \A j \in 3 .. Len(q.stack) : j > i => q.stack[j].node \in C
    BY DEF Climbed, Apart
<1>2. c \in Succ(q.stack[Len(q.stack)].node) BY DEF Climbed
<1>3. CASE i = Len(q.stack) BY <1>1, <1>2, <1>3
<1>4. CASE i < Len(q.stack)
  <2>1. q.stack[Len(q.stack)].node \in C BY <1>1, <1>4
  <2> QED BY <1>1, <1>2, <2>1 DEF Closed
<1> QED BY <1>3, <1>4

\* With one more call on top it is a chain again.
LEMMA ClimbedHigher ==
    ASSUME Acyclic, NEW q, NEW t, Climbed(q), NEW n \in Nat \ {0}, Len(q.stack) = n,
           NEW c \in q.stack[n].rest, c \in Token,
           Len(t.stack) = n + 1, t.s = q.s, t.target = q.target,
           \A i \in 1 .. n : /\ t.stack[i].node = q.stack[i].node
                             /\ t.stack[i].rest \subseteq q.stack[i].rest,
           t.stack[n + 1].node = c, t.stack[n + 1].rest = Succ(c)
    PROVE  Climbed(t)
<1>1. ASSUME NEW i \in 2 .. n + 1 PROVE Apart(t, i)
  <2>1. CASE i = n + 1
    <3>1. PICK C \in SUBSET Token : Succ(c) \subseteq C /\ Closed(C) /\ c \notin C
        BY DEF Acyclic
    <3>2. \A j \in 3 .. n + 1 : ~(j > i) BY <2>1
    <3> QED BY <2>1, <3>1, <3>2 DEF Apart
  <2>2. CASE i \in 2 .. n
    <3>1. PICK C \in SUBSET Token :
              /\ Closed(C) /\ Succ(q.stack[i].node) \subseteq C /\ q.stack[i].node \notin C
              /\ \A j \in 3 .. n : j > i => q.stack[j].node \in C
              /\ c \in C
        BY <2>2, FollowedApart
    <3>2. \A j \in 3 .. n + 1 : j > i => t.stack[j].node \in C
      <4> SUFFICES ASSUME NEW j \in 3 .. n + 1, j > i PROVE t.stack[j].node \in C
          OBVIOUS
      <4>1. CASE j = n + 1 BY <3>1, <4>1
      <4>2. CASE j \in 3 .. n BY <3>1, <4>2
      <4> QED BY <4>1, <4>2
    <3> QED BY <2>2, <3>1, <3>2 DEF Apart
  <2> QED BY <2>1, <2>2
<1>2. ASSUME NEW i \in 2 .. n + 1 PROVE t.stack[i].rest \subseteq Succ(t.stack[i].node)
  <2>1. CASE i = n + 1 BY <2>1
  <2>2. CASE i \in 2 .. n BY <2>2 DEF Climbed
  <2> QED BY <2>1, <2>2
<1>3. ASSUME NEW i \in 3 .. n + 1 PROVE t.stack[i].node \in Succ(t.stack[i - 1].node)
  <2>1. CASE i = n + 1
    <3>1. n \in 2 .. n /\ i - 1 = n BY <2>1
    <3>2. c \in Succ(q.stack[n].node) BY <3>1 DEF Climbed
    <3> QED BY <2>1, <3>1, <3>2
  <2>2. CASE i \in 3 .. n
    <3>1. i - 1 \in 1 .. n BY <2>2
    <3> QED BY <2>2, <3>1 DEF Climbed
  <2> QED BY <2>1, <2>2
<1>4. t.stack[2].node = t.target
  <2>1. CASE n = 1 BY <2>1 DEF Climbed
  <2>2. CASE n >= 2 BY <2>2 DEF Climbed
  <2> QED BY <2>1, <2>2
<1>5. t.stack[1].node = t.s /\ t.stack[1].rest \subseteq {t.target}
    BY DEF Climbed
<1> QED BY <1>1, <1>2, <1>3, <1>4, <1>5 DEF Climbed

\* A call that raises closes a chain from the target, too long or back to the
\* subscription that is changed.
LEMMA RaisedForReason ==
    ASSUME NEW q \in Active, Climbed(q), NEW n \in 1 .. MaxNesting + 2, Len(q.stack) = n,
           NEW c \in q.stack[n].rest, c \in Token, Raises(q, c)
    PROVE  Reaches(q.target, q.s) \/ ~WithinDepth(q.target)
<1>1. q.stack \in Seq(Frame) /\ MaxNesting \in Nat /\ n \in Nat /\ n >= 1
    BY GraphAssumption DEF Active
<1>2. ASSUME NEW i \in 1 .. n PROVE q.stack[i].node \in Token
  <2>1. q.stack[i] \in Frame BY <1>1, ElementOfSeq
  <2> QED BY <2>1 DEF Frame
<1> DEFINE p == [i \in 0 .. n - 1 |-> IF i = n - 1 THEN c ELSE q.stack[i + 2].node]
<1>3. p \in [0 .. n - 1 -> Token] BY <1>1, <1>2
<1>4. p[0] = q.target
  <2>1. CASE n = 1 BY <2>1 DEF Climbed
  <2>2. CASE n >= 2 BY <1>1, <2>2 DEF Climbed
  <2> QED BY <1>1, <2>1, <2>2
<1>5. ASSUME NEW i \in 1 .. n - 1 PROVE p[i] \in Succ(p[i - 1])
  <2>1. p[i - 1] = q.stack[i + 1].node BY <1>1
  <2>2. CASE i = n - 1
    <3>1. n \in 2 .. n /\ i + 1 = n BY <1>1, <2>2
    <3> QED BY <2>1, <2>2, <3>1 DEF Climbed
  <2>3. CASE i < n - 1
    <3>1. i + 2 \in 3 .. n /\ (i + 2) - 1 = i + 1 BY <1>1, <2>3
    <3>2. p[i] = q.stack[i + 2].node BY <1>1, <2>3
    <3> QED BY <2>1, <3>1, <3>2 DEF Climbed
  <2> QED BY <1>1, <2>2, <2>3
<1>6. p[n - 1] = c BY <1>1
<1> HIDE DEF p
<1>7. p \in Chains(q.target, n - 1) BY <1>3, <1>4, <1>5 DEF Chains
<1>8. CASE Depth(q) > MaxNesting
  <2>1. n - 1 = MaxNesting + 1 BY <1>1, <1>8 DEF Depth
  <2> QED BY <1>7, <2>1 DEF WithinDepth
<1>9. CASE ~(Depth(q) > MaxNesting)
  <2>1. PICK i \in 1 .. n : c = q.stack[i].node
      BY <1>9 DEF Raises, Visited
  <2>2. i = 1
    <3> SUFFICES ASSUME i \in 2 .. n PROVE FALSE BY <1>1
    <3>1. \E C \in SUBSET Token : q.stack[i].node \notin C /\ c \in C
        BY <1>1, FollowedApart
    <3> QED BY <2>1, <3>1
  <2>3. c = q.s BY <2>1, <2>2 DEF Climbed
  <2>4. n - 1 \in 0 .. MaxNesting BY <1>1, <1>9 DEF Depth
  <2> QED BY <1>6, <1>7, <2>3, <2>4 DEF Reaches
<1> QED BY <1>8, <1>9

LEMMA FollowJustified ==
    ASSUME TypeOK, WalkBounded, Acyclic, NEW r \in Request, Follow(r), Justified(req[r])
    PROVE  Justified(req'[r])
<1>1. PICK q : q = req[r] OBVIOUS
<1> DEFINE n == Len(q.stack)
<1>2. n = Len(q.stack) OBVIOUS
<1>3. q \in Active /\ q.pc = "check" BY <1>1, BusyIsActive DEF Follow
<1>4. q.stack \in Seq(Frame) /\ n \in 1 .. MaxNesting + 2 /\ MaxNesting \in Nat /\ n \in Nat \ {0}
    BY <1>1, <1>2, <1>3, GraphAssumption DEF Active, WalkBounded
<1>5. PICK c \in Top(q).rest :
        req' = IF Raises(q, c)
               THEN [req EXCEPT ![r].pc = "refused"]
               ELSE IF Memoised(q, c)
               THEN [req EXCEPT ![r].stack = [q.stack EXCEPT ![n].rest = @ \ {c}]]
               ELSE [req EXCEPT ![r].stack =
                         Append([q.stack EXCEPT ![n].rest = @ \ {c}],
                                [node |-> c, rest |-> Succ(c)])]
    BY <1>1, <1>2 DEF Follow
<1>6. q.stack[n] \in Frame /\ Top(q) = q.stack[n]
    BY <1>2, <1>4, ElementOfSeq DEF Top
<1>7. c \in Token /\ c \in q.stack[n].rest BY <1>5, <1>6 DEF Frame
<1>8. Climbed(q) BY <1>1, <1>3 DEF Justified
<1>9. CASE Raises(q, c)
  <2>1. req'[r].pc = "refused" /\ req'[r].s = q.s /\ req'[r].target = q.target
      BY <1>1, <1>3, <1>5, <1>9 DEF TypeOK, Active
  <2>2. Reaches(q.target, q.s) \/ ~WithinDepth(q.target)
      BY <1>2, <1>3, <1>4, <1>7, <1>8, <1>9, RaisedForReason
  <2> QED BY <2>1, <2>2 DEF Justified
<1>10. CASE ~Raises(q, c)
  <2> DEFINE R == q.stack[n].rest \ {c}
             popped == [q.stack EXCEPT ![n].rest = R]
             pushed == Append(popped, [node |-> c, rest |-> Succ(c)])
  <2>1. R \in SUBSET Token BY <1>6 DEF Frame
  <2>2. popped = [q.stack EXCEPT ![n].rest = @ \ {c}] OBVIOUS
  <2>3. R \subseteq q.stack[n].rest OBVIOUS
  <2> HIDE DEF R
  <2>4. /\ popped \in Seq(Frame) /\ Len(popped) = n
        /\ \A i \in 1 .. n : /\ popped[i].node = q.stack[i].node
                             /\ popped[i].rest = IF i = n THEN R ELSE q.stack[i].rest
    <3>1. n >= 1 BY <1>4
    <3> QED BY <1>2, <1>4, <2>1, <3>1, PoppedStack
  <2>5. /\ Len(pushed) = n + 1
        /\ \A i \in 1 .. n : pushed[i] = popped[i]
        /\ pushed[n + 1] = [node |-> c, rest |-> Succ(c)]
      BY <1>7, <2>4, SuccType, PushedStack DEF Frame
  <2>6. \A i \in 1 .. n : popped[i].rest \subseteq q.stack[i].rest BY <2>3, <2>4
  <2>7. CASE Memoised(q, c)
    <3>1. req' = [req EXCEPT ![r].stack = popped] BY <1>5, <1>10, <2>2, <2>7
    <3> HIDE DEF popped
    <3>2. /\ req'[r].stack = popped /\ req'[r].s = q.s /\ req'[r].target = q.target
          /\ req'[r].pc = "check"
        BY <1>1, <1>3, <3>1 DEF TypeOK, Active
    <3>3. Climbed(req'[r])
        BY <1>2, <1>4, <1>8, <2>4, <2>6, <3>2, ClimbedShorter
    <3> QED BY <3>2, <3>3 DEF Justified
  <2>8. CASE ~Memoised(q, c)
    <3>1. req' = [req EXCEPT ![r].stack = pushed] BY <1>5, <1>10, <2>2, <2>8
    <3> HIDE DEF pushed, popped
    <3>2. /\ req'[r].stack = pushed /\ req'[r].s = q.s /\ req'[r].target = q.target
          /\ req'[r].pc = "check"
        BY <1>1, <1>3, <3>1 DEF TypeOK, Active
    <3>3. \A i \in 1 .. n : /\ pushed[i].node = q.stack[i].node
                            /\ pushed[i].rest \subseteq q.stack[i].rest
        BY <2>4, <2>5, <2>6
    <3>4. pushed[n + 1].node = c /\ pushed[n + 1].rest = Succ(c) BY <2>5
    <3>5. Climbed(req'[r])
        BY <1>2, <1>4, <1>7, <1>8, <2>5, <3>2, <3>3, <3>4, ClimbedHigher
    <3> QED BY <3>2, <3>5 DEF Justified
  <2> QED BY <2>7, <2>8
<1> QED BY <1>9, <1>10

LEMMA HandleJustified ==
    ASSUME TypeOK, WalkBounded, Acyclic, NEW r \in Request, Justified(req[r]), Handle(r)
    PROVE  Justified(req[r])'
<1>1. PICK q : q = req[r] OBVIOUS
<1>2. q \in Active /\ q.pc # "idle"
    BY <1>1, BusyIsActive DEF Handle, Prune, Open, Walk, Follow, Return, Pass, Commit
<1>3. ASSUME req'[r].pc \in {"idle", "next"}
      PROVE  Justified(req[r])'
    BY <1>3 DEF Justified
<1>4. CASE Prune(r) \/ Pass(r) \/ Commit(r)
  <2>1. CASE Prune(r)
      BY <1>1, <1>2, <1>3, <2>1 DEF Prune, Finish, TypeOK, Active, Idle
  <2>2. CASE Pass(r)
      BY <1>1, <1>2, <1>3, <2>2 DEF Pass, TypeOK, Active
  <2>3. CASE Commit(r)
      BY <1>3, <2>3 DEF Commit, Finish, TypeOK, Idle
  <2> QED BY <1>4, <2>1, <2>2, <2>3
<1>5. CASE Open(r)
  <2>1. PICK t \in q.todo :
          req' = IF t \in Live
                 THEN [req EXCEPT ![r].pc = "check", ![r].todo = @ \ {t}, ![r].target = t,
                           ![r].stack = <<[node |-> q.s, rest |-> {t}]>>,
                           ![r].memo = NoMemo]
                 ELSE [req EXCEPT ![r].pc = "refused", ![r].target = t]
      BY <1>1, <1>5 DEF Open
  <2>2. CASE t \in Live
    <3> DEFINE st == <<[node |-> q.s, rest |-> {t}]>>
    <3>1. req'[r] = [q EXCEPT !.pc = "check", !.todo = @ \ {t}, !.target = t,
                              !.stack = st, !.memo = NoMemo]
        BY <1>1, <2>1, <2>2 DEF TypeOK
    <3>2. Len(st) = 1 /\ st[1].node = q.s /\ st[1].rest = {t} OBVIOUS
    <3> HIDE DEF st
    <3>3. /\ req'[r].pc = "check" /\ req'[r].target = t /\ req'[r].stack = st
          /\ req'[r].s = q.s
        BY <1>2, <3>1 DEF Active
    <3>4. \A i \in 2 .. Len(st) : FALSE BY <3>2
    <3>5. \A i \in 3 .. Len(st) : FALSE BY <3>2
    <3>6. Climbed(req'[r])
      <4>1. PICK x : x = req'[r] OBVIOUS
      <4>2. x.stack = st /\ x.s = q.s /\ x.target = t BY <3>3, <4>1
      <4>3. x.stack[1].node = x.s /\ x.stack[1].rest \subseteq {x.target} BY <3>2, <4>2
      <4>4. ~(Len(x.stack) >= 2)
        <5>1. Len(x.stack) = 1 BY <3>2, <4>2
        <5> QED BY <5>1
      <4>5. /\ \A i \in 2 .. Len(x.stack) : FALSE
            /\ \A i \in 3 .. Len(x.stack) : FALSE
          BY <3>4, <3>5, <4>2
      <4>6. Climbed(x) BY <4>3, <4>4, <4>5 DEF Climbed
      <4> QED BY <4>1, <4>6
    <3>7. Justified(req'[r]) BY <3>3, <3>6 DEF Justified
    <3> QED BY <1>5, <3>7, JustifiedStable DEF Open
  <2>3. CASE t \notin Live
    <3>1. req'[r] = [q EXCEPT !.pc = "refused", !.target = t]
        BY <1>1, <2>1, <2>3 DEF TypeOK
    <3>2. req'[r].pc = "refused" /\ req'[r].target = t BY <1>2, <3>1 DEF Active
    <3>3. Justified(req'[r]) BY <2>3, <3>2 DEF Justified
    <3> QED BY <1>5, <3>3, JustifiedStable DEF Open
  <2> QED BY <2>2, <2>3
<1>6. CASE Follow(r)
    BY <1>6, FollowJustified, JustifiedStable DEF Follow
<1>7. CASE Return(r)
  <2> DEFINE n == Len(q.stack)
             st == SubSeq(q.stack, 1, n - 1)
  <2>1. /\ q.pc = "check" /\ n > 1
        /\ req' = [req EXCEPT ![r].stack = st,
                              ![r].memo[Top(q).node] = MaxNesting - (n - 2)]
      BY <1>1, <1>7 DEF Return
  <2>2. q.stack \in Seq(Frame) /\ n \in Nat BY <1>2, LenProperties DEF Active
  <2>3. Len(st) = n - 1 /\ \A i \in 1 .. n - 1 : st[i] = q.stack[i]
      BY <2>1, <2>2, ReturnedStack
  <2> HIDE DEF st
  <2>4. /\ req'[r].pc = "check" /\ req'[r].stack = st
        /\ req'[r].s = q.s /\ req'[r].target = q.target
      BY <1>1, <1>2, <2>1 DEF TypeOK, Active
  <2>5. Climbed(q) BY <1>1, <2>1 DEF Justified
  <2>6. Len(st) \in 1 .. n BY <2>1, <2>2, <2>3
  <2>7. \A i \in 1 .. Len(st) : st[i].node = q.stack[i].node /\ st[i].rest \subseteq q.stack[i].rest
      BY <2>3
  <2>8. Climbed(req'[r]) BY <2>2, <2>4, <2>5, <2>6, <2>7, ClimbedShorter
  <2> QED BY <1>7, <2>4, <2>8, JustifiedStable DEF Justified, Return
<1> QED BY <1>4, <1>5, <1>6, <1>7 DEF Handle, Walk

LEMMA NextJustified ==
    ASSUME NEW r \in Request, Request = {r}
    PROVE  TypeOK /\ WalkBounded /\ Acyclic /\ Justified(req[r]) /\ [Next]_vars
               => Justified(req[r])'
<1> SUFFICES ASSUME TypeOK, WalkBounded, Acyclic, Justified(req[r]), [Next]_vars
             PROVE  Justified(req[r])'
    OBVIOUS
<1>1. CASE Submit(r)
  <2>1. req'[r].pc \in {"prune", "next"}
      BY <1>1 DEF Submit, TypeOK
  <2> QED BY <2>1 DEF Justified
<1>2. CASE Handle(r) BY <1>2, HandleJustified
<1>3. CASE Abort(r)
  <2>1. req'[r] = Idle BY <1>3 DEF Abort, Finish, TypeOK
  <2> QED BY <2>1 DEF Justified, Idle
<1>4. CASE OneStep(r)
  <2>1. req'[r] = Idle BY <1>4 DEF OneStep, Remove, Delete, Wipe
  <2> QED BY <2>1 DEF Justified, Idle
<1>5. CASE UNCHANGED vars
  <2>1. refs' = refs /\ status' = status /\ req' = req BY <1>5 DEF vars
  <2> QED BY <2>1, JustifiedStable
<1> QED BY <1>1, <1>2, <1>3, <1>4, <1>5 DEF Next

\* While requests do not overlap, a reference is refused only when its target is
\* gone, or when a chain of references from the target is longer than the limit
\* or comes back to the subscription: no diamond, no memo entry and no earlier
\* target of the same request is taken for a cycle.
THEOREM SerialRefusal ==
    ASSUME NEW r, Request = {r}
    PROVE  Spec => []RefusedForReason
<1>1. Init => TypeOK /\ WalkBounded /\ Justified(req[r])
    BY DEF Init, TypeOK, Status, Idle, WalkBounded, Justified
<1>2. TypeOK /\ WalkBounded /\ Acyclic /\ Justified(req[r]) /\ [Next]_vars => Justified(req[r])'
    BY NextJustified
<1>3. Justified(req[r]) => RefusedForReason
    BY DEF Justified, RefusedForReason
<1> QED BY <1>1, <1>2, <1>3, NextTypes, SerialAcyclic, PTL DEF Spec

=============================================================================
