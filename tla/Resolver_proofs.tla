--------------------------- MODULE Resolver_proofs ---------------------------
(***************************************************************************)
(* Proofs about Resolver, for every world: the list of a resolution has no *)
(* config twice, stays within its limit, shows only what the subscription  *)
(* means and, whole, all of it, in the order of the sources; comments      *)
(* yield to the root's; no subscription is open twice, on cyclic graphs    *)
(* too, and every step leaves less to do.                                  *)
(*                                                                         *)
(* The calls under way are a route with a source at each level (Linked).   *)
(* What a step has dealt with is said relative to them: Swept, for the     *)
(* sources and subscriptions, and Behind, for the places.                  *)
(***************************************************************************)
EXTENDS Resolver, SequenceTheorems, WellFoundedInduction, TLAPS

-----------------------------------------------------------------------------
(* The stack                                                               *)

\* The top call, its list and its place.
LEMMA TopCall ==
    ASSUME TypeOK, Running
    PROVE  /\ Len(stack) \in Nat \ {0}
           /\ Top = stack[Len(stack)] /\ Top \in Frame
           /\ Top.token \in Token /\ Top.rest \in Seq(Source)
<1>1. stack \in Seq(Frame) /\ stack # <<>> BY DEF TypeOK, Running
<1>2. Len(stack) \in Nat \ {0} BY <1>1, EmptySeq, LenProperties
<1>3. stack[Len(stack)] \in Frame BY <1>1, <1>2, ElementOfSeq
<1> QED BY <1>2, <1>3 DEF Top, Last, Frame

\* The source that is next, and what comes after it.
LEMMA NextSource ==
    ASSUME TypeOK, Running, Top.rest # <<>>
    PROVE  Head(Top.rest) \in Source /\ Tail(Top.rest) \in Seq(Source)
BY TopCall, HeadTailProperties

LEMMA FrontOfSeq ==
    ASSUME NEW S, NEW s \in Seq(S), NEW n \in Nat, Len(s) = n + 1
    PROVE  /\ SubSeq(s, 1, n) \in Seq(S)
           /\ Len(SubSeq(s, 1, n)) = n
           /\ \A i \in 1 .. n : SubSeq(s, 1, n)[i] = s[i]
<1>1. \A i \in 1 .. n : s[i] \in S BY ElementOfSeq
<1>2. /\ SubSeq(s, 1, n) \in Seq(S)
      /\ Len(SubSeq(s, 1, n)) = IF 1 <= n THEN n - 1 + 1 ELSE 0
      /\ \A i \in 1 .. n - 1 + 1 : SubSeq(s, 1, n)[i] = s[1 + i - 1]
    BY <1>1, SubSeqProperties
<1>3. Len(SubSeq(s, 1, n)) = n BY <1>2
<1>4. ASSUME NEW i \in 1 .. n PROVE SubSeq(s, 1, n)[i] = s[i]
    <2>1. i \in 1 .. n - 1 + 1 /\ 1 + i - 1 = i OBVIOUS
    <2> QED BY <2>1, <1>2
<1> QED BY <1>2, <1>3, <1>4

\* Dealing with a source keeps the calls and their tokens.
LEMMA PoppedCalls ==
    ASSUME TypeOK, Running, Top.rest # <<>>
    PROVE  /\ Popped \in Seq(Frame)
           /\ Len(Popped) = Len(stack)
           /\ \A i \in 1 .. Len(stack) : Popped[i].token = stack[i].token
<1> DEFINE n == Len(stack)
           f == [Top EXCEPT !.rest = Tail(Top.rest)]
           front == SubSeq(stack, 1, n - 1)
<1>1. n \in Nat \ {0} /\ stack \in Seq(Frame) /\ Top = stack[n] BY TopCall DEF TypeOK
<1>2. f \in Frame /\ f.token = stack[n].token BY TopCall, NextSource, <1>1 DEF Frame
<1>3. /\ front \in Seq(Frame) /\ Len(front) = n - 1
      /\ \A i \in 1 .. n - 1 : front[i] = stack[i]
    <2>1. PICK m \in Nat : n = m + 1 BY <1>1
    <2>2. n - 1 = m BY <2>1
    <2> QED BY <1>1, <2>1, <2>2, FrontOfSeq
<1>4. Popped = Append(front, f) BY DEF Popped, Front
<1> HIDE DEF f, front
<1>5. Popped \in Seq(Frame) /\ Len(Popped) = n BY <1>1, <1>2, <1>3, <1>4, AppendProperties
<1>6. \A i \in 1 .. n - 1 : Popped[i] = front[i] BY <1>1, <1>2, <1>3, <1>4, AppendProperties
<1>7. Popped[n] = f BY <1>1, <1>2, <1>3, <1>4, AppendProperties
<1>8. ASSUME NEW i \in 1 .. n PROVE Popped[i].token = stack[i].token
    <2>1. CASE i = n BY <2>1, <1>2, <1>7
    <2>2. CASE i # n BY <2>2, <1>1, <1>3, <1>6
    <2> QED BY <2>1, <2>2
<1> QED BY <1>5, <1>8

\* A call that ends keeps the calls below it.
LEMMA FrontCalls ==
    ASSUME TypeOK, Running
    PROVE  /\ Front(stack) \in Seq(Frame)
           /\ Len(Front(stack)) = Len(stack) - 1
           /\ \A i \in 1 .. Len(stack) - 1 : Front(stack)[i] = stack[i]
<1>1. Len(stack) \in Nat \ {0} /\ stack \in Seq(Frame) BY TopCall DEF TypeOK
<1>2. PICK m \in Nat : Len(stack) = m + 1 BY <1>1
<1>3. Len(stack) - 1 = m BY <1>2
<1> QED BY <1>1, <1>2, <1>3, FrontOfSeq DEF Front

\* What a token's call has to go through is a list of sources.
LEMMA BodyType ==
    ASSUME world \in WorldType, NEW t \in Token
    PROVE  Body(t) \in Seq(Source)
BY EmptySeq DEF Body, WorldType

-----------------------------------------------------------------------------
(* Types                                                                   *)

\* What a step adds to the list is a config with its comment.
LEMMA Showing ==
    ASSUME TypeOK, ApplyConfig \/ AddFetched
    PROVE  \E c \in Config, k \in Token \cup {NoToken}, x \in BOOLEAN : Show(c, k, x)
<1>1. CASE ApplyConfig
    <2> DEFINE s == Head(Top.rest)
    <2>1. s \in Source /\ s.kind = "config" BY <1>1, NextSource DEF ApplyConfig, AtSource
    <2>2. s.ref \in Config BY <2>1 DEF Source
    <2>3. comments[s.ref] \in Token \cup {NoToken} BY <2>2 DEF TypeOK
    <2>4. Show(s.ref, comments[s.ref], FALSE) BY <1>1 DEF ApplyConfig
    <2> HIDE DEF s
    <2> QED BY <2>2, <2>3, <2>4
<1>2. CASE AddFetched
    <2>1. Head(batch) \in Config BY <1>2, HeadTailProperties DEF AddFetched, TypeOK
    <2>2. Show(Head(batch), NoToken, TRUE) BY <1>2 DEF AddFetched
    <2> QED BY <2>1, <2>2
<1> QED BY <1>1, <1>2

LEMMA ShowTypes ==
    ASSUME TypeOK, NEW c \in Config, NEW k \in Token \cup {NoToken}, NEW x \in BOOLEAN,
           Show(c, k, x)
    PROVE  result' \in Seq(Entry)
<1>1. [config |-> c, comment |-> k, external |-> x] \in Entry BY DEF Entry
<1> QED BY <1>1, AppendProperties DEF Show, TypeOK

LEMMA SliceType ==
    ASSUME TypeOK, NEW s \in Seq(Config), Len(result) <= MaxConfigs
    PROVE  Slice(s) \in Seq(Config) /\ Len(Slice(s)) <= MaxConfigs - Len(result)
<1> DEFINE m == MaxConfigs - Len(result)
<1>1. m \in Nat BY LenProperties, ResolverAssumption DEF TypeOK
<1>2. Len(s) \in Nat BY LenProperties
<1>3. CASE Len(s) <= m BY <1>3 DEF Slice
<1>4. CASE ~(Len(s) <= m)
    <2>1. Slice(s) = SubSeq(s, 1, m) BY <1>4 DEF Slice
    <2>2. \A i \in 1 .. m : s[i] \in Config BY <1>1, <1>2, <1>4, ElementOfSeq
    <2>3. SubSeq(s, 1, m) \in Seq(Config) /\ Len(SubSeq(s, 1, m)) = m
        BY <1>1, <1>2, <1>4, <2>2, SubSeqProperties
    <2> QED BY <2>1, <2>3, <1>1
<1> QED BY <1>3, <1>4

\* A step keeps the types, given that the list was within its limit.
LEMMA NextTypes ==
    ASSUME TypeOK, WithinLimit, [Next]_vars
    PROVE  TypeOK'
<1> USE DEF TypeOK
<1>1. CASE Skip BY <1>1, PoppedCalls DEF Skip
<1>2. CASE ApplyConfig
    <2>1. result' \in Seq(Entry) BY <1>2, Showing, ShowTypes
    <2>2. stack' \in Seq(Frame) BY <1>2, PoppedCalls DEF ApplyConfig, AtSource
    <2> QED BY <1>2, <2>1, <2>2 DEF ApplyConfig
<1>3. CASE ApplyUrl
    <2> DEFINE content == world.content[Head(Top.rest).ref]
    <2>1. Head(Top.rest) \in Source /\ Head(Top.rest).kind = "url"
        BY <1>3, NextSource DEF ApplyUrl, AtSource
    <2>2. content \in Seq(Config) BY <2>1 DEF Source, WorldType
    <2>3. Len(result) <= MaxConfigs
        BY <1>3, LenProperties, ResolverAssumption DEF ApplyUrl, AtSource, Full
    <2>4. batch' = Slice(content) /\ truncated' \in BOOLEAN BY <1>3 DEF ApplyUrl
    <2> HIDE DEF content
    <2>5. batch' \in Seq(Config) BY <2>2, <2>3, <2>4, SliceType
    <2>6. stack' \in Seq(Frame) BY <1>3, PoppedCalls DEF ApplyUrl, AtSource
    <2> QED BY <1>3, <2>4, <2>5, <2>6 DEF ApplyUrl
<1>4. CASE AddFetched
    <2>1. Tail(batch) \in Seq(Config) BY <1>4, HeadTailProperties DEF AddFetched
    <2>2. result' \in Seq(Entry) BY <1>4, Showing, ShowTypes
    <2> QED BY <1>4, <2>1, <2>2 DEF AddFetched
<1>5. CASE ApplyToken
    <2> DEFINE t == Head(Top.rest).ref
               new == [token |-> t, rest |-> Body(t)]
    <2>1. Head(Top.rest) \in Source /\ Head(Top.rest).kind = "token"
        BY <1>5, NextSource DEF ApplyToken, AtSource
    <2>2. t \in Token BY <2>1 DEF Source
    <2>3. comments' = Labelled(t) BY <1>5 DEF ApplyToken, Merge
    <2>4. Popped \in Seq(Frame) BY <1>5, PoppedCalls DEF ApplyToken, AtSource
    <2>5. new \in Frame BY <2>2, BodyType DEF Frame
    <2>6. \/ stack' = Popped /\ UNCHANGED resolved
          \/ stack' = Append(Popped, new) /\ resolved' = resolved \cup {t}
        BY <1>5 DEF ApplyToken, Enter
    <2>7. tooDeep' \in BOOLEAN BY <1>5 DEF ApplyToken
    <2> HIDE DEF new, t
    <2>8. comments' \in [Config -> Token \cup {NoToken}] BY <2>2, <2>3 DEF Labelled
    <2>9. Append(Popped, new) \in Seq(Frame) BY <2>4, <2>5, AppendProperties
    <2>10. stack' \in Seq(Frame) /\ resolved' \subseteq Token
        BY <2>2, <2>4, <2>6, <2>9
    <2> QED BY <1>5, <2>7, <2>8, <2>10 DEF ApplyToken
<1>6. CASE LoseToken BY <1>6, PoppedCalls DEF LoseToken, AtSource
<1>7. CASE Return BY <1>7, FrontCalls DEF Return
<1>8. CASE UNCHANGED vars BY <1>8 DEF vars
<1> QED BY <1>1, <1>2, <1>3, <1>4, <1>5, <1>6, <1>7, <1>8 DEF Next

LEMMA InitTypes == Init => TypeOK
<1> SUFFICES ASSUME Init PROVE TypeOK OBVIOUS
<1>1. world \in WorldType /\ Root \in Token BY ResolverAssumption DEF Init
<1>2. [token |-> Root, rest |-> Body(Root)] \in Frame BY <1>1, BodyType DEF Frame
<1>3. stack \in Seq(Frame)
    <2> DEFINE new == [token |-> Root, rest |-> Body(Root)]
    <2>1. stack = <<new>> /\ new \in Frame BY <1>2 DEF Init
    <2> HIDE DEF new
    <2> QED BY <2>1
<1>4. batch \in Seq(Config) /\ result \in Seq(Entry) BY EmptySeq DEF Init
<1>5. comments \in [Config -> Token \cup {NoToken}] BY <1>1 DEF Init
<1> QED BY <1>1, <1>3, <1>4, <1>5 DEF Init, TypeOK

-----------------------------------------------------------------------------
(* The length of the list                                                  *)

\* Adding a config makes the list longer by one at most.
LEMMA ShowLength ==
    ASSUME TypeOK, ApplyConfig \/ AddFetched
    PROVE  Len(result') \in Nat /\ Len(result') <= Len(result) + 1
<1>1. PICK c \in Config, k \in Token \cup {NoToken}, x \in BOOLEAN : Show(c, k, x) BY Showing
<1>2. Len(result) \in Nat BY LenProperties DEF TypeOK
<1>3. CASE c \in Shown BY <1>1, <1>2, <1>3 DEF Show
<1>4. CASE c \notin Shown
    <2> DEFINE new == [config |-> c, comment |-> k, external |-> x]
    <2>1. result' = Append(result, new) BY <1>1, <1>4 DEF Show
    <2>2. new \in Entry BY DEF Entry
    <2> HIDE DEF new
    <2>3. Len(result') = Len(result) + 1 BY <2>1, <2>2, AppendProperties DEF TypeOK
    <2> QED BY <1>2, <2>3
<1> QED BY <1>3, <1>4

\* The list never outgrows the limit: a batch is cut to the room there is, and
\* every config of it takes one place at most.
LEMMA NextWithinLimit ==
    ASSUME TypeOK, WithinLimit, [Next]_vars
    PROVE  WithinLimit'
<1> USE DEF WithinLimit
<1>1. Len(result) \in Nat /\ Len(batch) \in Nat BY LenProperties DEF TypeOK
<1>2. MaxConfigs \in Nat BY ResolverAssumption
<1>3. CASE ApplyConfig
    <2>1. batch = <<>> /\ batch' = batch BY <1>3 DEF ApplyConfig, AtSource
    <2>2. Len(batch') = 0 BY <2>1
    <2>3. Len(result) < MaxConfigs BY <1>1, <1>2, <1>3 DEF ApplyConfig, AtSource, Full
    <2>4. Len(result') \in Nat /\ Len(result') <= Len(result) + 1
        BY <1>3, ShowLength
    <2> QED BY <1>1, <1>2, <2>2, <2>3, <2>4
<1>4. CASE ApplyUrl
    <2> DEFINE content == world.content[Head(Top.rest).ref]
    <2>1. Head(Top.rest) \in Source /\ Head(Top.rest).kind = "url"
        BY <1>4, NextSource DEF ApplyUrl, AtSource
    <2>2. content \in Seq(Config) BY <2>1 DEF Source, WorldType, TypeOK
    <2>3. Len(result) <= MaxConfigs BY <1>1, <1>2, <1>4 DEF ApplyUrl, AtSource, Full
    <2>4. batch' = Slice(content) /\ result' = result BY <1>4 DEF ApplyUrl
    <2> HIDE DEF content
    <2>5. batch' \in Seq(Config) /\ Len(batch') <= MaxConfigs - Len(result)
        BY <2>2, <2>3, <2>4, SliceType
    <2>6. Len(batch') \in Nat BY <2>5, LenProperties
    <2> QED BY <1>1, <1>2, <2>4, <2>5, <2>6
<1>5. CASE AddFetched
    <2>1. Len(batch') = Len(batch) - 1
        BY <1>5, HeadTailProperties DEF AddFetched, TypeOK
    <2>2. Len(result') \in Nat /\ Len(result') <= Len(result) + 1
        BY <1>5, ShowLength
    <2> QED BY <1>1, <1>2, <2>1, <2>2
<1>6. ASSUME UNCHANGED <<result, batch>> PROVE WithinLimit' BY <1>6
<1>7. CASE Skip BY <1>6, <1>7 DEF Skip
<1>8. CASE ApplyToken BY <1>6, <1>8 DEF ApplyToken
<1>9. CASE Return BY <1>6, <1>9 DEF Return
<1>10. CASE LoseToken BY <1>6, <1>10 DEF LoseToken
<1>11. CASE UNCHANGED vars BY <1>6, <1>11 DEF vars
<1> QED BY <1>3, <1>4, <1>5, <1>7, <1>8, <1>9, <1>10, <1>11 DEF Next

-----------------------------------------------------------------------------
(* No config twice                                                         *)

LEMMA ShowOnce ==
    ASSUME TypeOK, NoDuplicates, NEW c \in Config, NEW k \in Token \cup {NoToken},
           NEW x \in BOOLEAN, Show(c, k, x)
    PROVE  NoDuplicates'
<1> DEFINE n == Len(result)
           new == [config |-> c, comment |-> k, external |-> x]
<1>1. result \in Seq(Entry) /\ n \in Nat /\ DOMAIN result = 1 .. n
    BY LenProperties DEF TypeOK
<1>2. CASE c \in Shown BY <1>2 DEF Show, NoDuplicates
<1>3. CASE c \notin Shown
    <2>1. result' = Append(result, new) /\ new \in Entry /\ new.config = c
        BY <1>3 DEF Show, Entry
    <2> HIDE DEF new
    <2>2. /\ DOMAIN result' = 1 .. n + 1
          /\ \A i \in 1 .. n : result'[i] = result[i]
          /\ result'[n + 1] = new
        BY <1>1, <2>1, AppendProperties, LenProperties
    <2>3. \A i \in 1 .. n : result[i].config # c BY <1>1, <1>3 DEF Shown
    <2>4. ASSUME NEW i \in 1 .. n + 1, NEW j \in 1 .. n + 1,
                 result'[i].config = result'[j].config
          PROVE  i = j
        <3>1. CASE i \in 1 .. n /\ j \in 1 .. n BY <1>1, <2>2, <2>4, <3>1 DEF NoDuplicates
        <3>2. CASE i = n + 1 /\ j \in 1 .. n BY <2>1, <2>2, <2>3, <2>4, <3>2
        <3>3. CASE j = n + 1 /\ i \in 1 .. n BY <2>1, <2>2, <2>3, <2>4, <3>3
        <3>4. CASE i = n + 1 /\ j = n + 1 BY <3>4
        <3> QED BY <1>1, <3>1, <3>2, <3>3, <3>4
    <2> QED BY <2>2, <2>4 DEF NoDuplicates
<1> QED BY <1>2, <1>3

\* Only Show adds to the list, and nothing that is there.
LEMMA NextNoDuplicates ==
    ASSUME TypeOK, NoDuplicates, [Next]_vars
    PROVE  NoDuplicates'
<1>1. CASE ApplyConfig BY <1>1, Showing, ShowOnce
<1>2. CASE AddFetched BY <1>2, Showing, ShowOnce
<1>3. ASSUME UNCHANGED result PROVE NoDuplicates' BY <1>3 DEF NoDuplicates
<1>4. CASE Skip BY <1>3, <1>4 DEF Skip
<1>5. CASE ApplyUrl BY <1>3, <1>5 DEF ApplyUrl
<1>6. CASE ApplyToken BY <1>3, <1>6 DEF ApplyToken
<1>7. CASE Return BY <1>3, <1>7 DEF Return
<1>8. CASE LoseToken BY <1>3, <1>8 DEF LoseToken
<1>9. CASE UNCHANGED vars BY <1>3, <1>9 DEF vars
<1> QED BY <1>1, <1>2, <1>4, <1>5, <1>6, <1>7, <1>8, <1>9 DEF Next

-----------------------------------------------------------------------------
(* The calls under way                                                     *)

\* Calls with the tokens of calls that were open are open once.
LEMMA SameCalls ==
    ASSUME TypeOK, OpenedOnce, NEW calls \in Seq(Frame), Len(calls) <= Len(stack),
           \A i \in 1 .. Len(calls) : calls[i].token = stack[i].token
    PROVE  /\ Len(calls) <= MaxDepth + 1
           /\ \A i, j \in DOMAIN calls : calls[i].token = calls[j].token => i = j
           /\ \A i \in DOMAIN calls : calls[i].token \in resolved
<1>1. /\ Len(calls) \in Nat /\ Len(stack) \in Nat
      /\ DOMAIN calls = 1 .. Len(calls) /\ DOMAIN stack = 1 .. Len(stack)
    BY LenProperties DEF TypeOK
<1>2. 1 .. Len(calls) \subseteq 1 .. Len(stack) BY <1>1
<1>3. Len(stack) <= MaxDepth + 1 /\ MaxDepth \in Nat BY ResolverAssumption DEF OpenedOnce
<1>4. Len(calls) <= MaxDepth + 1 BY <1>1, <1>3
<1> QED BY <1>1, <1>2, <1>4 DEF OpenedOnce

\* A subscription that is entered was not, so it is not open.
LEMMA NextOpenedOnce ==
    ASSUME TypeOK, OpenedOnce, [Next]_vars
    PROVE  OpenedOnce'
<1>1. ASSUME Running, Top.rest # <<>>, stack' = Popped, resolved' = resolved
      PROVE  OpenedOnce'
    <2>1. /\ Popped \in Seq(Frame) /\ Len(Popped) = Len(stack) /\ Len(stack) \in Nat
          /\ \A i \in 1 .. Len(Popped) : Popped[i].token = stack[i].token
        BY <1>1, PoppedCalls, TopCall
    <2>2. Len(Popped) <= Len(stack) BY <2>1
    <2> HIDE DEF Popped
    <2>3. /\ Len(Popped) <= MaxDepth + 1
          /\ \A i, j \in DOMAIN Popped : Popped[i].token = Popped[j].token => i = j
          /\ \A i \in DOMAIN Popped : Popped[i].token \in resolved
        BY <2>1, <2>2, SameCalls
    <2> QED BY <1>1, <2>3 DEF OpenedOnce
<1>2. ASSUME UNCHANGED <<stack, resolved>> PROVE OpenedOnce' BY <1>2 DEF OpenedOnce
<1>3. CASE Skip BY <1>1, <1>3 DEF Skip
<1>4. CASE ApplyConfig BY <1>1, <1>4 DEF ApplyConfig, AtSource
<1>5. CASE ApplyUrl BY <1>1, <1>5 DEF ApplyUrl, AtSource
<1>6. CASE AddFetched BY <1>2, <1>6 DEF AddFetched
<1>7. CASE ApplyToken
    <2> DEFINE t == Head(Top.rest).ref
               new == [token |-> t, rest |-> Body(t)]
               n == Len(stack)
    <2>1. Running /\ Top.rest # <<>> BY <1>7 DEF ApplyToken, AtSource
    <2>2. \/ stack' = Popped /\ resolved' = resolved
          \/ /\ ~(n - 1 + 1 > MaxDepth) /\ t \notin resolved
             /\ stack' = Append(Popped, new)
             /\ resolved' = resolved \cup {t}
        BY <1>7 DEF ApplyToken, Enter, Depth
    <2>3. Head(Top.rest) \in Source /\ Head(Top.rest).kind = "token"
        BY <1>7, NextSource DEF ApplyToken, AtSource
    <2>4. t \in Token BY <2>3 DEF Source
    <2>5. new \in Frame /\ new.token = t BY <2>4, BodyType DEF Frame, TypeOK
    <2>6. /\ Popped \in Seq(Frame) /\ Len(Popped) = n /\ n \in Nat
          /\ \A i \in 1 .. n : Popped[i].token = stack[i].token
        BY <2>1, PoppedCalls, TopCall
    <2> HIDE DEF new, t, Popped
    <2>7. CASE stack' = Popped /\ resolved' = resolved
        BY <1>1, <2>1, <2>7
    <2>8. CASE /\ ~(n - 1 + 1 > MaxDepth) /\ t \notin resolved
               /\ stack' = Append(Popped, new)
               /\ resolved' = resolved \cup {t}
        <3>1. /\ Len(stack') = n + 1 /\ DOMAIN stack' = 1 .. n + 1
              /\ \A i \in 1 .. n : stack'[i] = Popped[i]
              /\ stack'[n + 1] = new
            BY <2>5, <2>6, <2>8, AppendProperties, LenProperties
        <3>2. n + 1 <= MaxDepth + 1 BY <2>6, <2>8, ResolverAssumption
        <3>3. n <= n BY <2>6
        <3>4. /\ \A i, j \in 1 .. n : Popped[i].token = Popped[j].token => i = j
              /\ \A i \in 1 .. n : Popped[i].token \in resolved
            BY <2>6, <3>3, SameCalls, LenProperties
        <3>5. ASSUME NEW i \in 1 .. n + 1, NEW j \in 1 .. n + 1,
                     stack'[i].token = stack'[j].token
              PROVE  i = j
            <4>1. CASE i \in 1 .. n /\ j \in 1 .. n BY <3>1, <3>4, <3>5, <4>1
            <4>2. CASE i = n + 1 /\ j \in 1 .. n BY <2>5, <2>8, <3>1, <3>4, <3>5, <4>2
            <4>3. CASE j = n + 1 /\ i \in 1 .. n BY <2>5, <2>8, <3>1, <3>4, <3>5, <4>3
            <4>4. CASE i = n + 1 /\ j = n + 1 BY <4>4
            <4> QED BY <2>6, <4>1, <4>2, <4>3, <4>4
        <3>6. ASSUME NEW i \in 1 .. n + 1 PROVE stack'[i].token \in resolved'
            <4>1. CASE i \in 1 .. n BY <2>8, <3>1, <3>4, <4>1
            <4>2. CASE i = n + 1 BY <2>5, <2>8, <3>1, <4>2
            <4> QED BY <2>6, <4>1, <4>2
        <3> QED BY <3>1, <3>2, <3>5, <3>6 DEF OpenedOnce
    <2> QED BY <2>2, <2>7, <2>8
<1>8. CASE Return
    <2>1. /\ Front(stack) \in Seq(Frame) /\ Len(Front(stack)) = Len(stack) - 1
          /\ \A i \in 1 .. Len(stack) - 1 : Front(stack)[i] = stack[i]
          /\ Len(stack) \in Nat
        BY <1>8, FrontCalls, TopCall DEF Return
    <2> DEFINE front == Front(stack)
    <2>2. front \in Seq(Frame) /\ Len(front) <= Len(stack) BY <2>1
    <2>3. \A i \in 1 .. Len(front) : front[i].token = stack[i].token BY <2>1
    <2>4. stack' = front /\ resolved' = resolved BY <1>8 DEF Return
    <2> HIDE DEF front
    <2>5. /\ Len(front) <= MaxDepth + 1
          /\ \A i, j \in DOMAIN front : front[i].token = front[j].token => i = j
          /\ \A i \in DOMAIN front : front[i].token \in resolved
        BY <2>2, <2>3, SameCalls
    <2> QED BY <2>4, <2>5 DEF OpenedOnce
<1>9. CASE LoseToken BY <1>1, <1>9 DEF LoseToken, AtSource
<1>10. CASE UNCHANGED vars BY <1>2, <1>10 DEF vars
<1> QED BY <1>3, <1>4, <1>5, <1>6, <1>7, <1>8, <1>9, <1>10 DEF Next

-----------------------------------------------------------------------------
(* Where the calls are                                                     *)

\* How many of its sources call i has dealt with, or handed to the call above.
Done(i) == Len(Body(stack[i].token)) - Len(stack[i].rest)

\* A list and what is left of it.
EndOf(r, b) == Len(r) <= Len(b) /\ \A j \in 1 .. Len(r) : r[j] = b[Len(b) - Len(r) + j]

\* Every call has the rest of its subscription's list before it.
Rests == \A i \in DOMAIN stack : EndOf(stack[i].rest, Body(stack[i].token))

\* The call above is the one for the last source dealt with.
Linked ==
    /\ Running => stack[1].token = Root
    /\ \A i \in 1 .. Len(stack) - 1 :
          /\ Done(i) \in Visible(stack[i].token, i - 1)
          /\ Refers(stack[i].token, Done(i), stack[i + 1].token)

\* What a step does to the calls under way.
Same(i) == stack'[i].token = stack[i].token /\ Done(i)' = Done(i)

Moved(n) ==
    /\ \A i \in 1 .. n - 1 : Same(i)
    /\ stack'[n].token = stack[n].token
    /\ Done(n)' = Done(n) + 1

Advance == \E n \in Nat : n = Len(stack) /\ Len(stack') = n /\ Moved(n)

Opening(t) ==
    \E n \in Nat :
        /\ n = Len(stack)
        /\ Len(stack') = n + 1
        /\ Moved(n)
        /\ stack'[n + 1].token = t
        /\ Done(n + 1)' = 0

Closing ==
    \E n \in Nat :
        /\ n = Len(stack)
        /\ Len(stack') = n - 1
        /\ \A i \in 1 .. n - 1 : Same(i)

\* The calls have types, and so have their lists.
LEMMA StackType ==
    ASSUME TypeOK
    PROVE  /\ Len(stack) \in Nat /\ DOMAIN stack = 1 .. Len(stack)
           /\ Running <=> Len(stack) >= 1
           /\ \A i \in 1 .. Len(stack) : /\ stack[i] \in Frame
                                         /\ stack[i].token \in Token
                                         /\ stack[i].rest \in Seq(Source)
                                         /\ Len(stack[i].rest) \in Nat
                                         /\ Body(stack[i].token) \in Seq(Source)
                                         /\ Len(Body(stack[i].token)) \in Nat
<1>1. stack \in Seq(Frame) /\ world \in WorldType BY DEF TypeOK
<1>2. Len(stack) \in Nat /\ DOMAIN stack = 1 .. Len(stack) BY <1>1, LenProperties
<1>3. Running <=> Len(stack) >= 1 BY <1>1, <1>2, EmptySeq DEF Running
<1>4. ASSUME NEW i \in 1 .. Len(stack)
      PROVE  /\ stack[i] \in Frame /\ stack[i].token \in Token
             /\ stack[i].rest \in Seq(Source) /\ Len(stack[i].rest) \in Nat
             /\ Body(stack[i].token) \in Seq(Source)
             /\ Len(Body(stack[i].token)) \in Nat
    <2>1. stack[i] \in Frame BY <1>1, <1>2, ElementOfSeq
    <2>2. stack[i].token \in Token /\ stack[i].rest \in Seq(Source) BY <2>1 DEF Frame
    <2>3. Body(stack[i].token) \in Seq(Source) BY <1>1, <2>2, BodyType
    <2> QED BY <2>1, <2>2, <2>3, LenProperties
<1> QED BY <1>2, <1>3, <1>4

\* What is left of a list once its head has been taken is left of the whole.
LEMMA TailEnds ==
    ASSUME NEW S, NEW r \in Seq(S), r # <<>>, NEW b, Len(b) \in Nat, EndOf(r, b)
    PROVE  /\ EndOf(Tail(r), b)
           /\ Len(Tail(r)) = Len(r) - 1
           /\ Len(r) \in Nat \ {0} /\ Len(r) <= Len(b)
           /\ Head(r) = b[Len(b) - Len(r) + 1]
<1> DEFINE m == Len(b)
           l == Len(r)
<1>1. l \in Nat \ {0} /\ m \in Nat BY EmptySeq, LenProperties
<1>2. l <= m /\ \A j \in 1 .. l : r[j] = b[m - l + j] BY DEF EndOf
<1>3. Tail(r) \in Seq(S) /\ Len(Tail(r)) = l - 1 /\ \A j \in 1 .. l - 1 : Tail(r)[j] = r[j + 1]
    BY HeadTailProperties
<1>4. Head(r) = r[1] OBVIOUS
<1> HIDE DEF m, l
<1>5. ASSUME NEW j \in 1 .. l - 1 PROVE Tail(r)[j] = b[m - (l - 1) + j]
    <2>1. j + 1 \in 1 .. l /\ m - l + (j + 1) = m - (l - 1) + j BY <1>1, <1>2
    <2> QED BY <2>1, <1>2, <1>3
<1>6. l - 1 <= m /\ 1 \in 1 .. l BY <1>1, <1>2
<1>7. EndOf(Tail(r), b) BY <1>3, <1>5, <1>6 DEF EndOf, m
<1> QED BY <1>1, <1>2, <1>3, <1>4, <1>6, <1>7 DEF l, m

LEMMA WholeEnds == ASSUME NEW b, Len(b) \in Nat PROVE EndOf(b, b)
<1> DEFINE m == Len(b)
<1>1. m <= m /\ \A j \in 1 .. m : m - m + j = j OBVIOUS
<1> QED BY <1>1 DEF EndOf

\* How far a call has come, and the source before it.
LEMMA DoneType ==
    ASSUME TypeOK, Rests, NEW i \in 1 .. Len(stack)
    PROVE  /\ Done(i) \in 0 .. Len(Body(stack[i].token))
           /\ stack[i].rest = <<>> <=> Done(i) = Len(Body(stack[i].token))
           /\ stack[i].rest # <<>> =>
                 /\ Head(stack[i].rest) = Body(stack[i].token)[Done(i) + 1]
                 /\ Done(i) + 1 \in 1 .. Len(Body(stack[i].token))
<1> DEFINE b == Body(stack[i].token)
           r == stack[i].rest
           m == Len(b)
           l == Len(r)
<1>1. r \in Seq(Source) /\ l \in Nat /\ m \in Nat BY StackType
<1>2. EndOf(r, b) BY StackType DEF Rests
<1>3. l <= m BY <1>2 DEF EndOf
<1>4. r = <<>> <=> l = 0 BY <1>1, EmptySeq
<1>5. Done(i) = m - l BY DEF Done
<1>6. r # <<>> => Head(r) = b[m - l + 1] BY <1>1, <1>2, TailEnds
<1> HIDE DEF m, l, r
<1>7. /\ Done(i) \in 0 .. m
      /\ r = <<>> <=> Done(i) = m
      /\ r # <<>> => m - l + 1 = Done(i) + 1 /\ Done(i) + 1 \in 1 .. m
    BY <1>1, <1>3, <1>4, <1>5
<1> QED BY <1>6, <1>7 DEF m, r

\* The list a call goes through is the subscription's.
LEMMA InBody ==
    ASSUME TypeOK, NEW t \in Token, NEW k \in 1 .. Len(Body(t))
    PROVE  /\ t \in world.present
           /\ k \in DOMAIN world.sources[t]
           /\ Body(t)[k] = world.sources[t][k]
           /\ world.sources[t][k] \in Source
<1>1. world.sources[t] \in Seq(Source) BY DEF TypeOK, WorldType
<1>2. CASE t \in world.present
    <2>1. Body(t) = world.sources[t] BY <1>2 DEF Body
    <2> QED BY <1>1, <1>2, <2>1, LenProperties, ElementOfSeq
<1>3. CASE t \notin world.present
    <2>1. Len(Body(t)) = 0 BY <1>3 DEF Body
    <2> QED BY <2>1
<1> QED BY <1>2, <1>3

\* What shows is in the list that the call goes through.
LEMMA VisibleInBody ==
    ASSUME TypeOK, NEW t \in Token, NEW d, NEW k \in Visible(t, d)
    PROVE  k \in 1 .. Len(Body(t)) /\ k \in Nat \ {0}
<1>1. world.sources[t] \in Seq(Source) BY DEF TypeOK, WorldType
<1>2. k \in DOMAIN world.sources[t] /\ t \in world.present BY DEF Visible
<1>3. Body(t) = world.sources[t] BY <1>2 DEF Body
<1> QED BY <1>1, <1>2, <1>3, LenProperties

-----------------------------------------------------------------------------
(* What a step does to them                                                *)

\* What a call that is left alone still has to do.
LEMMA RestsOfSame ==
    ASSUME TypeOK, Rests, world' = world, NEW i \in 1 .. Len(stack), stack'[i] = stack[i]
    PROVE  /\ Same(i)
           /\ EndOf(stack'[i].rest, Body(stack'[i].token))
<1>1. Same(i) BY DEF Same, Done, Body
<1>2. EndOf(stack[i].rest, Body(stack[i].token)) BY StackType DEF Rests
<1> QED BY <1>1, <1>2

\* The call that has dealt with a source more.
LEMMA RestsOfMoved ==
    ASSUME TypeOK, Rests, world' = world, NEW i \in 1 .. Len(stack), stack[i].rest # <<>>,
           stack'[i].token = stack[i].token, stack'[i].rest = Tail(stack[i].rest)
    PROVE  /\ Done(i)' = Done(i) + 1
           /\ EndOf(stack'[i].rest, Body(stack'[i].token))
<1> DEFINE r == stack[i].rest
           b == Body(stack[i].token)
           m == Len(b)
           l == Len(r)
<1>1. r \in Seq(Source) /\ l \in Nat /\ m \in Nat BY StackType
<1>2. EndOf(r, b) BY StackType DEF Rests
<1>3. EndOf(Tail(r), b) /\ Len(Tail(r)) = l - 1 BY <1>1, <1>2, TailEnds
<1>4. Body(stack[i].token)' = b /\ Body(stack'[i].token) = b BY DEF Body
<1>5. Done(i)' = m - (l - 1)
    <2>1. Done(i)' = Len(Body(stack[i].token)') - Len(stack'[i].rest) BY DEF Done
    <2> QED BY <2>1, <1>3, <1>4
<1>6. Done(i) = m - l BY DEF Done
<1> QED BY <1>1, <1>3, <1>4, <1>5, <1>6

\* The calls once the next source has been dealt with.
LEMMA PoppedRests ==
    ASSUME TypeOK, Running, Top.rest # <<>>
    PROVE  /\ Popped \in Seq(Frame) /\ Len(Popped) = Len(stack)
           /\ \A i \in 1 .. Len(stack) - 1 : Popped[i] = stack[i]
           /\ Popped[Len(stack)].token = stack[Len(stack)].token
           /\ Popped[Len(stack)].rest = Tail(stack[Len(stack)].rest)
<1> DEFINE n == Len(stack)
           f == [Top EXCEPT !.rest = Tail(Top.rest)]
<1>1. n \in Nat \ {0} /\ Top = stack[n] /\ Top \in Frame /\ Top.rest \in Seq(Source)
    BY TopCall
<1>2. f \in Frame BY <1>1, NextSource DEF Frame
<1>3. f.token = stack[n].token /\ f.rest = Tail(stack[n].rest) BY <1>1 DEF Frame
<1>4. /\ Front(stack) \in Seq(Frame) /\ Len(Front(stack)) = n - 1
      /\ \A i \in 1 .. n - 1 : Front(stack)[i] = stack[i]
    BY FrontCalls
<1>5. Popped = Append(Front(stack), f) BY DEF Popped
<1> HIDE DEF f
<1>6. PICK front \in Seq(Frame) :
          Popped = Append(front, f) /\ Len(front) = n - 1 /\ \A i \in 1 .. n - 1 : front[i] = stack[i]
    BY <1>4, <1>5
<1> HIDE DEF Popped
<1>7. /\ Popped \in Seq(Frame) /\ Len(Popped) = n
      /\ \A i \in 1 .. n - 1 : Popped[i] = front[i]
      /\ Popped[n] = f
    BY <1>1, <1>2, <1>6, AppendProperties
<1> QED BY <1>3, <1>6, <1>7

\* How the rests of the calls follow from those of each.
LEMMA RestsOfAll ==
    ASSUME NEW n, DOMAIN stack' = 1 .. n, world' = world,
           \A i \in 1 .. n : EndOf(stack'[i].rest, Body(stack'[i].token))
    PROVE  Rests'
BY DEF Rests, Body

LEMMA AdvanceStep ==
    ASSUME TypeOK, Rests, Running, Top.rest # <<>>, stack' = Popped, world' = world
    PROVE  Advance /\ Rests'
<1>0. PICK n \in Nat : n = Len(stack) BY TopCall
<1>1. n \in Nat \ {0} /\ Top = stack[n] BY <1>0, TopCall
<1>2. /\ stack' \in Seq(Frame) /\ Len(stack') = n
      /\ \A i \in 1 .. n - 1 : stack'[i] = stack[i]
      /\ stack'[n].token = stack[n].token /\ stack'[n].rest = Tail(stack[n].rest)
    BY <1>0, PoppedRests
<1>3. n \in 1 .. n /\ DOMAIN stack' = 1 .. n BY <1>1, <1>2, LenProperties
<1>4. \A i \in 1 .. n - 1 : i \in 1 .. n BY <1>1
<1>5. Advance BY <1>0, <1>1, <1>2, <1>3, <1>4, RestsOfSame, RestsOfMoved DEF Advance, Moved
<1>6. \A i \in 1 .. n : i # n => i \in 1 .. n - 1 BY <1>1
<1>7. \A i \in 1 .. n : EndOf(stack'[i].rest, Body(stack'[i].token))
    BY <1>0, <1>1, <1>2, <1>3, <1>6, RestsOfSame, RestsOfMoved
<1>8. Rests' BY <1>3, <1>7, RestsOfAll
<1> QED BY <1>5, <1>8

LEMMA OpeningStep ==
    ASSUME TypeOK, Rests, Running, Top.rest # <<>>, world' = world, NEW t \in Token,
           stack' = Append(Popped, [token |-> t, rest |-> Body(t)])
    PROVE  Opening(t) /\ Rests'
<1>0. PICK n \in Nat : n = Len(stack) BY TopCall
<1> DEFINE new == [token |-> t, rest |-> Body(t)]
<1>1. n \in Nat \ {0} /\ Top = stack[n] BY <1>0, TopCall
<1>2. /\ Popped \in Seq(Frame) /\ Len(Popped) = n
      /\ \A i \in 1 .. n - 1 : Popped[i] = stack[i]
      /\ Popped[n].token = stack[n].token /\ Popped[n].rest = Tail(stack[n].rest)
    BY <1>0, PoppedRests
<1>3. new \in Frame /\ new.token = t /\ new.rest = Body(t) BY BodyType DEF Frame, TypeOK
<1>4. stack' = Append(Popped, new) OBVIOUS
<1> HIDE DEF new, Popped
<1>5. /\ Len(stack') = n + 1 /\ DOMAIN stack' = 1 .. n + 1
      /\ \A i \in 1 .. n : stack'[i] = Popped[i]
      /\ stack'[n + 1] = new
    BY <1>1, <1>2, <1>3, <1>4, AppendProperties, LenProperties
<1>6. /\ n \in 1 .. n /\ n + 1 \in 1 .. n + 1
      /\ \A i \in 1 .. n - 1 : i \in 1 .. n
      /\ \A i \in 1 .. n : i # n => i \in 1 .. n - 1
      /\ \A i \in 1 .. n + 1 : i # n + 1 => i \in 1 .. n
    BY <1>1
<1>7. /\ \A i \in 1 .. n - 1 : stack'[i] = stack[i]
      /\ stack'[n].token = stack[n].token /\ stack'[n].rest = Tail(stack[n].rest)
    BY <1>2, <1>5, <1>6
<1>8. Len(Body(t)) \in Nat /\ Len(Body(t)) - Len(Body(t)) = 0
    BY BodyType, LenProperties DEF TypeOK
<1>9. Done(n + 1)' = 0
    <2>1. Body(stack[n + 1].token)' = Body(t) BY <1>3, <1>5 DEF Body
    <2>2. Done(n + 1)' = Len(Body(stack[n + 1].token)') - Len(stack'[n + 1].rest) BY DEF Done
    <2> QED BY <2>1, <2>2, <1>3, <1>5, <1>8
<1>10. Opening(t) BY <1>0, <1>1, <1>3, <1>5, <1>6, <1>7, <1>9, RestsOfSame, RestsOfMoved DEF Opening, Moved
<1>11. EndOf(Body(t), Body(t)) BY <1>8, WholeEnds
<1>12. \A i \in 1 .. n + 1 : EndOf(stack'[i].rest, Body(stack'[i].token))
    <2>1. \A i \in 1 .. n : EndOf(stack'[i].rest, Body(stack'[i].token))
        BY <1>0, <1>1, <1>6, <1>7, RestsOfSame, RestsOfMoved
    <2>2. EndOf(stack'[n + 1].rest, Body(stack'[n + 1].token)) BY <1>3, <1>5, <1>11
    <2> QED BY <1>6, <2>1, <2>2
<1>13. Rests' BY <1>5, <1>12, RestsOfAll
<1> QED BY <1>10, <1>13

LEMMA ClosingStep ==
    ASSUME TypeOK, Rests, Running, world' = world, stack' = Front(stack)
    PROVE  Closing /\ Rests'
<1>0. PICK n \in Nat : n = Len(stack) BY TopCall
<1>1. /\ n \in Nat \ {0} /\ Len(stack') = n - 1 /\ stack' \in Seq(Frame)
      /\ \A i \in 1 .. n - 1 : stack'[i] = stack[i]
    BY <1>0, TopCall, FrontCalls
<1>2. DOMAIN stack' = 1 .. n - 1 /\ \A i \in 1 .. n - 1 : i \in 1 .. n BY <1>1, LenProperties
<1>3. Closing BY <1>0, <1>1, <1>2, RestsOfSame DEF Closing
<1>4. \A i \in 1 .. n - 1 : EndOf(stack'[i].rest, Body(stack'[i].token))
    BY <1>0, <1>1, <1>2, RestsOfSame
<1>5. Rests' BY <1>2, <1>4, RestsOfAll
<1> QED BY <1>3, <1>5

\* What a step leaves of what it reads of the world.
LEMMA SameWorld ==
    ASSUME world' = world
    PROVE  /\ \A t : Body(t)' = Body(t)
           /\ \A t, d : Visible(t, d)' = Visible(t, d)
           /\ \A x, k, t : Refers(x, k, t)' = Refers(x, k, t)
           /\ \A t, k : Offer(t, k)' = Offer(t, k)
<1>1. \A t : Body(t)' = Body(t) BY DEF Body
<1>2. \A t, d : Visible(t, d)' = Visible(t, d) BY DEF Visible
<1>3. \A x, k, t : Refers(x, k, t)' = Refers(x, k, t) BY DEF Refers
<1>4. \A t, k : Offer(t, k)' = Offer(t, k) BY DEF Offer
<1> QED BY <1>1, <1>2, <1>3, <1>4

\* The source that is next, as one of its subscription's.
LEMMA AtNext ==
    ASSUME TypeOK, Rests, Running, Top.rest # <<>>,
           NEW n, n = Len(stack), NEW t, t = stack[n].token, NEW k, k = Done(n) + 1
    PROVE  /\ n \in Nat \ {0} /\ t \in Token /\ t = Top.token
           /\ k \in 1 .. Len(Body(t)) /\ k \in DOMAIN world.sources[t]
           /\ t \in world.present
           /\ Head(Top.rest) = world.sources[t][k] /\ world.sources[t][k] \in Source
           /\ Depth = n - 1
           /\ Counts(Head(Top.rest), Depth) <=> k \in Visible(t, n - 1)
<1>1. n \in Nat \ {0} /\ Top = stack[n] /\ n \in 1 .. n BY TopCall
<1>2. t \in Token /\ t = Top.token BY <1>1, StackType
<1>3. Head(Top.rest) = Body(t)[k] /\ k \in 1 .. Len(Body(t)) BY <1>1, DoneType
<1>4. /\ t \in world.present
      /\ k \in DOMAIN world.sources[t]
      /\ Body(t)[k] = world.sources[t][k]
      /\ world.sources[t][k] \in Source
    BY <1>2, <1>3, InBody
<1>5. Depth = n - 1 BY DEF Depth
<1>6. world.sources[t][k].hidden \in BOOLEAN BY <1>4 DEF Source
<1>7. Counts(Head(Top.rest), Depth) <=> k \in Visible(t, n - 1)
    BY <1>1, <1>3, <1>4, <1>5, <1>6 DEF Counts, Visible
<1> QED BY <1>1, <1>2, <1>3, <1>4, <1>5, <1>7

-----------------------------------------------------------------------------
(* Each step on the calls                                                  *)

\* A step moves one call on, opens one or closes one, or takes a config off the batch.
LEMMA StepShape ==
    ASSUME TypeOK, Rests, Next
    PROVE  /\ Rests'
           /\ world' = world
           /\ \/ (Skip \/ ApplyConfig \/ ApplyUrl \/ LoseToken) /\ Advance /\ Top.rest # <<>>
              \/ AddFetched /\ stack' = stack
              \/ ApplyToken /\ Advance /\ Top.rest # <<>> /\ resolved' = resolved
              \/ /\ ApplyToken /\ Top.rest # <<>> /\ Opening(Head(Top.rest).ref)
                 /\ Head(Top.rest).ref \in Token
                 /\ Head(Top.rest).ref \notin resolved
                 /\ resolved' = resolved \cup {Head(Top.rest).ref}
              \/ Return /\ Closing
<1>1. world' = world
    BY DEF Next, Skip, ApplyConfig, ApplyUrl, AddFetched, LoseToken, ApplyToken, Return
<1>2. CASE Skip BY <1>1, <1>2, AdvanceStep DEF Skip
<1>3. CASE ApplyConfig BY <1>1, <1>3, AdvanceStep DEF ApplyConfig, AtSource
<1>4. CASE ApplyUrl BY <1>1, <1>4, AdvanceStep DEF ApplyUrl, AtSource
<1>5. CASE LoseToken BY <1>1, <1>5, AdvanceStep DEF LoseToken, AtSource
<1>6. CASE AddFetched
    <2>1. stack' = stack BY <1>6 DEF AddFetched
    <2>2. Rests' BY <1>1, <2>1 DEF Rests, Body
    <2> QED BY <1>1, <1>6, <2>1, <2>2
<1>7. CASE ApplyToken
    <2>1. Running /\ Top.rest # <<>> BY <1>7 DEF ApplyToken, AtSource
    <2> DEFINE t == Head(Top.rest).ref
    <2>2. t \in Token
        <3>1. Head(Top.rest).kind = "token" /\ Head(Top.rest) \in Source
            BY <1>7, NextSource DEF ApplyToken, AtSource
        <3> QED BY <3>1 DEF Source
    <2>3. \/ stack' = Popped /\ resolved' = resolved
          \/ /\ t \notin resolved /\ resolved' = resolved \cup {t}
             /\ stack' = Append(Popped, [token |-> t, rest |-> Body(t)])
        BY <1>7 DEF ApplyToken, Enter
    <2>4. CASE stack' = Popped /\ resolved' = resolved
        <3>1. Advance /\ Rests' BY <1>1, <2>1, <2>4, AdvanceStep
        <3> QED BY <1>1, <1>7, <2>1, <2>4, <3>1
    <2>5. CASE /\ t \notin resolved /\ resolved' = resolved \cup {t}
               /\ stack' = Append(Popped, [token |-> t, rest |-> Body(t)])
        <3>1. Opening(t) /\ Rests' BY <1>1, <2>1, <2>2, <2>5, OpeningStep
        <3> QED BY <1>1, <1>7, <2>1, <2>2, <2>5, <3>1
    <2> QED BY <2>3, <2>4, <2>5
<1>8. CASE Return BY <1>1, <1>8, ClosingStep DEF Return
<1> QED BY <1>1, <1>2, <1>3, <1>4, <1>5, <1>6, <1>7, <1>8 DEF Next

\* The calls stand where the one below has handed over.
LEMMA NextLinked ==
    ASSUME TypeOK, Rests, Linked, Next
    PROVE  Linked'
<1>1. Rests' /\ world' = world BY StepShape
<1>2. PICK n \in Nat : n = Len(stack) BY StackType
<1>3. /\ \A t, d : Visible(t, d)' = Visible(t, d)
      /\ \A x, k, t : Refers(x, k, t)' = Refers(x, k, t)
    BY <1>1, SameWorld
<1>4. Running /\ n \in Nat \ {0} /\ stack[1].token = Root
    BY <1>2, TopCall DEF Linked, Next, Skip, ApplyConfig, ApplyUrl, AddFetched, LoseToken,
                         ApplyToken, Return, AtSource
<1>5. \A i \in 1 .. n - 1 : /\ Done(i) \in Visible(stack[i].token, i - 1)
                            /\ Refers(stack[i].token, Done(i), stack[i + 1].token)
    BY <1>2 DEF Linked
<1>6. ASSUME NEW i \in 1 .. n - 1, Same(i), stack'[i + 1].token = stack[i + 1].token
      PROVE  /\ (Done(i) \in Visible(stack[i].token, i - 1))'
             /\ Refers(stack[i].token, Done(i), stack[i + 1].token)'
    BY <1>1, <1>5, <1>6 DEF Same, Visible, Refers
<1>7. ASSUME NEW m \in Nat, Len(stack') = m, m # 0 => stack'[1].token = Root,
             \A i \in 1 .. m - 1 : /\ (Done(i) \in Visible(stack[i].token, i - 1))'
                                   /\ Refers(stack[i].token, Done(i), stack[i + 1].token)'
      PROVE  Linked'
    <2>1. (stack # <<>>)' => m # 0 BY <1>7
    <2> QED BY <1>7, <2>1 DEF Linked, Running
<1>8. CASE Advance
    <2>1. Len(stack') = n /\ Moved(n) BY <1>2, <1>8 DEF Advance
    <2>2. \A i \in 1 .. n : stack'[i].token = stack[i].token BY <2>1 DEF Moved, Same
    <2>3. \A i \in 1 .. n - 1 : Same(i) BY <2>1 DEF Moved
    <2>4. \A i \in 1 .. n - 1 : i + 1 \in 1 .. n OBVIOUS
    <2>5. stack'[1].token = Root BY <1>4, <2>2
    <2> QED BY <1>6, <1>7, <2>1, <2>2, <2>3, <2>4, <2>5
<1>9. CASE stack' = stack
    <2>1. \A i \in 1 .. n - 1 : Same(i) BY <1>1, <1>9 DEF Same, Done, Body
    <2> QED BY <1>2, <1>4, <1>6, <1>7, <1>9, <2>1
<1>10. CASE Top.rest # <<>> /\ ApplyToken /\ Opening(Head(Top.rest).ref)
    <2> DEFINE t == Head(Top.rest).ref
    <2>1. /\ Len(stack') = n + 1 /\ Moved(n) /\ stack'[n + 1].token = t
        BY <1>2, <1>10 DEF Opening
    <2>2. \A i \in 1 .. n : stack'[i].token = stack[i].token BY <2>1 DEF Moved, Same
    <2>3. PICK x, k : x = stack[n].token /\ k = Done(n) + 1 OBVIOUS
    <2>4. /\ Head(Top.rest) = world.sources[x][k]
          /\ Counts(Head(Top.rest), Depth) <=> k \in Visible(x, n - 1)
        BY <1>2, <1>4, <1>10, <2>3, AtNext
    <2>5. k \in Visible(x, n - 1) /\ Refers(x, k, t)
        BY <1>10, <2>4 DEF ApplyToken, AtSource, Refers
    <2>6. Done(n)' = k /\ stack'[n].token = x BY <2>1, <2>3 DEF Moved
    <2>7. /\ (Done(n) \in Visible(stack[n].token, n - 1))'
          /\ Refers(stack[n].token, Done(n), stack[n + 1].token)'
        BY <1>1, <2>1, <2>5, <2>6 DEF Visible, Refers
    <2>8. \A i \in 1 .. n - 1 : /\ (Done(i) \in Visible(stack[i].token, i - 1))'
                                /\ Refers(stack[i].token, Done(i), stack[i + 1].token)'
        <3>1. \A i \in 1 .. n - 1 : Same(i) /\ i + 1 \in 1 .. n BY <2>1 DEF Moved
        <3> QED BY <1>6, <2>2, <3>1
    <2>9. \A i \in 1 .. (n + 1) - 1 : i # n => i \in 1 .. n - 1 OBVIOUS
    <2>10. stack'[1].token = Root /\ n + 1 \in Nat BY <1>4, <2>2
    <2> HIDE DEF t
    <2> QED BY <1>7, <2>1, <2>7, <2>8, <2>9, <2>10
<1>11. CASE Closing
    <2>1. Len(stack') = n - 1 /\ \A i \in 1 .. n - 1 : Same(i) BY <1>2, <1>11 DEF Closing
    <2>2. \A i \in 1 .. n - 1 : stack'[i].token = stack[i].token BY <2>1 DEF Same
    <2>3. \A i \in 1 .. (n - 1) - 1 : i \in 1 .. n - 1 /\ i + 1 \in 1 .. n - 1 BY <1>4
    <2>4. n - 1 \in Nat /\ (n - 1 # 0 => stack'[1].token = Root) BY <1>4, <2>2
    <2> QED BY <1>6, <1>7, <2>1, <2>2, <2>3, <2>4
<1> QED BY <1>8, <1>9, <1>10, <1>11, StepShape

-----------------------------------------------------------------------------
(* The batch                                                               *)

\* What is left of the content of an external source, the last one dealt with;
\* the whole rest of it unless it was cut.
Fetched ==
    batch # <<>> =>
        LET t == Top.token
            k == Done(Len(stack))
        IN  /\ Running
            /\ k \in Visible(t, Depth)
            /\ world.sources[t][k].kind = "url"
            /\ \A j \in DOMAIN batch : \E m \in DOMAIN Offer(t, k) : batch[j] = Offer(t, k)[m]
            /\ ~truncated => EndOf(batch, Offer(t, k))

LEMMA OfferType ==
    ASSUME TypeOK, NEW t \in Token, NEW k \in DOMAIN world.sources[t]
    PROVE  /\ Offer(t, k) \in Seq(Config)
           /\ Len(Offer(t, k)) \in Nat /\ DOMAIN Offer(t, k) = 1 .. Len(Offer(t, k))
<1> DEFINE s == world.sources[t][k]
<1>1. world.sources[t] \in Seq(Source) BY DEF TypeOK, WorldType
<1>2. s \in Source BY <1>1, LenProperties, ElementOfSeq
<1>3. CASE s.kind = "config"
    <2>1. s.ref \in Config BY <1>2, <1>3 DEF Source
    <2>2. Offer(t, k) = <<s.ref>> BY <1>3 DEF Offer
    <2> QED BY <2>1, <2>2, LenProperties
<1>4. CASE s.kind = "url"
    <2>1. s.ref \in Url BY <1>2, <1>4 DEF Source
    <2>2. Offer(t, k) = world.content[s.ref] BY <1>4 DEF Offer
    <2>3. world.content[s.ref] \in Seq(Config) BY <2>1 DEF TypeOK, WorldType
    <2> QED BY <2>2, <2>3, LenProperties
<1>5. CASE s.kind = "token"
    <2>1. Offer(t, k) = <<>> BY <1>5 DEF Offer
    <2>2. <<>> \in Seq(Config) BY EmptySeq
    <2> QED BY <2>1, <2>2, LenProperties
<1>6. s.kind \in {"config", "url", "token"} BY <1>2 DEF Source
<1> QED BY <1>3, <1>4, <1>5, <1>6

\* A cut content is part of it.
LEMMA SliceOf ==
    ASSUME TypeOK, NEW s \in Seq(Config), Len(result) <= MaxConfigs
    PROVE  /\ \A j \in DOMAIN Slice(s) : \E m \in DOMAIN s : Slice(s)[j] = s[m]
           /\ Len(s) <= MaxConfigs - Len(result) => Slice(s) = s
<1> DEFINE m == MaxConfigs - Len(result)
<1>1. m \in Nat BY LenProperties, ResolverAssumption DEF TypeOK
<1>2. Len(s) \in Nat /\ DOMAIN s = 1 .. Len(s) BY LenProperties
<1>3. CASE Len(s) <= m BY <1>3 DEF Slice
<1>4. CASE ~(Len(s) <= m)
    <2>1. Slice(s) = SubSeq(s, 1, m) BY <1>4 DEF Slice
    <2>2. \A i \in 1 .. m : s[i] \in Config BY <1>1, <1>2, <1>4, ElementOfSeq
    <2>3. /\ SubSeq(s, 1, m) \in Seq(Config) /\ Len(SubSeq(s, 1, m)) = m
          /\ \A i \in 1 .. m - 1 + 1 : SubSeq(s, 1, m)[i] = s[1 + i - 1]
        BY <1>1, <1>2, <1>4, <2>2, SubSeqProperties
    <2>4. DOMAIN SubSeq(s, 1, m) = 1 .. m BY <2>3, LenProperties
    <2>5. \A j \in 1 .. m : j \in 1 .. m - 1 + 1 /\ 1 + j - 1 = j /\ j \in 1 .. Len(s)
        BY <1>1, <1>2, <1>4
    <2> HIDE DEF m
    <2>6. \A j \in 1 .. m : SubSeq(s, 1, m)[j] = s[j] BY <2>3, <2>5
    <2> QED BY <1>2, <1>4, <2>1, <2>4, <2>5, <2>6 DEF m
<1> QED BY <1>3, <1>4

\* The batch, in the terms of a step that reads the content once.
LEMMA FetchedOf ==
    ASSUME world' = world, NEW n \in Nat \ {0}, Len(stack') = n, NEW t, stack'[n].token = t,
           NEW k, Done(n)' = k,
           k \in Visible(t, n - 1), world.sources[t][k].kind = "url",
           \A j \in DOMAIN batch' : \E m \in DOMAIN Offer(t, k) : batch'[j] = Offer(t, k)[m],
           ~truncated' => EndOf(batch', Offer(t, k))
    PROVE  Fetched'
<1>1. (Top.token)' = t /\ Depth' = n - 1 BY DEF Top, Last, Depth
<1>2. Running'
    <2>1. Len(<<>>) = 0 OBVIOUS
    <2> QED BY <2>1 DEF Running
<1>3. Done(Len(stack))' = k
    <2>1. \A i : i = n => Done(i)' = k OBVIOUS
    <2> QED BY <2>1 DEF Done
<1>4. \A x, d : Visible(x, d)' = Visible(x, d) BY SameWorld
<1>5. (Done(Len(stack)) \in Visible(Top.token, Depth))' BY <1>1, <1>3 DEF Visible
<1>6. Offer(Top.token, Done(Len(stack)))' = Offer(t, k) BY <1>1, <1>3 DEF Offer
<1> HIDE DEF Done
<1> QED BY <1>1, <1>2, <1>3, <1>5, <1>6 DEF Fetched

\* A batch comes from the source at hand, and loses its head only.
LEMMA NextFetched ==
    ASSUME TypeOK, WithinLimit, Rests, Fetched, Next
    PROVE  Fetched'
<1>1. world' = world BY StepShape
<1>2. PICK n \in Nat \ {0} : n = Len(stack)
    BY TopCall DEF Next, Skip, ApplyConfig, ApplyUrl, AddFetched, LoseToken,
                   ApplyToken, Return, AtSource
<1>3. CASE Skip \/ ApplyConfig \/ LoseToken \/ ApplyToken \/ Return
    <2>1. batch' = <<>>
        BY <1>3 DEF Skip, ApplyConfig, LoseToken, ApplyToken, Return, AtSource
    <2> QED BY <2>1 DEF Fetched
<1>4. CASE ApplyUrl
    <2>1. PICK t, k : t = stack[n].token /\ k = Done(n) + 1 OBVIOUS
    <2>2. Running /\ Top.rest # <<>> BY <1>4 DEF ApplyUrl, AtSource
    <2>3. /\ Head(Top.rest) = world.sources[t][k] /\ t \in Token
          /\ k \in DOMAIN world.sources[t]
          /\ Counts(Head(Top.rest), Depth) <=> k \in Visible(t, n - 1)
        BY <1>2, <2>1, <2>2, AtNext
    <2>4. k \in Visible(t, n - 1) /\ world.sources[t][k].kind = "url"
        BY <1>4, <2>3 DEF ApplyUrl, AtSource
    <2> DEFINE content == world.content[Head(Top.rest).ref]
    <2>5. Offer(t, k) = content BY <2>3, <2>4 DEF Offer
    <2>6. content \in Seq(Config) BY <2>3, <2>5, OfferType
    <2>7. /\ batch' = Slice(content)
          /\ ~truncated' => ~(Len(content) > MaxConfigs - Len(result))
        BY <1>4 DEF ApplyUrl
    <2>8. Len(result) \in Nat /\ Len(batch) \in Nat /\ MaxConfigs \in Nat
          /\ Len(content) \in Nat
        BY <2>6, LenProperties, ResolverAssumption DEF TypeOK
    <2> HIDE DEF content
    <2>9. Len(result) <= MaxConfigs BY <2>8 DEF WithinLimit
    <2>10. \A j \in DOMAIN batch' : \E m \in DOMAIN content : batch'[j] = content[m]
        BY <2>6, <2>7, <2>9, SliceOf
    <2>11. ~truncated' => EndOf(batch', content)
        BY <2>6, <2>7, <2>8, <2>9, SliceOf, WholeEnds
    <2>12. Advance BY <1>1, <1>4, AdvanceStep DEF ApplyUrl, AtSource
    <2>13. Len(stack') = n /\ stack'[n].token = t /\ Done(n)' = k
        BY <1>2, <2>1, <2>12 DEF Advance, Moved
    <2> QED BY <1>1, <2>4, <2>5, <2>10, <2>11, <2>13, FetchedOf
<1>5. CASE AddFetched
    <2>1. PICK t, k : t = stack[n].token /\ k = Done(n) OBVIOUS
    <2>2. /\ batch # <<>> /\ stack' = stack /\ batch' = Tail(batch) /\ truncated' = truncated
        BY <1>5 DEF AddFetched
    <2>3. Top.token = t /\ Depth = n - 1 BY <1>2, <2>1 DEF Top, Last, Depth
    <2>4. /\ k \in Visible(t, n - 1)
          /\ world.sources[t][k].kind = "url"
          /\ \A j \in DOMAIN batch : \E m \in DOMAIN Offer(t, k) : batch[j] = Offer(t, k)[m]
          /\ ~truncated => EndOf(batch, Offer(t, k))
        BY <1>2, <2>1, <2>2, <2>3 DEF Fetched
    <2>5. Len(stack') = n /\ stack'[n].token = t BY <1>2, <2>1, <2>2
    <2>6. Done(n)' = k BY <1>1, <2>1, <2>2 DEF Done, Body
    <2>7. t \in Token /\ k \in DOMAIN world.sources[t]
        BY <1>2, <2>1, <2>4, StackType DEF Visible
    <2>8. Len(Offer(t, k)) \in Nat BY <2>7, OfferType
    <2>9. ~truncated' => EndOf(batch', Offer(t, k)) BY <2>2, <2>4, <2>8, TailEnds DEF TypeOK
    <2>10. ASSUME NEW j \in DOMAIN batch'
           PROVE  \E m \in DOMAIN Offer(t, k) : batch'[j] = Offer(t, k)[m]
        <3>1. /\ batch \in Seq(Config) /\ Tail(batch) \in Seq(Config)
              /\ Len(Tail(batch)) = Len(batch) - 1 /\ Len(batch) \in Nat
              /\ \A i \in 1 .. Len(batch) - 1 : Tail(batch)[i] = batch[i + 1]
            BY <2>2, HeadTailProperties, LenProperties DEF TypeOK
        <3>2. DOMAIN Tail(batch) = 1 .. Len(batch) - 1 /\ DOMAIN batch = 1 .. Len(batch)
            BY <3>1, LenProperties
        <3>3. j \in 1 .. Len(batch) - 1 BY <2>2, <3>2
        <3>4. batch'[j] = batch[j + 1] BY <2>2, <3>1, <3>3
        <3>5. j + 1 \in DOMAIN batch BY <3>1, <3>2, <3>3
        <3> QED BY <2>4, <3>4, <3>5
    <2> QED BY <1>1, <2>4, <2>5, <2>6, <2>9, <2>10, FetchedOf
<1> QED BY <1>3, <1>4, <1>5 DEF Next

-----------------------------------------------------------------------------
(* Places                                                                  *)

\* The place that the calls have come to: source k of the top call, item m.
Here(k, m) ==
    [via |-> [i \in 1 .. Len(stack) |-> stack[i].token],
     at |-> [i \in 1 .. Len(stack) |-> IF i = Len(stack) THEN k ELSE Done(i)],
     item |-> m]

LEMMA PlaceIs ==
    ASSUME NEW p
    PROVE  p \in Places <=>
               \E v \in Routes : \E a \in Steps(v) : \E m \in DOMAIN Offer(v[Len(v)], a[Len(v)]) :
                   p = [via |-> v, at |-> a, item |-> m]
<1> DEFINE D(v, a) == DOMAIN Offer(v[Len(v)], a[Len(v)])
           P(v, a, m) == [via |-> v, at |-> a, item |-> m]
<1>1. Places = UNION {UNION {{P(v, a, m) : m \in D(v, a)} : a \in Steps(v)} : v \in Routes}
    BY DEF Places
<1>2. (\E v \in Routes : \E a \in Steps(v) : \E m \in DOMAIN Offer(v[Len(v)], a[Len(v)]) :
           p = [via |-> v, at |-> a, item |-> m])
      <=> \E v \in Routes : \E a \in Steps(v) : \E m \in D(v, a) : p = P(v, a, m)
    OBVIOUS
<1> HIDE DEF D, P
<1>3. p \in UNION {UNION {{P(v, a, m) : m \in D(v, a)} : a \in Steps(v)} : v \in Routes}
      <=> \E v \in Routes : p \in UNION {{P(v, a, m) : m \in D(v, a)} : a \in Steps(v)}
    OBVIOUS
<1>4. ASSUME NEW v \in Routes
      PROVE  p \in UNION {{P(v, a, m) : m \in D(v, a)} : a \in Steps(v)}
             <=> \E a \in Steps(v) : \E m \in D(v, a) : p = P(v, a, m)
    OBVIOUS
<1> QED BY <1>1, <1>2, <1>3, <1>4

\* An item of the source at hand, if it shows, has a place: the calls are its route.
LEMMA HereIsPlace ==
    ASSUME TypeOK, OpenedOnce, Rests, Linked, Running,
           NEW k \in Visible(Top.token, Depth), NEW m \in DOMAIN Offer(Top.token, k)
    PROVE  /\ Here(k, m) \in Places
           /\ ConfigAt(Here(k, m)) = Offer(Top.token, k)[m]
<1> DEFINE n == Len(stack)
           v == [i \in 1 .. n |-> stack[i].token]
           a == [i \in 1 .. n |-> IF i = n THEN k ELSE Done(i)]
<1>1. n \in Nat \ {0} /\ n \in 1 .. n /\ Top = stack[n] /\ Depth = n - 1 BY TopCall DEF Depth
<1>2. v \in [1 .. n -> Token] BY StackType
<1>3. DOMAIN v = 1 .. n /\ DOMAIN a = 1 .. n OBVIOUS
<1>4. Len(v) = n /\ Len(a) = n BY <1>1, <1>3
<1>5. n \in 1 .. MaxDepth + 1 BY <1>1, ResolverAssumption DEF OpenedOnce
<1>6. v[n] = Top.token /\ a[n] = k BY <1>1
<1>7. ASSUME NEW i \in 1 .. n - 1
      PROVE  /\ v[i] = stack[i].token /\ v[i + 1] = stack[i + 1].token /\ a[i] = Done(i)
             /\ a[i] \in Visible(v[i], i - 1)
             /\ Refers(v[i], a[i], v[i + 1])
    <2>1. i \in 1 .. n /\ i + 1 \in 1 .. n /\ i # n BY <1>1
    <2>2. v[i] = stack[i].token /\ v[i + 1] = stack[i + 1].token /\ a[i] = Done(i) BY <2>1
    <2> HIDE DEF v, a
    <2> QED BY <2>2 DEF Linked
<1>8. a[n] \in Visible(v[n], n - 1) BY <1>1, <1>6
<1>9. \A i \in 1 .. n : i # n => i \in 1 .. n - 1 BY <1>1
<1>10. v[1] = Root BY <1>1 DEF Linked
<1>11. IsInjective(v)
    <2>1. \A i, j \in 1 .. n : v[i] = v[j] => i = j BY StackType DEF OpenedOnce
    <2> HIDE DEF v
    <2> QED BY <1>3, <2>1 DEF IsInjective
<1> HIDE DEF v, a, n
<1>12. \A i \in 1 .. n : a[i] \in Visible(v[i], i - 1) BY <1>7, <1>8, <1>9
<1>13. v \in Routes
    <2>1. v \in UNION {[1 .. j -> Token] : j \in 1 .. MaxDepth + 1} BY <1>2, <1>5
    <2>2. \A i \in 1 .. n - 1 : \E j \in Visible(v[i], i - 1) : Refers(v[i], j, v[i + 1])
        BY <1>7
    <2> QED BY <1>4, <1>10, <1>11, <2>1, <2>2 DEF Routes
<1>14. a \in Steps(v)
    <2>1. \A i \in 1 .. n : v[i] \in Token BY <1>2
    <2>2. \A i \in 1 .. n : a[i] \in UNION {DOMAIN world.sources[t] : t \in Token}
        BY <1>12, <2>1 DEF Visible
    <2>3. a \in [DOMAIN v -> UNION {DOMAIN world.sources[t] : t \in Token}]
        <3>1. a = [i \in 1 .. n |-> a[i]] BY <1>3 DEF a
        <3> QED BY <1>3, <2>2, <3>1
    <2> QED BY <1>3, <1>4, <1>7, <1>12, <2>3 DEF Steps
<1>15. Here(k, m) = [via |-> v, at |-> a, item |-> m] BY DEF Here, v, a, n
<1>16. m \in DOMAIN Offer(v[Len(v)], a[Len(v)]) BY <1>4, <1>6
<1>17. Here(k, m) \in Places BY <1>13, <1>14, <1>15, <1>16, PlaceIs
<1>18. ConfigAt(Here(k, m)) = Offer(Top.token, k)[m]
    BY <1>4, <1>6, <1>15 DEF ConfigAt
<1> QED BY <1>17, <1>18

\* What a step that shows something does to the list.
LEMMA ShownEntry ==
    ASSUME TypeOK, NEW c \in Config, NEW x \in Token \cup {NoToken}, NEW e \in BOOLEAN,
           Show(c, x, e), NEW n, n = Len(result)
    PROVE  /\ n \in Nat /\ DOMAIN result = 1 .. n
           /\ \/ c \in Shown /\ result' = result
              \/ /\ c \notin Shown
                 /\ Len(result') = n + 1 /\ DOMAIN result' = 1 .. n + 1
                 /\ \A i \in 1 .. n : result'[i] = result[i]
                 /\ result'[n + 1] = [config |-> c, comment |-> x, external |-> e]
<1>1. result \in Seq(Entry) /\ n \in Nat /\ DOMAIN result = 1 .. n
    BY LenProperties DEF TypeOK
<1>2. CASE c \in Shown BY <1>1, <1>2 DEF Show
<1>3. CASE c \notin Shown
    <2> DEFINE new == [config |-> c, comment |-> x, external |-> e]
    <2>1. result' = Append(result, new) /\ new \in Entry BY <1>3 DEF Show, Entry
    <2> HIDE DEF new
    <2>2. /\ Append(result, new) \in Seq(Entry) /\ Len(Append(result, new)) = n + 1
          /\ \A i \in 1 .. n : Append(result, new)[i] = result[i]
          /\ Append(result, new)[n + 1] = new
        BY <1>1, <2>1, AppendProperties
    <2>3. DOMAIN Append(result, new) = 1 .. n + 1 BY <2>2, LenProperties
    <2> QED BY <1>1, <1>3, <2>1, <2>2, <2>3 DEF new
<1> QED BY <1>2, <1>3

\* The places are a matter of the world alone.
LEMMA SamePlaces ==
    ASSUME world' = world
    PROVE  Places' = Places /\ \A p : ConfigAt(p)' = ConfigAt(p)
BY DEF Places, ConfigAt, Routes, Steps, Visible, Refers, Offer

-----------------------------------------------------------------------------
(* Comments                                                                *)

\* The root's comments stay, and every subscription entered has given its own.
Labels ==
    /\ Root \in world.present => \A c \in world.labels[Root] : comments[c] = Root
    /\ \A t \in resolved \cap world.present : \A c \in world.labels[t] : comments[c] # NoToken

\* Merge fills gaps, with what the subscription entered has.
LEMMA NextLabels ==
    ASSUME TypeOK, Rests, Labels, Next
    PROVE  Labels'
<1>1. world' = world BY StepShape
<1>2. \A t \in Token : world.labels[t] \subseteq Config BY DEF TypeOK, WorldType
<1>3. Root \in Token /\ Root # NoToken /\ NoToken \notin Token BY ResolverAssumption
<1>4. CASE ApplyToken
    <2> DEFINE t == Head(Top.rest).ref
    <2>1. Head(Top.rest).kind = "token" /\ Head(Top.rest) \in Source
        BY <1>4, NextSource DEF ApplyToken, AtSource
    <2>2. t \in Token BY <2>1 DEF Source
    <2>3. comments' = Labelled(t) BY <1>4 DEF ApplyToken, Merge
    <2>4. resolved' \subseteq resolved \cup {t} BY <1>4 DEF ApplyToken, Enter
    <2> HIDE DEF t
    <2>5. \A c \in Config : comments[c] # NoToken => comments'[c] = comments[c]
        BY <2>3 DEF Labelled
    <2>6. \A c \in Config : t \in world.present /\ c \in world.labels[t] => comments'[c] # NoToken
        BY <2>2, <2>3, <1>3 DEF Labelled
    <2>7. Root \in world.present => \A c \in world.labels[Root] : comments'[c] = Root
        BY <1>2, <1>3, <2>5 DEF Labels
    <2>8. ASSUME NEW x \in resolved', x \in world.present, NEW c \in world.labels[x]
          PROVE  comments'[c] # NoToken
        <3>1. x \in Token /\ c \in Config BY <1>2, <2>2, <2>4, <2>8 DEF TypeOK
        <3>2. CASE x \in resolved
            <4>1. comments[c] # NoToken BY <2>8, <3>2 DEF Labels
            <4> QED BY <2>5, <3>1, <4>1
        <3>3. CASE x = t BY <2>6, <2>8, <3>1, <3>3
        <3> QED BY <2>4, <2>8, <3>2, <3>3
    <2> QED BY <1>1, <2>7, <2>8 DEF Labels
<1>5. CASE Skip \/ ApplyConfig \/ ApplyUrl \/ AddFetched \/ LoseToken \/ Return
    <2>1. comments' = comments /\ resolved' = resolved
        BY <1>5 DEF Skip, ApplyConfig, ApplyUrl, AddFetched, LoseToken, Return
    <2> QED BY <1>1, <2>1 DEF Labels
<1> QED BY <1>4, <1>5 DEF Next

CommentRule ==
    \A i \in DOMAIN result' \ DOMAIN result : ~result'[i].external =>
        LET c == result'[i].config
        IN  /\ c \in world.labels[Root] => result'[i].comment = Root
            /\ (\E t \in resolved : t \in world.present /\ c \in world.labels[t]) =>
                   result'[i].comment # NoToken

\* A config source shows what the comments hold at that moment.
LEMMA CommentStep ==
    ASSUME TypeOK, Rests, Linked, Labels, [Next]_vars
    PROVE  CommentRule
<1>1. CASE ApplyConfig
    <2>1. Running /\ Top.rest # <<>> BY <1>1 DEF ApplyConfig, AtSource
    <2>2. PICK n, x, k : n = Len(stack) /\ x = stack[n].token /\ k = Done(n) + 1 OBVIOUS
    <2>3. /\ n \in Nat \ {0} /\ x \in world.present /\ Head(Top.rest) \in Source
        BY <2>1, <2>2, AtNext
    <2>4. Root \in world.present
        <3>1. CASE n = 1 BY <2>1, <2>2, <2>3, <3>1 DEF Linked
        <3>2. CASE n # 1
            <4>1. 1 \in 1 .. n - 1 BY <2>3, <3>2
            <4>2. Done(1) \in Visible(stack[1].token, 0) /\ stack[1].token = Root
                BY <2>1, <2>2, <4>1 DEF Linked
            <4> QED BY <4>2 DEF Visible
        <3> QED BY <3>1, <3>2
    <2> DEFINE c == Head(Top.rest).ref
    <2>5. c \in Config BY <1>1, <2>3 DEF ApplyConfig, AtSource, Source
    <2>6. Show(c, comments[c], FALSE) /\ comments[c] \in Token \cup {NoToken}
        BY <1>1, <2>5 DEF ApplyConfig, TypeOK
    <2> HIDE DEF c
    <2>7. PICK m \in Nat, w \in Token \cup {NoToken}, e \in BOOLEAN :
              m = Len(result) /\ w = comments[c] /\ Show(c, w, e)
        <3>1. Len(result) \in Nat BY LenProperties DEF TypeOK
        <3>2. PICK e \in BOOLEAN : e = FALSE OBVIOUS
        <3>3. Show(c, comments[c], e) BY <2>6, <3>2
        <3> QED BY <2>6, <3>1, <3>3
    <2>8. /\ m \in Nat /\ DOMAIN result = 1 .. m
          /\ \/ c \in Shown /\ result' = result
             \/ /\ c \notin Shown
                /\ Len(result') = m + 1 /\ DOMAIN result' = 1 .. m + 1
                /\ \A i \in 1 .. m : result'[i] = result[i]
                /\ result'[m + 1] = [config |-> c, comment |-> w, external |-> e]
        <3>1. Show(c, w, e) BY <2>7
        <3>2. \A l : l = Len(result) =>
               /\ l \in Nat /\ DOMAIN result = 1 .. l
               /\ \/ c \in Shown /\ result' = result
                  \/ /\ c \notin Shown
                     /\ Len(result') = l + 1 /\ DOMAIN result' = 1 .. l + 1
                     /\ \A i \in 1 .. l : result'[i] = result[i]
                     /\ result'[l + 1] = [config |-> c, comment |-> w, external |-> e]
            BY <2>5, <3>1, ShownEntry
        <3> QED BY <2>7, <3>2
    <2>9. ASSUME NEW i \in DOMAIN result' \ DOMAIN result
          PROVE  result'[i].config = c /\ result'[i].comment = comments[c]
        <3>1. i = m + 1 /\ result'[m + 1] = [config |-> c, comment |-> w, external |-> e]
            BY <2>8, <2>9
        <3> QED BY <2>7, <3>1
    <2>10. c \in world.labels[Root] => comments[c] = Root BY <2>4 DEF Labels
    <2>11. (\E t \in resolved : t \in world.present /\ c \in world.labels[t]) => comments[c] # NoToken
        BY DEF Labels
    <2>12. \A i \in DOMAIN result' \ DOMAIN result :
              /\ result'[i].config \in world.labels[Root] => result'[i].comment = Root
              /\ (\E t \in resolved : t \in world.present /\ result'[i].config \in world.labels[t]) =>
                     result'[i].comment # NoToken
        BY <2>9, <2>10, <2>11
    <2> QED BY <2>12 DEF CommentRule
<1>2. CASE AddFetched
    <2> DEFINE c == Head(batch)
    <2>1. c \in Config /\ Show(c, NoToken, TRUE)
        BY <1>2, HeadTailProperties DEF AddFetched, TypeOK
    <2> HIDE DEF c
    <2>2. PICK m : m = Len(result) OBVIOUS
    <2>3. /\ m \in Nat /\ DOMAIN result = 1 .. m
          /\ \/ c \in Shown /\ result' = result
             \/ /\ c \notin Shown
                /\ Len(result') = m + 1 /\ DOMAIN result' = 1 .. m + 1
                /\ \A i \in 1 .. m : result'[i] = result[i]
                /\ result'[m + 1] = [config |-> c, comment |-> NoToken, external |-> TRUE]
        BY <2>1, <2>2, ShownEntry
    <2>4. ASSUME NEW i \in DOMAIN result' \ DOMAIN result
          PROVE  result'[i].external
        <3>1. i = m + 1 /\ result'[m + 1] = [config |-> c, comment |-> NoToken, external |-> TRUE]
            BY <2>3, <2>4
        <3> QED BY <3>1
    <2> QED BY <2>4 DEF CommentRule
<1>3. CASE Skip \/ ApplyUrl \/ LoseToken \/ ApplyToken \/ Return \/ UNCHANGED vars
    <2>1. result' = result BY <1>3 DEF Skip, ApplyUrl, LoseToken, ApplyToken, Return, vars
    <2> QED BY <2>1 DEF CommentRule
<1> QED BY <1>1, <1>2, <1>3 DEF Next

-----------------------------------------------------------------------------
(* What is left to do                                                      *)

\* A call that moves on has less to do.
LEMMA WorkOfSame ==
    ASSUME TypeOK, TypeOK', world' = world,
           NEW i \in 1 .. Len(stack), i \in 1 .. Len(stack'),
           stack'[i].token = stack[i].token
    PROVE  /\ Work(i) \in Nat \ {0}
           /\ Done(i)' = Done(i) => Work(i)' = Work(i)
           /\ Done(i)' = Done(i) + 1 => Work(i)' < Work(i)
<1>1. i \in DOMAIN stack /\ Len(stack[i].rest) \in Nat /\ Len(Body(stack[i].token)) \in Nat
    BY StackType
<1>2. i \in DOMAIN stack' /\ Len(stack'[i].rest) \in Nat
    <2>1. stack' \in Seq(Frame) BY DEF TypeOK
    <2>2. DOMAIN stack' = 1 .. Len(stack') BY <2>1, LenProperties
    <2>3. stack'[i] \in Frame BY <2>1, <2>2, ElementOfSeq
    <2>4. stack'[i].rest \in Seq(Source) BY <2>3 DEF Frame
    <2> QED BY <2>2, <2>4, LenProperties
<1>3. Work(i) = Len(stack[i].rest) + 1 /\ Work(i)' = Len(stack'[i].rest) + 1
    BY <1>1, <1>2 DEF Work
<1>4. Body(stack[i].token)' = Body(stack[i].token) BY DEF Body
<1>5. Done(i) = Len(Body(stack[i].token)) - Len(stack[i].rest) BY DEF Done
<1>6. Done(i)' = Len(Body(stack[i].token)') - Len(stack'[i].rest) BY DEF Done
<1>7. Done(i)' = Len(Body(stack[i].token)) - Len(stack'[i].rest) BY <1>4, <1>6
<1>8. PICK b \in Nat, r \in Nat, q \in Nat :
          /\ b = Len(Body(stack[i].token)) /\ r = Len(stack[i].rest) /\ q = Len(stack'[i].rest)
    BY <1>1, <1>2
<1>9. Work(i) = r + 1 /\ Work(i)' = q + 1 /\ Done(i) = b - r /\ Done(i)' = b - q
    BY <1>3, <1>5, <1>7, <1>8
<1>10. /\ r + 1 \in Nat \ {0}
       /\ b - q = b - r => q + 1 = r + 1
       /\ b - q = (b - r) + 1 => q + 1 < r + 1
    OBVIOUS
<1> QED BY <1>9, <1>10

Descent ==
    \/ \E n \in 1 .. MaxDepth + 1 :
          Work(n)' < Work(n) /\ \A i \in 1 .. n - 1 : Work(i)' = Work(i)
    \/ /\ \A i \in 1 .. MaxDepth + 1 : Work(i)' = Work(i)
       /\ Len(batch') < Len(batch)

\* What is left to do goes down where the calls move, in the batch where not.
LEMMA DescentStep ==
    ASSUME TypeOK, TypeOK', OpenedOnce, Rests, Next
    PROVE  Descent
<1>1. world' = world BY StepShape
<1>2. PICK n \in Nat \ {0} : n = Len(stack)
    BY TopCall DEF Next, Skip, ApplyConfig, ApplyUrl, AddFetched, LoseToken,
                   ApplyToken, Return, AtSource
<1>3. n \in 1 .. MaxDepth + 1 /\ n \in 1 .. n
    BY <1>2, ResolverAssumption DEF OpenedOnce
<1>4. ASSUME NEW l \in Nat, Len(stack') = l, l >= n, Moved(n) PROVE Descent
    <2>1. n \in 1 .. l /\ \A i \in 1 .. n - 1 : i \in 1 .. n /\ i \in 1 .. l BY <1>4
    <2>2. /\ \A i \in 1 .. n - 1 : stack'[i].token = stack[i].token /\ Done(i)' = Done(i)
          /\ stack'[n].token = stack[n].token /\ Done(n)' = Done(n) + 1
        BY <1>4 DEF Moved, Same
    <2>3. \A i \in 1 .. n - 1 : Work(i)' = Work(i) BY <1>1, <1>2, <1>4, <2>1, <2>2, WorkOfSame
    <2>4. Work(n)' < Work(n) BY <1>1, <1>2, <1>3, <1>4, <2>1, <2>2, WorkOfSame
    <2> QED BY <1>3, <2>3, <2>4 DEF Descent
<1>5. CASE Advance
    <2>1. Len(stack') = n /\ Moved(n) /\ n >= n BY <1>2, <1>5 DEF Advance
    <2> QED BY <1>4, <2>1
<1>6. CASE Opening(Head(Top.rest).ref)
    <2>1. Len(stack') = n + 1 /\ Moved(n) /\ n + 1 >= n BY <1>2, <1>6 DEF Opening
    <2> QED BY <1>4, <2>1
<1>7. CASE Closing
    <2>1. Len(stack') = n - 1 /\ \A i \in 1 .. n - 1 : Same(i) BY <1>2, <1>7 DEF Closing
    <2>2. \A i \in 1 .. n - 1 : i \in 1 .. n /\ i \in 1 .. Len(stack') BY <2>1
    <2>3. \A i \in 1 .. n - 1 : Work(i)' = Work(i) BY <1>1, <1>2, <2>1, <2>2, WorkOfSame DEF Same
    <2>4. Work(n) = Len(stack[n].rest) + 1 /\ Len(stack[n].rest) \in Nat
        BY <1>2, <1>3, StackType DEF Work
    <2>5. Work(n)' = 0
        <3>1. stack' \in Seq(Frame) BY DEF TypeOK
        <3>2. n \notin DOMAIN stack' BY <2>1, <3>1, LenProperties
        <3> QED BY <3>2 DEF Work
    <2> QED BY <1>3, <2>3, <2>4, <2>5 DEF Descent
<1>8. CASE AddFetched
    <2>1. stack' = stack BY <1>8 DEF AddFetched
    <2>2. \A i : Work(i)' = Work(i) BY <2>1 DEF Work
    <2>3. Len(Tail(batch)) = Len(batch) - 1 /\ Len(batch) \in Nat /\ batch' = Tail(batch)
        BY <1>8, HeadTailProperties, LenProperties DEF AddFetched, TypeOK
    <2> QED BY <2>2, <2>3 DEF Descent
<1> QED BY <1>5, <1>6, <1>7, <1>8, StepShape

-----------------------------------------------------------------------------
(* Routes and places                                                       *)

\* Induction over the numbers, as it is used here.
LEMMA LeastMember == ASSUME NEW S \in SUBSET Nat, S # {} PROVE \E m \in S : \A k \in S : m <= k
<1> DEFINE R == {ss \in Nat \X Nat : ss[1] < ss[2]}
<1>1. IsWellFoundedOn(R, Nat) BY NatLessThanWellFounded DEF OpToRel
<1> HIDE DEF R
<1>2. PICK m \in S : \A k \in S : ~(<<k, m>> \in R) BY <1>1, WFMin
<1>3. \A k \in S : ~(k < m) BY <1>2 DEF R
<1> QED BY <1>3

\* The sources of t that show on every route, when none has a depth of its own.
Shows(t) ==
    {k \in DOMAIN world.sources[t] : /\ t \in world.present
                                     /\ t = Root => ~world.sources[t][k].hidden}

\* With the default depth, what shows depends on the subscription alone.
LEMMA ShowsVisible ==
    ASSUME TypeOK, DepthByDefault, NEW t \in Token, NEW d \in 0 .. MaxDepth, t = Root <=> d = 0
    PROVE  Visible(t, d) = Shows(t)
<1>1. \A k \in DOMAIN world.sources[t] : world.sources[t][k].depth = MaxDepth
    BY DEF DepthByDefault, ToSet
<1>2. MaxDepth >= d BY ResolverAssumption
<1> QED BY <1>1, <1>2 DEF Visible, Shows

\* What a place is made of.
LEMMA PlaceFacts ==
    ASSUME TypeOK, NEW p \in Places
    PROVE  /\ Len(p.via) \in 1 .. MaxDepth + 1 /\ Len(p.via) \in Nat
           /\ DOMAIN p.via = 1 .. Len(p.via) /\ DOMAIN p.at = 1 .. Len(p.via)
           /\ p.via[1] = Root
           /\ \A i \in 1 .. Len(p.via) : /\ p.via[i] \in Token
                                         /\ p.at[i] \in Visible(p.via[i], i - 1)
                                         /\ p.at[i] \in Nat \ {0}
           /\ \A i \in 1 .. Len(p.via) - 1 : Refers(p.via[i], p.at[i], p.via[i + 1])
           /\ \A i, j \in 1 .. Len(p.via) : p.via[i] = p.via[j] => i = j
           /\ p.item \in DOMAIN Offer(p.via[Len(p.via)], p.at[Len(p.via)])
           /\ ConfigAt(p) = Offer(p.via[Len(p.via)], p.at[Len(p.via)])[p.item]
<1>1. PICK v \in Routes : \E a \in Steps(v) : \E m \in DOMAIN Offer(v[Len(v)], a[Len(v)]) :
          p = [via |-> v, at |-> a, item |-> m]
    BY PlaceIs
<1>2. PICK a \in Steps(v) : \E m \in DOMAIN Offer(v[Len(v)], a[Len(v)]) :
          p = [via |-> v, at |-> a, item |-> m]
    BY <1>1
<1>3. PICK m \in DOMAIN Offer(v[Len(v)], a[Len(v)]) : p = [via |-> v, at |-> a, item |-> m]
    BY <1>2
<1>4. p.via = v /\ p.at = a /\ p.item = m BY <1>3
<1>5. PICK l \in 1 .. MaxDepth + 1 : v \in [1 .. l -> Token] BY DEF Routes
<1>6. l \in Nat /\ l >= 1 BY <1>5, ResolverAssumption
<1>7. Len(v) = l /\ DOMAIN v = 1 .. l BY <1>5, <1>6
<1>8. /\ v[1] = Root
      /\ \A i, j \in 1 .. l : v[i] = v[j] => i = j
    BY <1>7 DEF Routes, IsInjective
<1>9. /\ DOMAIN a = 1 .. l
      /\ \A i \in 1 .. l : a[i] \in Visible(v[i], i - 1)
      /\ \A i \in 1 .. l - 1 : Refers(v[i], a[i], v[i + 1])
    BY <1>7 DEF Steps
<1>10. \A i \in 1 .. l : v[i] \in Token BY <1>5
<1>11. \A i \in 1 .. l : a[i] \in Nat \ {0} BY <1>9, <1>10, VisibleInBody
<1>12. ConfigAt(p) = Offer(v[l], a[l])[m] BY <1>4, <1>7 DEF ConfigAt
<1> QED BY <1>3, <1>4, <1>5, <1>6, <1>7, <1>8, <1>9, <1>10, <1>11, <1>12

LEMMA PlaceShows ==
    ASSUME TypeOK, DepthByDefault, NEW p \in Places, NEW i \in 1 .. Len(p.via)
    PROVE  p.at[i] \in Shows(p.via[i])
<1>1. /\ Len(p.via) \in 1 .. MaxDepth + 1 /\ p.via[1] = Root
      /\ p.via[i] \in Token /\ p.at[i] \in Visible(p.via[i], i - 1)
      /\ 1 \in 1 .. Len(p.via)
      /\ \A j \in 1 .. Len(p.via) : p.via[i] = p.via[j] => i = j
    BY PlaceFacts
<1>2. i - 1 \in 0 .. MaxDepth BY <1>1, ResolverAssumption
<1>3. p.via[i] = Root <=> i - 1 = 0 BY <1>1
<1> QED BY <1>1, <1>2, <1>3, ShowsVisible

-----------------------------------------------------------------------------
(* What has been dealt with                                                *)

\* Source k of t has been: what it offers is shown, what it refers to entered.
Settled(t, k, entered, shown) ==
    /\ \A m \in DOMAIN Offer(t, k) : Offer(t, k)[m] \in shown
    /\ \A x \in Token : Refers(t, k, x) => x \in entered

\* Of n calls, call i has come to source course[i] of path[i].  What had been
\* entered before call i, old[i], is dealt with, but for the calls below it, and
\* the sources before course[i] are so with what had been entered before the
\* call above, if there is one.
Sweep(n, path, course, shown, old) ==
    /\ \A i \in 1 .. n + 1 : \A t \in old[i] :
          (\A j \in 1 .. i - 1 : path[j] # t) =>
              \A k \in Shows(t) : Settled(t, k, old[i], shown)
    /\ \A i \in 1 .. n : \A k \in Shows(path[i]) :
          k < course[i] => Settled(path[i], k, old[i + 1], shown)

\* What is dealt with stays so.
LEMMA SettledMore ==
    ASSUME NEW t, NEW k, NEW r1, NEW r2, NEW s1, NEW s2, r1 \subseteq r2, s1 \subseteq s2,
           Settled(t, k, r1, s1)
    PROVE  Settled(t, k, r2, s2)
BY DEF Settled

\* The rest of a route from an entered subscription on is dealt with.
LEMMA TailShown ==
    ASSUME TypeOK, DepthByDefault, NEW p \in Places, NEW entered, NEW shown,
           NEW n \in Nat, n < Len(p.via), p.via[n + 1] \in entered,
           \A t \in entered : (\A j \in 1 .. n : p.via[j] # t) =>
              \A k \in Shows(t) : Settled(t, k, entered, shown)
    PROVE  ConfigAt(p) \in shown
<1>1. PICK l \in Nat, v \in {p.via}, a \in {p.at} : l = Len(p.via) /\ v = p.via /\ a = p.at BY PlaceFacts
<1>2. /\ \A i \in 1 .. l : v[i] \in Token /\ a[i] \in Shows(v[i])
      /\ \A i \in 1 .. l - 1 : Refers(v[i], a[i], v[i + 1])
      /\ \A i, j \in 1 .. l : v[i] = v[j] => i = j
      /\ p.item \in DOMAIN Offer(v[l], a[l])
      /\ ConfigAt(p) = Offer(v[l], a[l])[p.item]
    BY <1>1, PlaceFacts, PlaceShows
<1>3. ASSUME NEW i \in n + 1 .. l, v[i] \in entered PROVE Settled(v[i], a[i], entered, shown)
    <2>1. i \in 1 .. l /\ \A j \in 1 .. n : j \in 1 .. l /\ j # i BY <1>1
    <2>2. \A j \in 1 .. n : v[j] # v[i] BY <1>2, <2>1
    <2> QED BY <1>1, <1>2, <1>3, <2>1, <2>2
<1>4. \A i \in n + 1 .. l : v[i] \in entered
    <2> DEFINE missed == {i \in n + 1 .. l : v[i] \notin entered}
    <2>1. SUFFICES ASSUME missed # {} PROVE FALSE OBVIOUS
    <2>2. missed \subseteq Nat OBVIOUS
    <2>3. PICK i \in missed : \A j \in missed : i <= j BY <2>1, <2>2, LeastMember
    <2>4. i \in n + 1 .. l /\ v[i] \notin entered OBVIOUS
    <2>5. i # n + 1 BY <1>1, <2>4
    <2>6. i - 1 \in n + 1 .. l /\ i - 1 \in 1 .. l - 1 /\ ~(i <= i - 1) /\ i \in 1 .. l
          /\ (i - 1) + 1 = i
        BY <2>4, <2>5, <1>1
    <2>7. v[i - 1] \in entered BY <2>3, <2>6
    <2>8. Settled(v[i - 1], a[i - 1], entered, shown) BY <1>3, <2>6, <2>7
    <2>9. Refers(v[i - 1], a[i - 1], v[i]) /\ v[i] \in Token BY <1>2, <2>6
    <2> QED BY <2>4, <2>8, <2>9 DEF Settled
<1>5. l \in n + 1 .. l BY <1>1
<1> QED BY <1>2, <1>3, <1>4, <1>5 DEF Settled

\* The top call has dealt with the source it had come to.
LEMMA SweepAdvance ==
    ASSUME NEW n \in Nat \ {0}, NEW path, NEW c1, NEW c2, NEW s1, NEW s2, NEW old,
           Sweep(n, path, c1, s1, old), s1 \subseteq s2,
           \A i \in 1 .. n : c1[i] \in Nat /\ Shows(path[i]) \subseteq Nat,
           \A i \in 1 .. n - 1 : c2[i] = c1[i],
           c2[n] = c1[n] \/ /\ c2[n] = c1[n] + 1
                            /\ c1[n] \in Shows(path[n]) => Settled(path[n], c1[n], old[n + 1], s2)
    PROVE  Sweep(n, path, c2, s2, old)
<1>1. ASSUME NEW i \in 1 .. n + 1, NEW t \in old[i], \A j \in 1 .. i - 1 : path[j] # t,
             NEW k \in Shows(t)
      PROVE  Settled(t, k, old[i], s2)
    <2>1. Settled(t, k, old[i], s1) BY <1>1 DEF Sweep
    <2> QED BY <2>1, SettledMore
<1>2. ASSUME NEW i \in 1 .. n, NEW k \in Shows(path[i]), k < c2[i]
      PROVE  Settled(path[i], k, old[i + 1], s2)
    <2>1. CASE k < c1[i]
        <3>1. Settled(path[i], k, old[i + 1], s1) BY <2>1 DEF Sweep
        <3> QED BY <3>1, SettledMore
    <2>2. CASE ~(k < c1[i])
        <3>1. i = n BY <1>2, <2>2
        <3>2. k \in Nat /\ c1[n] \in Nat BY <3>1
        <3>3. k = c1[n] /\ c2[n] = c1[n] + 1 BY <1>2, <2>2, <3>1, <3>2
        <3> QED BY <3>1, <3>3
    <2> QED BY <2>1, <2>2
<1> QED BY <1>1, <1>2 DEF Sweep

\* A call for x is made.
LEMMA SweepOpen ==
    ASSUME NEW n \in Nat \ {0}, NEW p1, NEW p2, NEW c1, NEW c2, NEW s, NEW o1, NEW o2, NEW x,
           Sweep(n, p1, c1, s, o1),
           Shows(x) \subseteq Nat,
           \A i \in 1 .. n : p2[i] = p1[i] /\ c2[i] = c1[i],
           p2[n + 1] = x, c2[n + 1] = 0,
           \A i \in 1 .. n + 1 : o2[i] = o1[i],
           o2[n + 2] = o1[n + 1] \cup {x}
    PROVE  Sweep(n + 1, p2, c2, s, o2)
<1>0. /\ \A i \in 1 .. (n + 1) + 1 : i # n + 2 => i \in 1 .. n + 1
      /\ \A i \in 1 .. n + 1 : \A j \in 1 .. i - 1 : j \in 1 .. n
      /\ \A i \in 1 .. n + 1 : i # n + 1 => i \in 1 .. n /\ i + 1 \in 1 .. n + 1
      /\ n + 1 \in 1 .. n + 1 /\ (n + 2) - 1 = n + 1 /\ (n + 1) - 1 = n
      /\ \A i \in 1 .. n : i \in 1 .. n + 1
    OBVIOUS
<1>1. ASSUME NEW i \in 1 .. (n + 1) + 1, NEW t \in o2[i], \A j \in 1 .. i - 1 : p2[j] # t,
             NEW k \in Shows(t)
      PROVE  Settled(t, k, o2[i], s)
    <2>1. CASE i # n + 2
        <3>1. i \in 1 .. n + 1 /\ o2[i] = o1[i] BY <1>0, <2>1
        <3>2. \A j \in 1 .. i - 1 : p1[j] # t BY <1>0, <1>1, <3>1
        <3> QED BY <3>1, <3>2 DEF Sweep
    <2>2. CASE i = n + 2
        <3>1. t \in o1[n + 1] /\ \A j \in 1 .. n : p1[j] # t BY <1>0, <1>1, <2>2
        <3>2. Settled(t, k, o1[n + 1], s) BY <1>0, <3>1 DEF Sweep
        <3>3. o1[n + 1] \subseteq o2[n + 2] BY <1>0
        <3> QED BY <2>2, <3>2, <3>3, SettledMore
    <2> QED BY <2>1, <2>2
<1>2. ASSUME NEW i \in 1 .. n + 1, NEW k \in Shows(p2[i]), k < c2[i]
      PROVE  Settled(p2[i], k, o2[i + 1], s)
    <2>1. CASE i # n + 1
        <3>1. /\ i \in 1 .. n /\ o2[i + 1] = o1[i + 1] /\ p2[i] = p1[i] /\ c2[i] = c1[i]
            BY <1>0, <2>1
        <3>2. Settled(p1[i], k, o1[i + 1], s) BY <1>2, <3>1 DEF Sweep
        <3> QED BY <3>1, <3>2
    <2>2. CASE i = n + 1
        <3>1. p2[i] = x /\ c2[i] = 0 BY <2>2
        <3>2. k \in Shows(x) BY <3>1
        <3>3. k \in Nat BY <3>2
        <3> QED BY <1>2, <3>1, <3>3
    <2> QED BY <2>1, <2>2
<1> QED BY <1>1, <1>2 DEF Sweep

\* The top call ends, all of its sources dealt with.
LEMMA SweepClose ==
    ASSUME NEW n \in Nat \ {0}, NEW p1, NEW p2, NEW c1, NEW c2, NEW s, NEW o1, NEW o2,
           Sweep(n, p1, c1, s, o1),
           \A i \in 1 .. n - 1 : p2[i] = p1[i] /\ c2[i] = c1[i],
           \A k \in Shows(p1[n]) : Settled(p1[n], k, o1[n + 1], s),
           \A i \in 1 .. n - 1 : o2[i] = o1[i],
           o2[n] = o1[n + 1], o1[n] \subseteq o1[n + 1]
    PROVE  Sweep(n - 1, p2, c2, s, o2)
<1>0. /\ \A i \in 1 .. (n - 1) + 1 : i # n => i \in 1 .. n - 1 /\ i \in 1 .. n + 1
      /\ \A i \in 1 .. n : \A j \in 1 .. i - 1 : j \in 1 .. n - 1
      /\ \A i \in 1 .. n - 1 : i # n - 1 => i + 1 \in 1 .. n - 1
      /\ \A i \in 1 .. n - 1 : i \in 1 .. n /\ i \in 1 .. n + 1
      /\ n + 1 \in 1 .. n + 1 /\ (n + 1) - 1 = n /\ (n - 1) + 1 = n
      /\ \A j \in 1 .. n : j # n => j \in 1 .. n - 1
    OBVIOUS
<1>1. ASSUME NEW i \in 1 .. (n - 1) + 1, NEW t \in o2[i], \A j \in 1 .. i - 1 : p2[j] # t,
             NEW k \in Shows(t)
      PROVE  Settled(t, k, o2[i], s)
    <2>1. CASE i # n
        <3>1. i \in 1 .. n - 1 /\ i \in 1 .. n + 1 /\ o2[i] = o1[i] BY <1>0, <2>1
        <3>2. \A j \in 1 .. i - 1 : j \in 1 .. n - 1 BY <3>1
        <3>3. \A j \in 1 .. i - 1 : p1[j] # t BY <1>1, <3>2
        <3> QED BY <3>1, <3>3 DEF Sweep
    <2>2. CASE i = n
        <3>1. t \in o1[n + 1] /\ \A j \in 1 .. n - 1 : p1[j] # t BY <1>1, <2>2
        <3>2. CASE t = p1[n] BY <2>2, <3>2
        <3>3. CASE t # p1[n]
            <4>1. \A j \in 1 .. n : p1[j] # t BY <1>0, <3>1, <3>3
            <4>2. Settled(t, k, o1[n + 1], s) BY <1>0, <3>1, <4>1 DEF Sweep
            <4> QED BY <2>2, <4>2
        <3> QED BY <3>2, <3>3
    <2> QED BY <2>1, <2>2
<1>2. ASSUME NEW i \in 1 .. n - 1, NEW k \in Shows(p2[i]), k < c2[i]
      PROVE  Settled(p2[i], k, o2[i + 1], s)
    <2>1. Settled(p1[i], k, o1[i + 1], s) /\ p2[i] = p1[i]
        <3>1. k \in Shows(p1[i]) /\ k < c1[i] /\ i \in 1 .. n BY <1>0, <1>2
        <3> QED BY <3>1 DEF Sweep
    <2>2. CASE i = n - 1
        <3>1. o1[i + 1] \subseteq o2[i + 1] BY <1>0, <2>2
        <3>2. s \subseteq s OBVIOUS
        <3> QED BY <2>1, <3>1, <3>2, SettledMore
    <2>3. CASE i # n - 1
        <3>1. o2[i + 1] = o1[i + 1] BY <1>0, <2>3
        <3> QED BY <2>1, <3>1
    <2> QED BY <2>2, <2>3
<1> QED BY <1>1, <1>2 DEF Sweep

-----------------------------------------------------------------------------
(* What the calls have dealt with                                          *)

\* The calls: their subscriptions, and how far each has come.
Path == [i \in DOMAIN stack |-> stack[i].token]
Course == [i \in DOMAIN stack |-> Done(i)]

\* How much of the content of an external source has been added.
Given == Len(Offer(Top.token, Done(Len(stack)))) - Len(batch)

\* The last source dealt with, or what has been added of its content.
Handled ==
    Running /\ Done(Len(stack)) \in Shows(Top.token) =>
        IF batch = <<>> THEN Settled(Top.token, Done(Len(stack)), resolved, Shown)
        ELSE \A m \in 1 .. Given : Offer(Top.token, Done(Len(stack)))[m] \in Shown

Plain == Whole /\ DepthByDefault

Swept ==
    /\ Root \in resolved
    /\ Plain =>
          /\ Handled
          /\ \E old \in [1 .. Len(stack) + 1 -> SUBSET resolved] :
                old[Len(stack) + 1] = resolved /\ Sweep(Len(stack), Path, Course, Shown, old)

LEMMA ShowsType ==
    ASSUME TypeOK, NEW t \in Token
    PROVE  Shows(t) \subseteq Nat \ {0} /\ Shows(t) \subseteq 1 .. Len(Body(t))
<1>1. world.sources[t] \in Seq(Source) BY DEF TypeOK, WorldType
<1>2. DOMAIN world.sources[t] = 1 .. Len(world.sources[t]) /\ Len(world.sources[t]) \in Nat
    BY <1>1, LenProperties
<1>3. t \in world.present => Body(t) = world.sources[t] BY DEF Body
<1> QED BY <1>2, <1>3 DEF Shows

\* The calls as two functions.
LEMMA PathCourse ==
    ASSUME TypeOK, Rests, NEW i \in 1 .. Len(stack)
    PROVE  /\ Path[i] = stack[i].token /\ Course[i] = Done(i)
           /\ Path[i] \in Token /\ Course[i] \in Nat /\ Shows(Path[i]) \subseteq Nat
<1>1. i \in DOMAIN stack /\ stack[i].token \in Token BY StackType
<1>2. Path[i] = stack[i].token /\ Course[i] = Done(i) BY <1>1 DEF Path, Course
<1>3. Done(i) \in 0 .. Len(Body(stack[i].token)) /\ Len(Body(stack[i].token)) \in Nat
    BY DoneType, StackType
<1> QED BY <1>1, <1>2, <1>3, ShowsType

LEMMA ShowsAtTop ==
    ASSUME TypeOK, OpenedOnce, Linked, DepthByDefault, NEW n \in 1 .. Len(stack)
    PROVE  Visible(stack[n].token, n - 1) = Shows(stack[n].token)
<1>1. Len(stack) \in Nat /\ 1 \in 1 .. Len(stack) /\ stack[n].token \in Token BY StackType
<1>2. Running BY <1>1, StackType
<1>3. stack[1].token = Root BY <1>2 DEF Linked
<1>4. Len(stack) <= MaxDepth + 1 /\ MaxDepth \in Nat BY ResolverAssumption DEF OpenedOnce
<1>5. n - 1 \in 0 .. MaxDepth BY <1>1, <1>4
<1>6. stack[n].token = Root <=> n - 1 = 0
    <2>1. stack[n].token = stack[1].token => n = 1 BY <1>1, StackType DEF OpenedOnce
    <2> QED BY <1>3, <2>1
<1> QED BY <1>1, <1>5, <1>6, ShowsVisible

\* What has been dealt with is a matter of the world and the accumulator.
LEMMA SweepWorld ==
    ASSUME world' = world
    PROVE  /\ \A t : Shows(t)' = Shows(t)
           /\ \A t, k, r, s : Settled(t, k, r, s)' = Settled(t, k, r, s)
           /\ \A n, p, c, s, o : Sweep(n, p, c, s, o)' = Sweep(n, p, c, s, o)
           /\ DepthByDefault' = DepthByDefault
<1>1. \A t : Shows(t)' = Shows(t) BY DEF Shows
<1>2. \A t, k, r, s : Settled(t, k, r, s)' = Settled(t, k, r, s)
    BY SameWorld DEF Settled
<1>3. \A n, p, c, s, o : Sweep(n, p, c, s, o)' = Sweep(n, p, c, s, o)
    BY <1>1, <1>2 DEF Sweep
<1>4. DepthByDefault' = DepthByDefault BY DEF DepthByDefault
<1> QED BY <1>1, <1>2, <1>3, <1>4

LEMMA HandledOf ==
    ASSUME world' = world, NEW n \in Nat \ {0}, Len(stack') = n,
           NEW t, stack'[n].token = t, NEW k, Done(n)' = k,
           k \in Shows(t) =>
              IF batch' = <<>> THEN Settled(t, k, resolved', Shown')
              ELSE \A m \in 1 .. Len(Offer(t, k)) - Len(batch') : Offer(t, k)[m] \in Shown'
    PROVE  Handled'
<1>1. (Top.token)' = t BY DEF Top, Last
<1>2. Done(Len(stack))' = k
    <2>1. \A i : i = n => Done(i)' = k OBVIOUS
    <2> QED BY <2>1 DEF Done
<1> HIDE DEF Done
<1>3. Given' = Len(Offer(t, k)) - Len(batch') BY <1>1, <1>2, SameWorld DEF Given
<1>4. Offer(Top.token, Done(Len(stack)))' = Offer(t, k) BY <1>1, <1>2, SameWorld
<1>5. Settled(Top.token, Done(Len(stack)), resolved, Shown)' = Settled(t, k, resolved', Shown')
    BY <1>1, <1>2, SweepWorld
<1>6. Shows(Top.token)' = Shows(t) BY <1>1, SweepWorld
<1> QED BY <1>2, <1>3, <1>4, <1>5, <1>6 DEF Handled

LEMMA SweptOf ==
    ASSUME world' = world, NEW n \in Nat, Len(stack') = n, Root \in resolved',
           NEW old \in [1 .. n + 1 -> SUBSET resolved'], old[n + 1] = resolved',
           Sweep(n, Path', Course', Shown', old), Handled'
    PROVE  Swept'
<1>1. Sweep(Len(stack), Path, Course, Shown, old)' BY SweepWorld
<1> QED BY <1>1 DEF Swept

\* Nothing leaves the list.
LEMMA ShownStays ==
    ASSUME TypeOK, Next
    PROVE  Shown \subseteq Shown'
<1>1. CASE ApplyConfig \/ AddFetched
    <2>1. PICK c \in Config, x \in Token \cup {NoToken}, e \in BOOLEAN : Show(c, x, e)
        BY <1>1, Showing
    <2>2. PICK n : n = Len(result) OBVIOUS
    <2>3. /\ n \in Nat /\ DOMAIN result = 1 .. n
          /\ \/ c \in Shown /\ result' = result
             \/ /\ c \notin Shown
                /\ Len(result') = n + 1 /\ DOMAIN result' = 1 .. n + 1
                /\ \A i \in 1 .. n : result'[i] = result[i]
                /\ result'[n + 1] = [config |-> c, comment |-> x, external |-> e]
        BY <2>1, <2>2, ShownEntry
    <2>4. \/ result' = result
          \/ \A i \in DOMAIN result : i \in DOMAIN result' /\ result'[i] = result[i]
        BY <2>3
    <2> QED BY <2>4 DEF Shown
<1>2. CASE Skip \/ ApplyUrl \/ LoseToken \/ ApplyToken \/ Return
    <2>1. result' = result BY <1>2 DEF Skip, ApplyUrl, LoseToken, ApplyToken, Return
    <2> QED BY <2>1 DEF Shown
<1> QED BY <1>1, <1>2 DEF Next

\* The flags only go up.
LEMMA PlainBefore ==
    ASSUME TypeOK, Next, Plain'
    PROVE  Plain
<1>1. world' = world /\ (truncated => truncated') /\ (tooDeep => tooDeep')
    BY DEF Next, Skip, ApplyConfig, ApplyUrl, AddFetched, LoseToken, ApplyToken, Return, TypeOK
<1> QED BY <1>1, SweepWorld DEF Plain, Whole

\* The calls stay the same.
LEMMA SweptStays ==
    ASSUME TypeOK, TypeOK', Rests, Rests', Swept, Plain, world' = world,
           resolved' = resolved, Shown \subseteq Shown', Handled',
           NEW n \in Nat \ {0}, n = Len(stack), Len(stack') = n,
           (Moved(n) /\ batch = <<>>) \/ stack' = stack
    PROVE  Swept'
<1>1. PICK old \in [1 .. n + 1 -> SUBSET resolved] :
          old[n + 1] = resolved /\ Sweep(n, Path, Course, Shown, old)
    BY DEF Swept
<1>2. PICK p, c1, c2 : p = Path /\ c1 = Course /\ c2 = Course' OBVIOUS
<1>3. \A i \in 1 .. n : /\ p[i] = stack[i].token /\ c1[i] = Done(i)
                        /\ c1[i] \in Nat /\ Shows(p[i]) \subseteq Nat
    BY <1>2, PathCourse
<1>4. /\ DOMAIN stack = 1 .. n /\ DOMAIN stack' = 1 .. n
      /\ n \in 1 .. n /\ \A i \in 1 .. n - 1 : i \in 1 .. n
    BY LenProperties DEF TypeOK
<1>5. \A i \in 1 .. n : c2[i] = Done(i)' BY <1>2, <1>4 DEF Course
<1>6. CASE Moved(n) /\ batch = <<>>
    <2>1. Path' = p
        <3>1. \A i \in 1 .. n : i # n => i \in 1 .. n - 1 OBVIOUS
        <3>2. \A i \in 1 .. n : stack'[i].token = stack[i].token
            BY <1>6, <3>1 DEF Moved, Same
        <3> QED BY <1>2, <1>4, <3>2 DEF Path
    <2>2. \A i \in 1 .. n - 1 : c2[i] = c1[i] BY <1>3, <1>4, <1>5, <1>6 DEF Moved, Same
    <2>3. c2[n] = c1[n] + 1 BY <1>3, <1>4, <1>5, <1>6 DEF Moved
    <2>4. c1[n] \in Shows(p[n]) => Settled(p[n], c1[n], old[n + 1], Shown')
        <3>1. Top.token = p[n] /\ Done(Len(stack)) = c1[n] BY <1>3, <1>4 DEF Top, Last
        <3>2. Running BY StackType
        <3>3. c1[n] \in Shows(p[n]) => Settled(p[n], c1[n], resolved, Shown)
            BY <1>6, <3>1, <3>2 DEF Handled, Swept
        <3> QED BY <1>1, <3>3, SettledMore
    <2>5. Sweep(n, p, c2, Shown', old) BY <1>1, <1>2, <1>3, <2>2, <2>3, <2>4, SweepAdvance
    <2> QED BY <1>1, <1>2, <2>1, <2>5, SweptOf DEF Swept
<1>7. CASE stack' = stack
    <2>1. Path' = p BY <1>2, <1>7 DEF Path
    <2>2. \A i \in 1 .. n : c2[i] = c1[i]
        BY <1>3, <1>5, <1>7 DEF Done, Body
    <2>3. Sweep(n, p, c2, Shown', old) BY <1>1, <1>2, <1>3, <1>4, <2>2, SweepAdvance
    <2> QED BY <1>1, <1>2, <2>1, <2>3, SweptOf DEF Swept
<1> QED BY <1>6, <1>7

-----------------------------------------------------------------------------
(* What a step deals with                                                  *)

LEMMA SettledConfig ==
    ASSUME NEW t, NEW k, NEW r, NEW s,
           world.sources[t][k].kind = "config", world.sources[t][k].ref \in s
    PROVE  Settled(t, k, r, s)
BY DEF Settled, Offer, Refers

LEMMA SettledUrl ==
    ASSUME NEW t, NEW k, NEW r, NEW s, world.sources[t][k].kind = "url",
           \A m \in DOMAIN Offer(t, k) : Offer(t, k)[m] \in s
    PROVE  Settled(t, k, r, s)
BY DEF Settled, Refers

LEMMA SettledToken ==
    ASSUME NEW t, NEW k, NEW r, NEW s, world.sources[t][k].kind = "token",
           world.sources[t][k].ref \in r \cup world.unread
    PROVE  Settled(t, k, r, s)
BY DEF Settled, Offer, Refers

LEMMA ShowShows ==
    ASSUME TypeOK, NEW c \in Config, NEW x \in Token \cup {NoToken}, NEW e \in BOOLEAN,
           Show(c, x, e)
    PROVE  c \in Shown'
<1>1. PICK n : n = Len(result) OBVIOUS
<1>2. /\ n \in Nat /\ DOMAIN result = 1 .. n
      /\ \/ c \in Shown /\ result' = result
         \/ /\ c \notin Shown
            /\ Len(result') = n + 1 /\ DOMAIN result' = 1 .. n + 1
            /\ \A i \in 1 .. n : result'[i] = result[i]
            /\ result'[n + 1] = [config |-> c, comment |-> x, external |-> e]
    BY <1>1, ShownEntry
<1>3. CASE result' = result /\ c \in Shown BY <1>3 DEF Shown
<1>4. CASE /\ DOMAIN result' = 1 .. n + 1
           /\ result'[n + 1] = [config |-> c, comment |-> x, external |-> e]
    <2>1. n + 1 \in DOMAIN result' /\ result'[n + 1].config = c BY <1>2, <1>4
    <2> QED BY <2>1 DEF Shown
<1> QED BY <1>2, <1>3, <1>4

\* The source that a step of the top call deals with is handled.
LEMMA HandledNext ==
    ASSUME TypeOK, WithinLimit, OpenedOnce, Rests, Linked, Plain, Plain',
           Skip \/ ApplyConfig \/ ApplyUrl \/ LoseToken \/ ApplyToken, Advance,
           NEW n \in Nat \ {0}, n = Len(stack)
    PROVE  Handled'
<1>1. world' = world /\ Running /\ Top.rest # <<>>
    BY DEF Skip, ApplyConfig, ApplyUrl, LoseToken, ApplyToken, AtSource
<1>2. PICK t, k : t = stack[n].token /\ k = Done(n) + 1 OBVIOUS
<1>3. /\ t \in Token /\ Head(Top.rest) = world.sources[t][k] /\ Head(Top.rest) \in Source
      /\ k \in DOMAIN world.sources[t]
      /\ Counts(Head(Top.rest), Depth) <=> k \in Visible(t, n - 1)
    BY <1>1, <1>2, AtNext
<1>4. Visible(t, n - 1) = Shows(t) BY <1>2, ShowsAtTop DEF Plain
<1>5. Len(stack') = n /\ stack'[n].token = t /\ Done(n)' = k BY <1>2 DEF Advance, Moved
<1>6. CASE Skip
    <2>1. k \notin Shows(t) BY <1>3, <1>4, <1>6 DEF Skip
    <2> QED BY <1>1, <1>5, <2>1, HandledOf
<1>7. CASE ApplyConfig
    <2> DEFINE c == Head(Top.rest).ref
    <2>1. Head(Top.rest).kind = "config" BY <1>7 DEF ApplyConfig, AtSource
    <2>2. c \in Config BY <1>3, <2>1 DEF Source
    <2>3. comments[c] \in Token \cup {NoToken} BY <2>2 DEF TypeOK
    <2>4. PICK e \in BOOLEAN : Show(c, comments[c], e) BY <1>7 DEF ApplyConfig
    <2> HIDE DEF c
    <2>5. c \in Shown' BY <2>2, <2>3, <2>4, ShowShows
    <2>6. Settled(t, k, resolved', Shown') BY <1>3, <2>1, <2>5, SettledConfig DEF c
    <2>7. batch' = <<>> BY <1>7 DEF ApplyConfig, AtSource
    <2> QED BY <1>1, <1>5, <2>6, <2>7, HandledOf
<1>8. CASE ApplyUrl
    <2> DEFINE content == world.content[Head(Top.rest).ref]
    <2>1. Head(Top.rest).kind = "url" BY <1>8 DEF ApplyUrl, AtSource
    <2>2. Offer(t, k) = content BY <1>3, <2>1 DEF Offer
    <2>3. content \in Seq(Config) BY <1>3, <2>2, OfferType
    <2>4. /\ batch' = Slice(content)
          /\ ~(Len(content) > MaxConfigs - Len(result))
        BY <1>8 DEF ApplyUrl, Plain, Whole
    <2>5. Len(result) \in Nat /\ Len(batch) \in Nat /\ MaxConfigs \in Nat
          /\ Len(content) \in Nat
        BY <2>3, LenProperties, ResolverAssumption DEF TypeOK
    <2> HIDE DEF content
    <2>6. Len(result) <= MaxConfigs BY <2>5 DEF WithinLimit
    <2>7. batch' = content BY <2>3, <2>4, <2>5, <2>6, SliceOf
    <2>8. CASE content = <<>>
        <3>1. DOMAIN Offer(t, k) = {} BY <2>2, <2>8
        <3>2. Settled(t, k, resolved', Shown') BY <1>3, <2>1, <3>1, SettledUrl
        <3> QED BY <1>1, <1>5, <2>7, <2>8, <3>2, HandledOf
    <2>9. CASE content # <<>>
        <3>1. Len(Offer(t, k)) - Len(batch') = 0 BY <2>2, <2>5, <2>7
        <3> QED BY <1>1, <1>5, <2>7, <2>9, <3>1, HandledOf
    <2> QED BY <2>8, <2>9
<1>9. CASE LoseToken
    <2>1. Settled(t, k, resolved', Shown')
        BY <1>3, <1>9, SettledToken DEF LoseToken, AtSource
    <2>2. batch' = <<>> BY <1>9 DEF LoseToken, AtSource
    <2> QED BY <1>1, <1>5, <2>1, <2>2, HandledOf
<1>10. CASE ApplyToken
    <2>1. Head(Top.rest).kind = "token" /\ batch' = <<>> BY <1>10 DEF ApplyToken, AtSource
    <2>2. ~(Depth + 1 > MaxDepth) BY <1>10 DEF ApplyToken, Plain, Whole
    <2>3. Head(Top.rest).ref \in resolved' BY <1>10, <2>2 DEF ApplyToken, Enter
    <2>4. Settled(t, k, resolved', Shown') BY <1>3, <2>1, <2>3, SettledToken
    <2> QED BY <1>1, <1>5, <2>1, <2>4, HandledOf
<1> QED BY <1>6, <1>7, <1>8, <1>9, <1>10

\* One config more of the content has been added.
LEMMA HandledFetched ==
    ASSUME TypeOK, OpenedOnce, Rests, Linked, Fetched, Handled, Plain, AddFetched,
           NEW n \in Nat \ {0}, n = Len(stack)
    PROVE  Handled'
<1>1. /\ world' = world /\ Running /\ batch # <<>> /\ stack' = stack /\ batch' = Tail(batch)
      /\ Show(Head(batch), NoToken, TRUE) /\ ~truncated
    BY DEF AddFetched, Plain, Whole
<1>2. PICK t, k : t = stack[n].token /\ k = Done(n) OBVIOUS
<1>3. Top.token = t /\ Done(Len(stack)) = k /\ t \in Token BY <1>1, <1>2, TopCall DEF Top, Last
<1>4. /\ k \in Visible(t, Depth) /\ world.sources[t][k].kind = "url"
      /\ EndOf(batch, Offer(t, k))
    BY <1>1, <1>3 DEF Fetched
<1>5. k \in DOMAIN world.sources[t] BY <1>4 DEF Visible
<1>6. PICK content : content = Offer(t, k) OBVIOUS
<1>7. content \in Seq(Config) /\ Len(content) \in Nat /\ DOMAIN content = 1 .. Len(content)
    BY <1>3, <1>5, <1>6, OfferType
<1>8. /\ Len(Tail(batch)) = Len(batch) - 1 /\ Len(batch) \in Nat \ {0}
      /\ Len(batch) <= Len(content)
      /\ Head(batch) = content[Len(content) - Len(batch) + 1]
    BY <1>1, <1>4, <1>6, <1>7, TailEnds DEF TypeOK
<1>9. Head(batch) \in Shown'
    <2>1. Head(batch) \in Config BY <1>1, HeadTailProperties DEF TypeOK
    <2> QED BY <1>1, <2>1, ShowShows
<1>10. PICK g \in Nat, l \in Nat \ {0}, w \in Nat :
           l = Len(batch) /\ w = Len(content) /\ g = w - l
    <2>1. PICK l \in Nat \ {0}, w \in Nat : l = Len(batch) /\ w = Len(content) /\ l <= w
        BY <1>7, <1>8
    <2>2. w - l \in Nat BY <2>1
    <2> QED BY <2>1, <2>2
<1>11. k \in Shows(t) => \A m \in 1 .. g : content[m] \in Shown
    BY <1>1, <1>3, <1>6, <1>10 DEF Handled, Given
<1>12. Shown \subseteq Shown' BY ShownStays DEF Next
<1>13. k \in Shows(t) => \A m \in 1 .. g + 1 : content[m] \in Shown'
    <2>1. \A m \in 1 .. g + 1 : m # g + 1 => m \in 1 .. g OBVIOUS
    <2> QED BY <1>8, <1>9, <1>10, <1>11, <1>12, <2>1
<1>14. Len(content) - Len(batch') = g + 1 /\ Len(batch') = l - 1
    <2>1. w - (l - 1) = g + 1 BY <1>10
    <2> QED BY <1>1, <1>8, <1>10, <2>1
<1>15. Len(stack') = n /\ stack'[n].token = t /\ Done(n)' = k
    BY <1>1, <1>2 DEF Done, Body
<1>16. CASE batch' = <<>>
    <2>1. l - 1 = 0
        <3>1. Len(batch') = 0 BY <1>16
        <3> QED BY <1>14, <3>1
    <2>2. Len(content) = g + 1
        <3>1. l = 1 BY <2>1
        <3>2. w = g + l BY <1>10
        <3> QED BY <1>10, <3>1, <3>2
    <2>3. k \in Shows(t) => Settled(t, k, resolved', Shown')
        BY <1>4, <1>6, <1>7, <1>13, <2>2, SettledUrl
    <2> QED BY <1>1, <1>15, <1>16, <2>3, HandledOf
<1>17. CASE batch' # <<>>
    <2>1. k \in Shows(t) =>
              \A m \in 1 .. Len(Offer(t, k)) - Len(batch') : Offer(t, k)[m] \in Shown'
        BY <1>6, <1>13, <1>14
    <2> QED BY <1>1, <1>15, <1>17, <2>1, HandledOf
<1> QED BY <1>16, <1>17

\* A new call has dealt with nothing; the one below a call that ends has dealt
\* with the reference to it.
LEMMA HandledCalls ==
    ASSUME TypeOK, TypeOK', OpenedOnce, Rests, Linked, world' = world,
           NEW n \in Nat \ {0}, n = Len(stack),
           \/ \E x \in Token : Opening(x)
           \/ Closing /\ batch' = <<>> /\ resolved' = resolved
    PROVE  Handled'
<1>1. CASE \E x \in Token : Opening(x)
    <2>1. PICK x \in Token : Opening(x) BY <1>1
    <2>2. n + 1 \in Nat \ {0} /\ Len(stack') = n + 1 /\ stack'[n + 1].token = x /\ Done(n + 1)' = 0
        BY <2>1 DEF Opening
    <2>3. 0 \notin Shows(x) BY ShowsType
    <2> QED BY <2>2, <2>3, HandledOf
<1>2. CASE Closing /\ batch' = <<>> /\ resolved' = resolved
    <2>1. Len(stack') = n - 1 /\ \A i \in 1 .. n - 1 : Same(i) BY <1>2 DEF Closing
    <2>2. CASE n = 1
        <3>1. stack' \in Seq(Frame) /\ Len(stack') = 0 BY <2>1, <2>2 DEF TypeOK
        <3>2. ~Running' BY <3>1, EmptySeq DEF Running
        <3> QED BY <3>2 DEF Handled
    <2>3. CASE n # 1
        <3>1. PICK m \in Nat \ {0} : m = n - 1 BY <2>3
        <3>2. m \in 1 .. n - 1 /\ n = m + 1 /\ n \in 1 .. n BY <3>1
        <3>3. PICK t, k : t = stack[m].token /\ k = Done(m) OBVIOUS
        <3>4. Refers(t, k, stack[n].token) BY <3>2, <3>3 DEF Linked
        <3>5. stack[n].token \in resolved BY <3>2, StackType DEF OpenedOnce
        <3>6. Settled(t, k, resolved', Shown')
            BY <1>2, <3>4, <3>5, SettledToken DEF Refers
        <3>7. Len(stack') = m /\ stack'[m].token = t /\ Done(m)' = k
            BY <2>1, <3>1, <3>2, <3>3 DEF Same
        <3> QED BY <1>2, <3>1, <3>6, <3>7, HandledOf
    <2> QED BY <2>2, <2>3
<1> QED BY <1>1, <1>2

\* Every step keeps what has been dealt with, level by level.
LEMMA NextSwept ==
    ASSUME TypeOK, TypeOK', WithinLimit, OpenedOnce, Rests, Rests', Linked, Fetched,
           Swept, Next, Plain'
    PROVE  Swept'
<1>1. world' = world /\ Plain /\ Shown \subseteq Shown' BY StepShape, PlainBefore, ShownStays
<1>2. PICK n \in Nat \ {0} : n = Len(stack)
    BY TopCall DEF Next, Skip, ApplyConfig, ApplyUrl, AddFetched, LoseToken,
                   ApplyToken, Return, AtSource
<1>3. CASE /\ Skip \/ ApplyConfig \/ ApplyUrl \/ LoseToken \/ ApplyToken
           /\ Advance /\ resolved' = resolved
    <2>1. batch = <<>> /\ Len(stack') = n /\ Moved(n)
        BY <1>2, <1>3 DEF Skip, ApplyConfig, ApplyUrl, LoseToken, ApplyToken, AtSource, Advance
    <2>2. Handled' BY <1>1, <1>2, <1>3, HandledNext
    <2> QED BY <1>1, <1>2, <1>3, <2>1, <2>2, SweptStays
<1>4. CASE AddFetched
    <2>1. stack' = stack /\ resolved' = resolved BY <1>4 DEF AddFetched
    <2>2. Handled' BY <1>1, <1>2, <1>4, HandledFetched DEF Swept
    <2> QED BY <1>1, <1>2, <2>1, <2>2, SweptStays
<1>5. PICK old \in [1 .. n + 1 -> SUBSET resolved] :
          old[n + 1] = resolved /\ Sweep(n, Path, Course, Shown, old)
    BY <1>1, <1>2 DEF Swept
<1>6. Running /\ n \in 1 .. n /\ Top = stack[n] /\ DOMAIN stack = 1 .. n
    BY <1>2, StackType, TopCall
<1>7. PICK p1, c1, p2, c2 : p1 = Path /\ c1 = Course /\ p2 = Path' /\ c2 = Course' OBVIOUS
<1>8. \A i \in 1 .. n : /\ p1[i] = stack[i].token /\ c1[i] = Done(i)
                        /\ p1[i] \in Token /\ c1[i] \in Nat /\ Shows(p1[i]) \subseteq Nat
    BY <1>2, <1>7, PathCourse
<1>9. DOMAIN stack' = 1 .. Len(stack') BY LenProperties DEF TypeOK
<1>10. \A i \in 1 .. Len(stack') : p2[i] = stack'[i].token /\ c2[i] = Done(i)'
    BY <1>7, <1>9 DEF Path, Course
<1>11. batch = <<>> /\ c1[n] \in Shows(p1[n]) => Settled(p1[n], c1[n], resolved, Shown)
    BY <1>1, <1>2, <1>6, <1>8 DEF Handled, Swept
<1>12. ASSUME NEW x \in Token, ApplyToken, Opening(x), x \notin resolved,
              resolved' = resolved \cup {x}
       PROVE  Swept'
    <2>1. /\ Len(stack') = n + 1 /\ Moved(n) /\ stack'[n + 1].token = x /\ Done(n + 1)' = 0
        BY <1>2, <1>12 DEF Opening
    <2>2. batch = <<>> BY <1>12 DEF ApplyToken, AtSource
    <2>3. /\ \A i \in 1 .. n - 1 : i \in 1 .. n /\ i \in 1 .. n + 1
          /\ \A i \in 1 .. n : i \in 1 .. n + 1 /\ (i # n => i \in 1 .. n - 1)
          /\ n + 1 \in 1 .. n + 1
        OBVIOUS
    <2>4. \A i \in 1 .. n : p2[i] = p1[i]
        BY <1>8, <1>10, <2>1, <2>3 DEF Moved, Same
    <2>5. \A i \in 1 .. n - 1 : c2[i] = c1[i]
        BY <1>8, <1>10, <2>1, <2>3 DEF Moved, Same
    <2>6. c2[n] = c1[n] + 1 BY <1>6, <1>8, <1>10, <2>1, <2>3 DEF Moved
    <2>7. p2[n + 1] = x /\ c2[n + 1] = 0 BY <1>10, <2>1, <2>3
    <2>8. c1[n] \in Shows(p1[n]) => Settled(p1[n], c1[n], old[n + 1], Shown')
        BY <1>1, <1>5, <1>11, <2>2, SettledMore
    <2>9. Sweep(n, p1, c2, Shown', old)
        BY <1>1, <1>5, <1>7, <1>8, <2>5, <2>6, <2>8, SweepAdvance
    <2> DEFINE old2 == [i \in 1 .. (n + 1) + 1 |-> IF i = n + 2 THEN resolved' ELSE old[i]]
    <2>10. /\ old2 \in [1 .. (n + 1) + 1 -> SUBSET resolved']
           /\ old2[(n + 1) + 1] = resolved' /\ old2[n + 2] = resolved'
           /\ \A i \in 1 .. n + 1 : old2[i] = old[i]
        <3>1. \A i \in 1 .. (n + 1) + 1 : i # n + 2 => i \in 1 .. n + 1 OBVIOUS
        <3>2. \A i \in 1 .. n + 1 : i \in 1 .. (n + 1) + 1 /\ i # n + 2 OBVIOUS
        <3>3. (n + 1) + 1 = n + 2 /\ n + 2 \in 1 .. (n + 1) + 1 OBVIOUS
        <3> QED BY <1>12, <3>1, <3>2, <3>3
    <2> HIDE DEF old2
    <2>11. Shows(x) \subseteq Nat BY ShowsType
    <2>12. old2[n + 2] = old[n + 1] \cup {x} BY <1>5, <1>12, <2>10
    <2>13. Sweep(n + 1, p2, c2, Shown', old2)
        BY <2>4, <2>7, <2>9, <2>10, <2>11, <2>12, SweepOpen
    <2>14. Handled' BY <1>1, <1>2, <1>12, HandledCalls
    <2>15. Root \in resolved' BY <1>12 DEF Swept
    <2>16. n + 1 \in Nat OBVIOUS
    <2> QED BY <1>1, <1>7, <2>1, <2>10, <2>13, <2>14, <2>15, <2>16, SweptOf
<1>13. CASE Return /\ Closing
    <2>1. Len(stack') = n - 1 /\ \A i \in 1 .. n - 1 : Same(i) BY <1>2, <1>13 DEF Closing
    <2>2. batch = <<>> /\ batch' = <<>> /\ resolved' = resolved /\ Shown' = Shown
        BY <1>13 DEF Return, Shown
    <2>3. Top.rest = <<>> BY <1>13 DEF Return, Plain, Whole
    <2>4. c1[n] = Len(Body(p1[n])) BY <1>2, <1>6, <1>8, <2>3, DoneType
    <2>5. ASSUME NEW k \in Shows(p1[n]) PROVE Settled(p1[n], k, old[n + 1], Shown)
        <3>1. k \in 1 .. c1[n] /\ c1[n] \in Nat BY <1>6, <1>8, <2>4, ShowsType
        <3>2. CASE k = c1[n] BY <1>5, <1>11, <2>2, <3>2
        <3>3. CASE k # c1[n]
            <4>1. k < c1[n] BY <3>1, <3>3
            <4> QED BY <1>5, <1>6, <1>7, <4>1 DEF Sweep
        <3> QED BY <3>2, <3>3
    <2>6. \A i \in 1 .. n - 1 : p2[i] = p1[i] /\ c2[i] = c1[i]
        <3>1. \A i \in 1 .. n - 1 : i \in 1 .. n OBVIOUS
        <3> QED BY <1>8, <1>10, <2>1, <3>1 DEF Same
    <2> DEFINE old2 == [i \in 1 .. (n - 1) + 1 |-> IF i = n THEN resolved ELSE old[i]]
    <2>7. /\ old2 \in [1 .. (n - 1) + 1 -> SUBSET resolved']
          /\ old2[(n - 1) + 1] = resolved' /\ old2[n] = resolved
          /\ \A i \in 1 .. n - 1 : old2[i] = old[i]
        <3>1. \A i \in 1 .. (n - 1) + 1 : i \in 1 .. n + 1 OBVIOUS
        <3>2. \A i \in 1 .. n - 1 : i \in 1 .. (n - 1) + 1 /\ i # n OBVIOUS
        <3>3. (n - 1) + 1 = n /\ n \in 1 .. (n - 1) + 1 OBVIOUS
        <3> QED BY <2>2, <3>1, <3>2, <3>3
    <2> HIDE DEF old2
    <2>8. old[n] \subseteq old[n + 1]
        <3>1. n \in 1 .. n + 1 OBVIOUS
        <3> QED BY <1>5, <3>1
    <2>9. Sweep(n - 1, p2, c2, Shown, old2)
        BY <1>5, <1>7, <2>5, <2>6, <2>7, <2>8, SweepClose
    <2>10. Handled' BY <1>1, <1>2, <1>13, <2>2, HandledCalls
    <2>11. Root \in resolved' /\ n - 1 \in Nat BY <2>2 DEF Swept
    <2> QED BY <1>1, <1>7, <2>1, <2>2, <2>7, <2>9, <2>10, <2>11, SweptOf
<1>14. CASE AddFetched \/ Return \/ Skip \/ ApplyConfig \/ ApplyUrl \/ LoseToken \/ ApplyToken
    <2>1. Skip \/ ApplyConfig \/ ApplyUrl \/ LoseToken => resolved' = resolved
        BY DEF Skip, ApplyConfig, ApplyUrl, LoseToken
    <2> QED BY <1>3, <1>4, <1>12, <1>13, <2>1, StepShape
<1> QED BY <1>14 DEF Next

-----------------------------------------------------------------------------
(* What the resolution has behind it                                       *)

\* The resolution has left the place behind: where it parts from the calls, at
\* call n, it goes by a source dealt with, or an item of the current one.
Behind(p) ==
    Running =>
        \E n \in 1 .. Len(stack) :
            /\ n <= Len(p.via)
            /\ \A i \in 1 .. n - 1 : p.via[i] = stack[i].token /\ p.at[i] = Done(i)
            /\ p.via[n] = stack[n].token
            /\ \/ p.at[n] < Done(n)
               \/ /\ n = Len(stack) /\ p.at[n] = Done(n)
                  /\ batch = <<>> \/ p.item <= Given

\* Whatever is behind is shown.
LEMMA AllShown ==
    ASSUME TypeOK, OpenedOnce, Rests, Linked, Fetched, Swept, Plain,
           NEW p \in Places, Behind(p)
    PROVE  ConfigAt(p) \in Shown
<1>1. PICK l \in Nat, v \in {p.via}, a \in {p.at} : l = Len(p.via) /\ v = p.via /\ a = p.at BY PlaceFacts
<1>2. /\ l >= 1 /\ v[1] = Root
      /\ \A i \in 1 .. l : v[i] \in Token /\ a[i] \in Shows(v[i]) /\ a[i] \in Nat
      /\ \A i \in 1 .. l - 1 : Refers(v[i], a[i], v[i + 1])
      /\ p.item \in DOMAIN Offer(v[l], a[l])
      /\ ConfigAt(p) = Offer(v[l], a[l])[p.item]
    BY <1>1, PlaceFacts, PlaceShows DEF Plain
<1>3. PICK N \in Nat : N = Len(stack) BY StackType
<1>4. PICK old \in [1 .. N + 1 -> SUBSET resolved] :
          old[N + 1] = resolved /\ Sweep(N, Path, Course, Shown, old)
    BY <1>3 DEF Swept
<1>5. ASSUME NEW n \in 0 .. N, n < l, \A i \in 1 .. n : v[i] = stack[i].token, v[n + 1] \in old[n + 1]
      PROVE  ConfigAt(p) \in Shown
    <2>1. n + 1 \in 1 .. N + 1 /\ (n + 1) - 1 = n OBVIOUS
    <2>2. \A i \in 1 .. n : Path[i] = v[i] BY <1>3, <1>5, PathCourse
    <2>3. \A t \in old[n + 1] : (\A j \in 1 .. n : v[j] # t) =>
              \A k \in Shows(t) : Settled(t, k, old[n + 1], Shown)
        BY <1>4, <2>1, <2>2 DEF Sweep
    <2>4. PICK entered, shown : entered = old[n + 1] /\ shown = Shown OBVIOUS
    <2>5. /\ n \in Nat /\ n < Len(p.via) /\ p.via[n + 1] \in entered
          /\ \A t \in entered : (\A j \in 1 .. n : p.via[j] # t) =>
                \A k \in Shows(t) : Settled(t, k, entered, shown)
        BY <1>1, <1>5, <2>3, <2>4
    <2>6. ConfigAt(p) \in shown BY <2>5, TailShown DEF Plain
    <2> QED BY <2>4, <2>6
<1>6. ASSUME NEW n \in 1 .. N, n <= l, \A i \in 1 .. n : v[i] = stack[i].token,
             Settled(v[n], a[n], old[n + 1], Shown)
      PROVE  ConfigAt(p) \in Shown
    <2>1. CASE n = l BY <1>2, <1>6, <2>1 DEF Settled
    <2>2. CASE n # l
        <3>1. n \in 1 .. l - 1 /\ n + 1 \in 1 .. l /\ n < l /\ n \in 0 .. N
            BY <1>6, <2>2
        <3>2. v[n + 1] \in old[n + 1] BY <1>2, <1>6, <3>1 DEF Settled
        <3> QED BY <1>5, <1>6, <3>1, <3>2
    <2> QED BY <2>1, <2>2
<1>7. CASE ~Running
    <2>1. N = 0 BY <1>3, <1>7, StackType
    <2>2. v[1] \in old[1] BY <1>2, <1>4, <2>1 DEF Swept
    <2> QED BY <1>2, <1>5, <2>1, <2>2
<1>8. CASE Running
    <2>1. PICK n \in 1 .. N :
            /\ n <= l
            /\ \A i \in 1 .. n - 1 : v[i] = stack[i].token /\ a[i] = Done(i)
            /\ v[n] = stack[n].token
            /\ \/ a[n] < Done(n)
               \/ /\ n = N /\ a[n] = Done(n)
                  /\ batch = <<>> \/ p.item <= Given
        BY <1>1, <1>3, <1>8 DEF Behind
    <2>2. \A i \in 1 .. n : v[i] = stack[i].token
        <3>1. \A i \in 1 .. n : i # n => i \in 1 .. n - 1 OBVIOUS
        <3> QED BY <2>1, <3>1
    <2>3. n \in 1 .. l BY <2>1
    <2>4. CASE a[n] < Done(n)
        <3>1. Path[n] = v[n] /\ Course[n] = Done(n) BY <1>3, <2>1, PathCourse
        <3>2. Settled(v[n], a[n], old[n + 1], Shown) BY <1>2, <1>4, <2>3, <2>4, <3>1 DEF Sweep
        <3> QED BY <1>6, <2>1, <2>2, <3>2
    <2>5. CASE n = N /\ a[n] = Done(n) /\ (batch = <<>> \/ p.item <= Given)
        <3>1. Top.token = v[n] /\ Done(Len(stack)) = a[n]
            BY <1>3, <1>8, <2>1, <2>5, TopCall
        <3>2. Handled BY DEF Swept
        <3>3. CASE batch = <<>>
            <4>1. Settled(v[n], a[n], old[n + 1], Shown)
                BY <1>2, <1>4, <1>8, <2>3, <2>5, <3>1, <3>2, <3>3 DEF Handled
            <4> QED BY <1>6, <2>1, <2>2, <4>1
        <3>4. CASE batch # <<>>
            <4>1. world.sources[v[n]][a[n]].kind = "url" BY <3>1, <3>4 DEF Fetched
            <4>2. n = l
                <5>1. n # l => n \in 1 .. l - 1 BY <2>3
                <5> QED BY <1>2, <4>1, <5>1 DEF Refers
            <4>3. /\ \A m \in 1 .. Given : Offer(v[n], a[n])[m] \in Shown
                BY <1>2, <1>8, <2>3, <3>1, <3>2, <3>4 DEF Handled
            <4>4. p.item \in 1 .. Given
                <5>1. Given = Len(Offer(v[n], a[n])) - Len(batch) BY <3>1 DEF Given
                <5>2. /\ Len(Offer(v[n], a[n])) \in Nat /\ Len(batch) \in Nat
                      /\ DOMAIN Offer(v[n], a[n]) = 1 .. Len(Offer(v[n], a[n]))
                    BY <1>2, <2>3, OfferType, LenProperties DEF Shows, TypeOK
                <5>3. p.item \in 1 .. Len(Offer(v[n], a[n])) BY <1>2, <4>2, <5>2
                <5> QED BY <2>5, <3>4, <5>1, <5>2, <5>3
            <4> QED BY <1>2, <4>2, <4>3, <4>4
        <3> QED BY <3>3, <3>4
    <2> QED BY <2>1, <2>4, <2>5
<1> QED BY <1>7, <1>8

-----------------------------------------------------------------------------
(* What is behind stays so, and comes first                                *)

LEMMA BehindOf ==
    ASSUME NEW p, NEW l \in Nat, Len(stack') = l, NEW n \in 1 .. l, n <= Len(p.via),
           \A i \in 1 .. n - 1 : p.via[i] = stack'[i].token /\ p.at[i] = Done(i)',
           p.via[n] = stack'[n].token,
           \/ p.at[n] < Done(n)'
           \/ n = l /\ p.at[n] = Done(n)' /\ (batch' = <<>> \/ p.item <= Given')
    PROVE  Behind(p)'
BY DEF Behind

\* What is behind stays behind.
LEMMA BehindStays ==
    ASSUME TypeOK, TypeOK', Rests, Fetched, Next, NEW p \in Places, Behind(p)
    PROVE  Behind(p)'
<1>1. world' = world BY StepShape
<1>2. PICK N \in Nat \ {0} : N = Len(stack)
    BY TopCall DEF Next, Skip, ApplyConfig, ApplyUrl, AddFetched, LoseToken,
                   ApplyToken, Return, AtSource
<1>3. Running BY <1>2, StackType
<1>4. PICK n \in 1 .. N :
        /\ n <= Len(p.via)
        /\ \A i \in 1 .. n - 1 : p.via[i] = stack[i].token /\ p.at[i] = Done(i)
        /\ p.via[n] = stack[n].token
        /\ \/ p.at[n] < Done(n)
           \/ /\ n = N /\ p.at[n] = Done(n)
              /\ batch = <<>> \/ p.item <= Given
    BY <1>2, <1>3 DEF Behind
<1>5. p.at[n] \in Nat /\ n \in Nat \ {0} /\ Len(p.via) \in Nat
    BY <1>4, PlaceFacts
<1>6. Done(n) \in Nat
    <2>1. Done(n) \in 0 .. Len(Body(stack[n].token)) /\ Len(Body(stack[n].token)) \in Nat
        BY <1>2, <1>4, DoneType, StackType
    <2> QED BY <2>1
<1>7. ASSUME NEW l \in Nat, Len(stack') = l, l >= N, Moved(N)
      PROVE  Behind(p)'
    <2>1. \A i \in 1 .. n - 1 : i \in 1 .. N - 1 BY <1>4
    <2>2. \A i \in 1 .. n - 1 : p.via[i] = stack'[i].token /\ p.at[i] = Done(i)'
        BY <1>4, <1>7, <2>1 DEF Moved, Same
    <2>3. p.via[n] = stack'[n].token /\ p.at[n] < Done(n)'
        <3>1. CASE n = N BY <1>4, <1>5, <1>6, <1>7, <3>1 DEF Moved
        <3>2. CASE n # N
            <4>1. n \in 1 .. N - 1 BY <3>2
            <4> QED BY <1>4, <1>7, <3>2, <4>1 DEF Moved, Same
        <3> QED BY <3>1, <3>2
    <2>4. n \in 1 .. l BY <1>7
    <2> QED BY <1>4, <1>7, <2>2, <2>3, <2>4, BehindOf
<1>8. CASE Advance
    <2>1. Len(stack') = N /\ Moved(N) BY <1>2, <1>8 DEF Advance
    <2> QED BY <1>7, <2>1
<1>9. CASE Opening(Head(Top.rest).ref)
    <2>1. Len(stack') = N + 1 /\ Moved(N) BY <1>2, <1>9 DEF Opening
    <2> QED BY <1>7, <2>1
<1>10. CASE AddFetched
    <2>1. stack' = stack /\ batch' = Tail(batch) /\ batch # <<>> BY <1>10 DEF AddFetched
    <2>2. \A i : Done(i)' = Done(i) BY <1>1, <2>1 DEF Done, Body
    <2>3. Len(Tail(batch)) = Len(batch) - 1 /\ Len(batch) \in Nat
        BY <2>1, HeadTailProperties, LenProperties DEF TypeOK
    <2>4. ASSUME n = N, p.at[n] = Done(n), p.item <= Given PROVE p.item <= Given'
        <3>1. PICK t, k : t = Top.token /\ k = Done(Len(stack)) OBVIOUS
        <3>2. k \in Visible(t, Depth) /\ t \in Token BY <1>3, <2>1, <3>1, TopCall DEF Fetched
        <3>3. Len(Offer(t, k)) \in Nat BY <3>2, OfferType DEF Visible
        <3>4. Given = Len(Offer(t, k)) - Len(batch) BY <3>1 DEF Given
        <3>5. Given' = Len(Offer(t, k)) - Len(batch')
            <4>1. (Top.token)' = t BY <2>1, <3>1 DEF Top
            <4>2. Done(Len(stack))' = k BY <1>1, <2>1, <3>1 DEF Done, Body
            <4> QED BY <1>1, <4>1, <4>2, SameWorld DEF Given
        <3>6. p.item \in Nat
            <4>1. PICK v, a : v = p.via[Len(p.via)] /\ a = p.at[Len(p.via)] OBVIOUS
            <4>2. Len(p.via) \in 1 .. Len(p.via) BY PlaceFacts
            <4>3. v \in Token /\ a \in DOMAIN world.sources[v] /\ p.item \in DOMAIN Offer(v, a)
                BY <4>1, <4>2, PlaceFacts DEF Visible
            <4> QED BY <4>3, OfferType
        <3> QED BY <2>1, <2>3, <2>4, <3>3, <3>4, <3>5, <3>6
    <2>5. \/ p.at[n] < Done(n)'
          \/ n = N /\ p.at[n] = Done(n)' /\ (batch' = <<>> \/ p.item <= Given')
        BY <1>4, <2>1, <2>2, <2>4
    <2> QED BY <1>2, <1>4, <2>1, <2>2, <2>5, BehindOf
<1>11. CASE Return /\ Closing
    <2>1. Len(stack') = N - 1 /\ \A i \in 1 .. N - 1 : Same(i) BY <1>2, <1>11 DEF Closing
    <2>2. batch' = <<>> BY <1>11 DEF Return
    <2>3. CASE N = 1
        <3>1. stack' \in Seq(Frame) /\ Len(stack') = 0 BY <2>1, <2>3 DEF TypeOK
        <3>2. ~Running' BY <3>1, EmptySeq DEF Running
        <3> QED BY <3>2 DEF Behind
    <2>4. CASE n < N
        <3>1. n \in 1 .. N - 1 /\ \A i \in 1 .. n - 1 : i \in 1 .. N - 1 BY <2>4
        <3>2. \A i \in 1 .. n - 1 : p.via[i] = stack'[i].token /\ p.at[i] = Done(i)'
            BY <1>4, <2>1, <3>1 DEF Same
        <3>3. p.via[n] = stack'[n].token /\ p.at[n] < Done(n)'
            BY <1>4, <2>1, <2>4, <3>1 DEF Same
        <3>4. N - 1 \in Nat OBVIOUS
        <3> QED BY <1>4, <2>1, <3>1, <3>2, <3>3, <3>4, BehindOf
    <2>5. CASE n = N /\ N # 1
        <3>1. PICK m \in Nat \ {0} : m = N - 1 BY <2>5
        <3>2. m \in 1 .. m /\ m \in 1 .. n - 1 /\ m <= Len(p.via)
              /\ \A i \in 1 .. m - 1 : i \in 1 .. N - 1 /\ i \in 1 .. n - 1
            BY <1>4, <1>5, <2>5, <3>1
        <3>3. \A i \in 1 .. m - 1 : p.via[i] = stack'[i].token /\ p.at[i] = Done(i)'
            BY <1>4, <2>1, <3>2 DEF Same
        <3>4. p.via[m] = stack'[m].token /\ p.at[m] = Done(m)'
            BY <1>4, <2>1, <2>5, <3>2 DEF Same
        <3> QED BY <2>1, <2>2, <3>1, <3>2, <3>3, <3>4, BehindOf
    <2> QED BY <1>4, <2>3, <2>4, <2>5
<1> QED BY <1>8, <1>9, <1>10, <1>11, StepShape

\* A place that is not behind parts from the calls by a source to come, or is
\* at the current one still.
LEMMA Ahead ==
    ASSUME TypeOK, Rests, Linked, Running, NEW q \in Places, ~Behind(q), NEW n \in 1 .. Len(stack)
    PROVE  \/ \E i \in 1 .. n - 1 :
                 /\ i <= Len(q.via)
                 /\ \A j \in 1 .. i - 1 : q.at[j] = Done(j)
                 /\ Done(i) < q.at[i]
           \/ /\ n <= Len(q.via)
              /\ \A j \in 1 .. n - 1 : q.at[j] = Done(j)
              /\ q.via[n] = stack[n].token
              /\ \/ Done(n) < q.at[n]
                 \/ /\ Done(n) = q.at[n]
                    /\ n = Len(stack) => batch # <<>> /\ ~(q.item <= Given)
<1>1. PICK N \in Nat \ {0} : N = Len(stack) BY TopCall
<1>2. PICK l \in Nat, v \in {q.via}, a \in {q.at} : l = Len(q.via) /\ v = q.via /\ a = q.at BY PlaceFacts
<1>3. /\ l >= 1 /\ v[1] = Root
      /\ \A i \in 1 .. l : a[i] \in Nat
      /\ \A i \in 1 .. l - 1 : Refers(v[i], a[i], v[i + 1])
      /\ q.item \in DOMAIN Offer(v[l], a[l])
    BY <1>2, PlaceFacts
<1>4. \A i \in 1 .. N : Done(i) \in Nat
    BY <1>1, PathCourse
<1>5. /\ stack[1].token = Root
      /\ \A i \in 1 .. N - 1 : Refers(stack[i].token, Done(i), stack[i + 1].token)
    BY <1>1 DEF Linked
<1> DEFINE parts == {i \in 1 .. n : \/ l < i
                                    \/ v[i] # stack[i].token
                                    \/ i < n /\ a[i] # Done(i)}
<1>6. ASSUME NEW i \in 1 .. n, \A j \in 1 .. i - 1 : j \notin parts
      PROVE  /\ i <= l
             /\ v[i] = stack[i].token
             /\ \A j \in 1 .. i - 1 : v[j] = stack[j].token /\ a[j] = Done(j)
    <2>1. \A j \in 1 .. i - 1 : j \in 1 .. n /\ j < n BY <1>6
    <2>2. \A j \in 1 .. i - 1 : ~(l < j) /\ v[j] = stack[j].token /\ a[j] = Done(j)
        BY <1>6, <2>1
    <2>3. CASE i = 1 BY <1>3, <1>5, <2>2, <2>3
    <2>4. CASE i # 1
        <3>1. PICK m \in Nat \ {0} : m = i - 1 BY <2>4
        <3>2. m \in 1 .. i - 1 /\ m \in 1 .. N - 1 /\ i = m + 1 BY <1>1, <1>6, <3>1
        <3>3. ~(l < m) /\ v[m] = stack[m].token /\ a[m] = Done(m) BY <2>2, <3>2
        <3>4. Refers(v[m], a[m], stack[i].token) BY <1>5, <3>2, <3>3
        <3>5. m # l
            <4>1. SUFFICES ASSUME m = l PROVE FALSE OBVIOUS
            <4>2. Offer(v[m], a[m]) = <<>> BY <3>4 DEF Refers, Offer
            <4> QED BY <1>3, <4>1, <4>2
        <3>6. m \in 1 .. l - 1 /\ i <= l BY <3>1, <3>2, <3>3, <3>5
        <3>7. v[i] = stack[i].token BY <1>3, <3>2, <3>4, <3>6 DEF Refers
        <3> QED BY <2>2, <3>6, <3>7
    <2> QED BY <2>3, <2>4
<1>7. ASSUME NEW i \in 1 .. n, i <= l, v[i] = stack[i].token,
             \A j \in 1 .. i - 1 : v[j] = stack[j].token /\ a[j] = Done(j)
      PROVE  /\ ~(a[i] < Done(i))
             /\ i = N /\ a[i] = Done(i) => batch # <<>> /\ ~(q.item <= Given)
             /\ a[i] \in Nat /\ Done(i) \in Nat
    <2>1. i \in 1 .. N /\ i \in 1 .. l BY <1>1, <1>7
    <2>2. ~(a[i] < Done(i)) /\ (i = N /\ a[i] = Done(i) => batch # <<>> /\ ~(q.item <= Given))
        BY <1>1, <1>2, <1>7, <2>1 DEF Behind
    <2> QED BY <1>3, <1>4, <2>1, <2>2
<1>8. CASE parts = {}
    <2>1. n \in 1 .. n /\ \A j \in 1 .. n - 1 : j \notin parts BY <1>1, <1>8
    <2>2. /\ n <= l /\ v[n] = stack[n].token
          /\ \A j \in 1 .. n - 1 : v[j] = stack[j].token /\ a[j] = Done(j)
        BY <1>6, <2>1
    <2>3. /\ ~(a[n] < Done(n)) /\ a[n] \in Nat /\ Done(n) \in Nat
          /\ n = N /\ a[n] = Done(n) => batch # <<>> /\ ~(q.item <= Given)
        BY <1>7, <2>1, <2>2
    <2>4. Done(n) < a[n] \/ Done(n) = a[n] BY <2>3
    <2> QED BY <1>1, <1>2, <2>2, <2>3, <2>4
<1>9. CASE parts # {}
    <2>1. parts \subseteq Nat BY <1>1
    <2>2. PICK i \in parts : \A j \in parts : i <= j BY <1>9, <2>1, LeastMember
    <2>3. i \in 1 .. n /\ (l < i \/ v[i] # stack[i].token \/ (i < n /\ a[i] # Done(i)))
        OBVIOUS
    <2>4. \A j \in 1 .. i - 1 : j \notin parts
        <3>1. \A j \in 1 .. i - 1 : ~(i <= j) BY <2>3
        <3> QED BY <2>2, <3>1
    <2> HIDE DEF parts
    <2>5. /\ i <= l /\ v[i] = stack[i].token
          /\ \A j \in 1 .. i - 1 : v[j] = stack[j].token /\ a[j] = Done(j)
        BY <1>6, <2>3, <2>4
    <2>6. i < n /\ a[i] # Done(i) BY <2>3, <2>5
    <2>7. ~(a[i] < Done(i)) /\ a[i] \in Nat /\ Done(i) \in Nat BY <1>7, <2>3, <2>5
    <2>8. Done(i) < a[i] BY <2>6, <2>7
    <2>9. i \in 1 .. n - 1 BY <1>1, <2>3, <2>6
    <2> QED BY <1>2, <2>5, <2>8, <2>9
<1> QED BY <1>8, <1>9

\* What is behind comes before what is not.
LEMMA BehindBefore ==
    ASSUME TypeOK, Rests, Linked, Fetched, NEW p \in Places, NEW q \in Places, Behind(p), ~Behind(q)
    PROVE  Before(p, q)
<1>1. Running BY DEF Behind
<1>2. PICK N \in Nat \ {0} : N = Len(stack) BY <1>1, TopCall
<1>3. PICK n \in 1 .. N :
        /\ n <= Len(p.via)
        /\ \A i \in 1 .. n - 1 : p.via[i] = stack[i].token /\ p.at[i] = Done(i)
        /\ p.via[n] = stack[n].token
        /\ \/ p.at[n] < Done(n)
           \/ /\ n = N /\ p.at[n] = Done(n)
              /\ batch = <<>> \/ p.item <= Given
    BY <1>1, <1>2 DEF Behind
<1>4. /\ DOMAIN p.at = 1 .. Len(p.via) /\ DOMAIN q.at = 1 .. Len(q.via)
      /\ Len(p.via) \in Nat /\ Len(q.via) \in Nat
      /\ \A i \in 1 .. Len(p.via) : p.at[i] \in Nat
      /\ \A i \in 1 .. Len(q.via) : q.at[i] \in Nat
    BY PlaceFacts
<1>5. \A i \in 1 .. N : Done(i) \in Nat BY <1>2, PathCourse
<1>6. CASE \E i \in 1 .. n - 1 :
               /\ i <= Len(q.via)
               /\ \A j \in 1 .. i - 1 : q.at[j] = Done(j)
               /\ Done(i) < q.at[i]
    <2>1. PICK i \in 1 .. n - 1 :
               /\ i <= Len(q.via)
               /\ \A j \in 1 .. i - 1 : q.at[j] = Done(j)
               /\ Done(i) < q.at[i]
        BY <1>6
    <2>2. i \in DOMAIN p.at \cap DOMAIN q.at BY <1>3, <1>4, <2>1
    <2>3. p.at[i] < q.at[i] BY <1>3, <2>1
    <2>4. \A j \in 1 .. i - 1 : p.at[j] = q.at[j]
        <3>1. \A j \in 1 .. i - 1 : j \in 1 .. n - 1 BY <1>3
        <3> QED BY <1>3, <2>1, <3>1
    <2> QED BY <2>2, <2>3, <2>4 DEF Before
<1>7. CASE /\ n <= Len(q.via)
           /\ \A j \in 1 .. n - 1 : q.at[j] = Done(j)
           /\ q.via[n] = stack[n].token
           /\ \/ Done(n) < q.at[n]
              \/ /\ Done(n) = q.at[n]
                 /\ n = Len(stack) => batch # <<>> /\ ~(q.item <= Given)
    <2>1. n \in DOMAIN p.at \cap DOMAIN q.at BY <1>3, <1>4, <1>7
    <2>2. \A j \in 1 .. n - 1 : p.at[j] = q.at[j] BY <1>3, <1>7
    <2>3. p.at[n] \in Nat /\ q.at[n] \in Nat /\ Done(n) \in Nat BY <1>3, <1>4, <1>5, <2>1
    <2>4. CASE p.at[n] < q.at[n] BY <2>1, <2>2, <2>4 DEF Before
    <2>5. CASE ~(p.at[n] < q.at[n])
        <3>1. p.at[n] = Done(n) /\ q.at[n] = Done(n) /\ n = N BY <1>3, <1>7, <2>3, <2>5
        <3>2. batch # <<>> /\ ~(q.item <= Given) /\ p.item <= Given
            BY <1>2, <1>3, <1>7, <2>3, <2>5, <3>1
        <3>3. PICK t, k : t = Top.token /\ k = Done(Len(stack)) OBVIOUS
        <3>4. t = stack[n].token /\ k = Done(n) /\ t \in Token BY <1>1, <1>2, <3>1, <3>3, TopCall
        <3>5. k \in Visible(t, Depth) /\ world.sources[t][k].kind = "url"
            BY <3>2, <3>3 DEF Fetched
        <3>6. ASSUME NEW r \in Places, n <= Len(r.via), r.via[n] = t, r.at[n] = k
              PROVE  Len(r.via) = n /\ r.item \in Nat
            <4>1. /\ Len(r.via) \in Nat
                  /\ \A i \in 1 .. Len(r.via) - 1 : Refers(r.via[i], r.at[i], r.via[i + 1])
                  /\ r.item \in DOMAIN Offer(r.via[Len(r.via)], r.at[Len(r.via)])
                BY PlaceFacts
            <4>2. Len(r.via) = n
                <5>1. Len(r.via) # n => n \in 1 .. Len(r.via) - 1 BY <1>3, <3>6, <4>1
                <5> QED BY <3>5, <3>6, <4>1, <5>1 DEF Refers
            <4>3. r.item \in DOMAIN Offer(t, k) BY <3>6, <4>1, <4>2
            <4> QED BY <3>4, <3>5, <4>2, <4>3, OfferType DEF Visible
        <3>7. /\ Len(p.via) = n /\ p.item \in Nat
              /\ Len(q.via) = n /\ q.item \in Nat
            BY <1>3, <1>7, <3>1, <3>4, <3>6
        <3>8. p.at = q.at
            <4>1. \A i \in 1 .. n : i # n => i \in 1 .. n - 1 OBVIOUS
            <4>2. \A i \in 1 .. n : p.at[i] = q.at[i] BY <2>2, <3>1, <4>1
            <4>3. PICK v \in Routes, w \in Routes : p.at \in Steps(v) /\ q.at \in Steps(w)
                BY PlaceIs
            <4> QED BY <1>4, <3>7, <4>2, <4>3 DEF Steps
        <3>9. p.item < q.item
            <4>1. Given = Len(Offer(t, k)) - Len(batch) BY <3>3 DEF Given
            <4>2. Len(Offer(t, k)) \in Nat /\ Len(batch) \in Nat
                BY <3>4, <3>5, OfferType, LenProperties DEF Visible, TypeOK
            <4> QED BY <3>2, <3>7, <4>1, <4>2
        <3> QED BY <3>8, <3>9 DEF Before
    <2> QED BY <2>4, <2>5
<1> QED BY <1>1, <1>2, <1>6, <1>7, Ahead

-----------------------------------------------------------------------------
(* What is shown                                                           *)

\* A config that a step shows is that of a place, which is then behind.
LEMMA ShownPlace ==
    ASSUME TypeOK, OpenedOnce, Rests, Linked, Fetched, ApplyConfig \/ AddFetched
    PROVE  \E c \in Config, x \in Token \cup {NoToken}, e \in BOOLEAN :
              /\ Show(c, x, e)
              /\ \E p \in Places : ConfigAt(p) = c /\ (~truncated => Behind(p)')
<1>1. world' = world /\ Running BY DEF ApplyConfig, AddFetched, AtSource
<1>2. PICK n \in Nat \ {0}, t \in Token : n = Len(stack) /\ t = stack[n].token BY <1>1, TopCall
<1>3. Top.token = t /\ t \in Token BY <1>1, <1>2, TopCall
<1>4. ASSUME NEW k \in Visible(t, Depth), NEW m \in DOMAIN Offer(t, k),
             Len(stack') = n, \A i \in 1 .. n - 1 : Same(i), stack'[n].token = t, Done(n)' = k,
             ~truncated => batch' = <<>> \/ m <= Given'
      PROVE  \E p \in Places : ConfigAt(p) = Offer(t, k)[m] /\ (~truncated => Behind(p)')
    <2>1. PICK p : p = Here(k, m) OBVIOUS
    <2>2. p \in Places /\ ConfigAt(p) = Offer(t, k)[m] BY <1>1, <1>3, <2>1, HereIsPlace
    <2>3. /\ p.via = [i \in 1 .. n |-> stack[i].token]
          /\ p.at = [i \in 1 .. n |-> IF i = n THEN k ELSE Done(i)]
          /\ p.item = m
        BY <1>2, <2>1 DEF Here
    <2>4. Len(p.via) = n BY <2>3
    <2>5. \A i \in 1 .. n - 1 : p.via[i] = stack'[i].token /\ p.at[i] = Done(i)'
        <3>1. \A i \in 1 .. n - 1 : i \in 1 .. n /\ i # n OBVIOUS
        <3>2. \A i \in 1 .. n - 1 : p.via[i] = stack[i].token /\ p.at[i] = Done(i) BY <2>3, <3>1
        <3> QED BY <1>4, <3>2 DEF Same
    <2>6. n \in 1 .. n OBVIOUS
    <2>7. p.via[n] = stack'[n].token /\ p.at[n] = Done(n)' BY <1>2, <1>4, <2>3, <2>6
    <2>8. ~truncated => Behind(p)'
        <3>1. SUFFICES ASSUME ~truncated PROVE Behind(p)' OBVIOUS
        <3>2. batch' = <<>> \/ p.item <= Given' BY <1>4, <2>3, <3>1
        <3>3. n <= Len(p.via) BY <2>4
        <3> QED BY <1>4, <2>5, <2>6, <2>7, <3>2, <3>3, BehindOf
    <2> QED BY <2>2, <2>8
<1>5. CASE ApplyConfig
    <2>1. Top.rest # <<>> /\ batch' = <<>> BY <1>5 DEF ApplyConfig, AtSource
    <2>2. PICK k : k = Done(n) + 1 OBVIOUS
    <2>3. /\ Head(Top.rest) = world.sources[t][k] /\ Depth = n - 1
          /\ Head(Top.rest) \in Source
          /\ Counts(Head(Top.rest), Depth) <=> k \in Visible(t, n - 1)
        BY <1>1, <1>2, <2>1, <2>2, AtNext
    <2>4. k \in Visible(t, Depth) /\ Head(Top.rest).kind = "config"
        BY <1>5, <2>3 DEF ApplyConfig, AtSource
    <2> DEFINE c == Head(Top.rest).ref
    <2>5. Offer(t, k) = <<c>> BY <2>3, <2>4 DEF Offer
    <2>6. c \in Config BY <2>3, <2>4 DEF Source
    <2>7. Show(c, comments[c], FALSE) BY <1>5 DEF ApplyConfig
    <2>8. comments[c] \in Token \cup {NoToken} BY <2>6 DEF TypeOK
    <2> HIDE DEF c
    <2>9. 1 \in DOMAIN Offer(t, k) /\ Offer(t, k)[1] = c BY <2>5
    <2>10. Advance BY <1>1, <1>5, <2>1, AdvanceStep DEF ApplyConfig
    <2>11. Len(stack') = n /\ Moved(n) BY <1>2, <2>10 DEF Advance
    <2>12. \E p \in Places : ConfigAt(p) = c /\ (~truncated => Behind(p)')
        BY <1>2, <1>4, <2>1, <2>2, <2>4, <2>9, <2>11 DEF Moved
    <2> QED BY <2>6, <2>7, <2>8, <2>12
<1>6. CASE AddFetched
    <2>1. batch # <<>> /\ stack' = stack /\ batch' = Tail(batch) /\ Show(Head(batch), NoToken, TRUE)
        BY <1>6 DEF AddFetched
    <2>2. PICK k : k = Done(n) OBVIOUS
    <2>3. /\ k \in Visible(t, Depth)
          /\ \A j \in DOMAIN batch : \E m \in DOMAIN Offer(t, k) : batch[j] = Offer(t, k)[m]
          /\ ~truncated => EndOf(batch, Offer(t, k))
        BY <1>2, <1>3, <2>1, <2>2 DEF Fetched
    <2>4. PICK content : content = Offer(t, k) OBVIOUS
    <2>5. content \in Seq(Config) /\ Len(content) \in Nat /\ DOMAIN content = 1 .. Len(content)
        BY <1>3, <2>3, <2>4, OfferType DEF Visible
    <2>6. Head(batch) \in Config /\ Head(batch) = batch[1] /\ 1 \in DOMAIN batch
        <3>1. batch \in Seq(Config) /\ Len(batch) # 0 /\ Len(batch) \in Nat /\ DOMAIN batch = 1 .. Len(batch)
            BY <2>1, EmptySeq, LenProperties DEF TypeOK
        <3>2. 1 \in 1 .. Len(batch) BY <3>1
        <3> QED BY <2>1, <3>1, <3>2, HeadTailProperties
    <2>7. Len(stack') = n /\ stack'[n].token = t BY <1>2, <2>1
    <2>8. (\A i : Done(i)' = Done(i)) /\ \A i \in 1 .. n - 1 : Same(i)
        BY <1>1, <2>1 DEF Same, Done, Body
    <2>9. \E m \in DOMAIN content : content[m] = Head(batch) /\ (~truncated => m <= Given')
        <3>1. CASE truncated BY <2>3, <2>4, <2>6, <3>1
        <3>2. CASE ~truncated
            <4>1. EndOf(batch, content) BY <2>3, <2>4, <3>2
            <4>2. /\ Len(Tail(batch)) = Len(batch) - 1 /\ Len(batch) \in Nat \ {0}
                  /\ Len(batch) <= Len(content)
                  /\ Head(batch) = content[Len(content) - Len(batch) + 1]
                BY <2>1, <2>5, <4>1, TailEnds DEF TypeOK
            <4>3. PICK w \in Nat, l \in Nat \ {0} : w = Len(content) /\ l = Len(batch) /\ l <= w
                BY <2>5, <4>2
            <4>4. w - l + 1 \in 1 .. w BY <4>3
            <4>5. Given' = w - (l - 1)
                <5>1. (Top.token)' = t BY <1>3, <2>1 DEF Top
                <5>2. Done(Len(stack))' = k BY <1>1, <1>2, <2>1, <2>2 DEF Done, Body
                <5>3. Given' = Len(content) - Len(batch')
                    BY <1>1, <2>4, <5>1, <5>2, SameWorld DEF Given
                <5> QED BY <2>1, <4>2, <4>3, <5>3
            <4>6. w - l + 1 <= w - (l - 1) BY <4>3
            <4> QED BY <2>5, <4>2, <4>3, <4>4, <4>5, <4>6
        <3> QED BY <3>1, <3>2
    <2>10. \E p \in Places : ConfigAt(p) = Head(batch) /\ (~truncated => Behind(p)')
        BY <1>4, <2>2, <2>3, <2>4, <2>7, <2>8, <2>9
    <2> QED BY <2>1, <2>6, <2>10
<1> QED BY <1>5, <1>6

\* What a step adds has a place.
LEMMA NextOnlyMeant ==
    ASSUME TypeOK, OpenedOnce, Rests, Linked, Fetched, OnlyMeant, Next
    PROVE  OnlyMeant'
<1>1. world' = world BY StepShape
<1>2. Places' = Places /\ \A p : ConfigAt(p)' = ConfigAt(p) BY <1>1, SamePlaces
<1>3. CASE ApplyConfig \/ AddFetched
    <2>1. PICK c \in Config, x \in Token \cup {NoToken}, e \in BOOLEAN :
              Show(c, x, e) /\ \E p \in Places : ConfigAt(p) = c
        BY <1>3, ShownPlace
    <2>2. PICK n : n = Len(result) OBVIOUS
    <2>3. /\ n \in Nat /\ DOMAIN result = 1 .. n
          /\ \/ c \in Shown /\ result' = result
             \/ /\ c \notin Shown
                /\ Len(result') = n + 1 /\ DOMAIN result' = 1 .. n + 1
                /\ \A i \in 1 .. n : result'[i] = result[i]
                /\ result'[n + 1] = [config |-> c, comment |-> x, external |-> e]
        BY <2>1, <2>2, ShownEntry
    <2>4. \A i \in DOMAIN result' : \E p \in Places : ConfigAt(p) = result'[i].config
        <3>1. \A i \in 1 .. n + 1 : i # n + 1 => i \in 1 .. n BY <2>3
        <3>2. \A i \in DOMAIN result : \E p \in Places : ConfigAt(p) = result[i].config
            BY DEF OnlyMeant
        <3> QED BY <2>1, <2>3, <3>1, <3>2
    <2> QED BY <1>2, <2>4 DEF OnlyMeant
<1>4. CASE Skip \/ ApplyUrl \/ LoseToken \/ ApplyToken \/ Return
    <2>1. result' = result BY <1>4 DEF Skip, ApplyUrl, LoseToken, ApplyToken, Return
    <2> QED BY <1>2, <2>1 DEF OnlyMeant
<1> QED BY <1>3, <1>4 DEF Next

-----------------------------------------------------------------------------
(* The order                                                               *)

\* Every config of the list is that of a place behind.
Ordered ==
    Plain => \A j \in DOMAIN result : \E p \in Places : ConfigAt(p) = result[j].config /\ Behind(p)

\* What a step adds has a place behind the calls.
LEMMA NextOrdered ==
    ASSUME TypeOK, TypeOK', OpenedOnce, Rests, Linked, Fetched, Ordered, Next, Plain'
    PROVE  Ordered'
<1>1. world' = world /\ Plain BY StepShape, PlainBefore
<1>2. Places' = Places /\ \A p : ConfigAt(p)' = ConfigAt(p) BY <1>1, SamePlaces
<1>3. \A j \in DOMAIN result : \E p \in Places : ConfigAt(p) = result[j].config /\ Behind(p)'
    BY <1>1, BehindStays DEF Ordered
<1>4. CASE ApplyConfig \/ AddFetched
    <2>1. PICK c \in Config, x \in Token \cup {NoToken}, e \in BOOLEAN :
              /\ Show(c, x, e)
              /\ \E p \in Places : ConfigAt(p) = c /\ (~truncated => Behind(p)')
        BY <1>4, ShownPlace
    <2>2. PICK n : n = Len(result) OBVIOUS
    <2>3. /\ n \in Nat /\ DOMAIN result = 1 .. n
          /\ \/ c \in Shown /\ result' = result
             \/ /\ c \notin Shown
                /\ Len(result') = n + 1 /\ DOMAIN result' = 1 .. n + 1
                /\ \A i \in 1 .. n : result'[i] = result[i]
                /\ result'[n + 1] = [config |-> c, comment |-> x, external |-> e]
        BY <2>1, <2>2, ShownEntry
    <2>4. PICK p \in Places : ConfigAt(p) = c /\ Behind(p)' BY <1>1, <2>1 DEF Plain, Whole
    <2>5. \A j \in DOMAIN result' : \E r \in Places : ConfigAt(r) = result'[j].config /\ Behind(r)'
        <3>1. CASE result' = result BY <1>3, <3>1
        <3>2. CASE /\ DOMAIN result' = 1 .. n + 1
                   /\ \A i \in 1 .. n : result'[i] = result[i]
                   /\ result'[n + 1] = [config |-> c, comment |-> x, external |-> e]
            <4>1. \A i \in 1 .. n + 1 : i # n + 1 => i \in 1 .. n BY <2>3
            <4>2. result'[n + 1].config = c BY <3>2
            <4> QED BY <1>3, <2>3, <2>4, <3>2, <4>1, <4>2
        <3> QED BY <2>3, <3>1, <3>2
    <2> QED BY <1>2, <2>5 DEF Ordered
<1>5. CASE Skip \/ ApplyUrl \/ LoseToken \/ ApplyToken \/ Return
    <2>1. result' = result BY <1>5 DEF Skip, ApplyUrl, LoseToken, ApplyToken, Return
    <2> QED BY <1>2, <1>3, <2>1 DEF Ordered
<1> QED BY <1>4, <1>5 DEF Next

\* A config that is new has no place behind, so all of its places come after
\* some place of each config of the list.
LEMMA NextOrderPreserved ==
    ASSUME TypeOK, OpenedOnce, Rests, Linked, Fetched, Swept, Ordered, OrderPreserved, Next, Plain'
    PROVE  OrderPreserved'
<1>1. world' = world /\ Plain BY StepShape, PlainBefore
<1>2. Places' = Places /\ \A p : ConfigAt(p)' = ConfigAt(p) BY <1>1, SamePlaces
<1>3. \A j \in DOMAIN result : \A q \in Places : ConfigAt(q) = result[j].config =>
          \A i \in 1 .. j - 1 : \E p \in Places : ConfigAt(p) = result[i].config /\ Before(p, q)
    BY <1>1 DEF OrderPreserved, Plain
<1>4. CASE ApplyConfig \/ AddFetched
    <2>1. PICK c \in Config, x \in Token \cup {NoToken}, e \in BOOLEAN : Show(c, x, e)
        BY <1>4, ShownPlace
    <2>2. PICK n : n = Len(result) OBVIOUS
    <2>3. /\ n \in Nat /\ DOMAIN result = 1 .. n
          /\ \/ c \in Shown /\ result' = result
             \/ /\ c \notin Shown
                /\ Len(result') = n + 1 /\ DOMAIN result' = 1 .. n + 1
                /\ \A i \in 1 .. n : result'[i] = result[i]
                /\ result'[n + 1] = [config |-> c, comment |-> x, external |-> e]
        BY <2>1, <2>2, ShownEntry
    <2>4. \A j \in DOMAIN result' : \A q \in Places : ConfigAt(q) = result'[j].config =>
              \A i \in 1 .. j - 1 :
                  \E p \in Places : ConfigAt(p) = result'[i].config /\ Before(p, q)
        <3>1. CASE result' = result BY <1>3, <3>1
        <3>2. CASE /\ c \notin Shown
                   /\ DOMAIN result' = 1 .. n + 1
                   /\ \A i \in 1 .. n : result'[i] = result[i]
                   /\ result'[n + 1] = [config |-> c, comment |-> x, external |-> e]
            <4>1. ASSUME NEW q \in Places, ConfigAt(q) = c, NEW i \in 1 .. n
                  PROVE  \E p \in Places : ConfigAt(p) = result[i].config /\ Before(p, q)
                <5>1. ~Behind(q) BY <1>1, <3>2, <4>1, AllShown
                <5>2. PICK p \in Places : ConfigAt(p) = result[i].config /\ Behind(p)
                    BY <1>1, <2>3 DEF Ordered
                <5> QED BY <5>1, <5>2, BehindBefore
            <4>2. ASSUME NEW j \in 1 .. n + 1, NEW q \in Places, ConfigAt(q) = result'[j].config,
                         NEW i \in 1 .. j - 1
                  PROVE  \E p \in Places : ConfigAt(p) = result'[i].config /\ Before(p, q)
                <5>1. i \in 1 .. n BY <2>3
                <5>2. CASE j = n + 1
                    <6>1. ConfigAt(q) = c BY <3>2, <4>2, <5>2
                    <6> QED BY <3>2, <4>1, <5>1, <6>1
                <5>3. CASE j # n + 1
                    <6>1. j \in 1 .. n BY <2>3, <5>3
                    <6>2. result'[j] = result[j] /\ result'[i] = result[i] BY <3>2, <5>1, <6>1
                    <6>3. ConfigAt(q) = result[j].config BY <4>2, <6>2
                    <6> QED BY <1>3, <2>3, <6>1, <6>2, <6>3
                <5> QED BY <5>2, <5>3
            <4> QED BY <3>2, <4>2
        <3> QED BY <2>3, <3>1, <3>2
    <2> QED BY <1>2, <2>4 DEF OrderPreserved
<1>5. CASE Skip \/ ApplyUrl \/ LoseToken \/ ApplyToken \/ Return
    <2>1. result' = result BY <1>5 DEF Skip, ApplyUrl, LoseToken, ApplyToken, Return
    <2> QED BY <1>2, <1>3, <2>1 DEF OrderPreserved
<1> QED BY <1>4, <1>5 DEF Next

\* When no call is left, every place is behind.
LEMMA EndNothingMissed ==
    ASSUME TypeOK, OpenedOnce, Rests, Linked, Fetched, Swept
    PROVE  NothingMissed
<1>1. SUFFICES ASSUME Ended, Plain, NEW p \in Places PROVE ConfigAt(p) \in Shown
    BY DEF NothingMissed, Plain
<1>2. Behind(p) BY <1>1 DEF Behind, Ended, Running
<1> QED BY <1>1, <1>2, AllShown

-----------------------------------------------------------------------------
(* The theorems                                                            *)

\* TypeOK needs WithinLimit: a batch that is cut to the room there is is a
\* sequence only if there is no less than none.
IInv == TypeOK /\ WithinLimit /\ NoDuplicates /\ OpenedOnce

\* Where the calls and the batch stand.
Standing == Rests /\ Linked /\ Fetched

\* What has been shown so far, and what has been dealt with.
Progress == OnlyMeant /\ Labels /\ Swept /\ Ordered /\ OrderPreserved

LEMMA InitIInv == Init => IInv
<1> SUFFICES ASSUME Init PROVE IInv OBVIOUS
<1>1. TypeOK BY InitTypes
<1>2. Len(result) = 0 /\ Len(batch) = 0 /\ DOMAIN result = {} BY DEF Init
<1>3. MaxConfigs \in Nat /\ MaxDepth \in Nat BY ResolverAssumption
<1>4. /\ Len(stack) = 1 /\ DOMAIN stack = 1 .. 1
      /\ stack[1].token = Root /\ resolved = {Root}
    BY DEF Init
<1>5. WithinLimit /\ NoDuplicates BY <1>2, <1>3 DEF WithinLimit, NoDuplicates
<1>6. OpenedOnce BY <1>3, <1>4 DEF OpenedOnce
<1> QED BY <1>1, <1>5, <1>6 DEF IInv

LEMMA InitStanding == Init => Standing
<1> SUFFICES ASSUME Init PROVE Standing OBVIOUS
<1>1. TypeOK BY InitTypes
<1>2. /\ Len(stack) = 1 /\ DOMAIN stack = 1 .. 1
      /\ stack[1].token = Root /\ stack[1].rest = Body(Root)
      /\ batch = <<>>
    BY DEF Init
<1>3. Len(Body(Root)) \in Nat
    BY <1>1, BodyType, LenProperties, ResolverAssumption DEF TypeOK
<1>4. Rests BY <1>2, <1>3, WholeEnds DEF Rests
<1>5. Linked /\ Fetched BY <1>2 DEF Linked, Fetched
<1> QED BY <1>4, <1>5 DEF Standing

\* Nothing is shown, and nothing is behind.
LEMMA InitProgress == Init => Progress
<1> SUFFICES ASSUME Init PROVE Progress OBVIOUS
<1>1. TypeOK /\ Standing BY InitTypes, InitStanding
<1>2. /\ Len(stack) = 1 /\ DOMAIN stack = 1 .. 1
      /\ stack[1].token = Root /\ stack[1].rest = Body(Root)
      /\ resolved = {Root} /\ DOMAIN result = {}
    BY DEF Init
<1>3. Root \in Token /\ Root # NoToken BY ResolverAssumption
<1>4. OnlyMeant /\ Ordered /\ OrderPreserved
    BY <1>2 DEF OnlyMeant, Ordered, OrderPreserved
<1>5. Labels
    <2>1. \A t \in Token : world.labels[t] \subseteq Config BY <1>1 DEF TypeOK, WorldType
    <2>2. \A c \in Config : Root \in world.present /\ c \in world.labels[Root] => comments[c] = Root
        BY DEF Init
    <2> QED BY <1>2, <1>3, <2>1, <2>2 DEF Labels
<1>6. Path[1] = Root /\ Course[1] = 0
    <2>1. Len(Body(Root)) \in Nat
        BY <1>1, <1>3, BodyType, LenProperties DEF TypeOK
    <2>2. Done(1) = 0 BY <1>2, <2>1 DEF Done
    <2> QED BY <1>2, <2>2 DEF Path, Course
<1>7. Shows(Root) \subseteq Nat \ {0} BY <1>1, <1>3, ShowsType
<1>8. Handled
    <2>1. Top.token = Root /\ Done(Len(stack)) = 0
        BY <1>2, <1>6 DEF Top, Last, Course
    <2> QED BY <1>7, <2>1 DEF Handled
<1>9. \E old \in [1 .. Len(stack) + 1 -> SUBSET resolved] :
          old[Len(stack) + 1] = resolved /\ Sweep(Len(stack), Path, Course, Shown, old)
    <2> DEFINE old == [i \in 1 .. 2 |-> IF i = 2 THEN resolved ELSE {}]
    <2>1. old \in [1 .. 1 + 1 -> SUBSET resolved] /\ old[1 + 1] = resolved /\ old[1] = {}
        OBVIOUS
    <2> HIDE DEF old
    <2>2. ASSUME NEW i \in 1 .. 1 + 1, NEW t \in old[i], \A j \in 1 .. i - 1 : Path[j] # t
          PROVE  FALSE
        <3>1. i = 2 /\ t = Root BY <1>2, <2>1, <2>2
        <3> QED BY <1>6, <2>2, <3>1
    <2>3. \A i \in 1 .. 1 : \A k \in Shows(Path[i]) : ~(k < Course[i]) BY <1>6, <1>7
    <2>4. Sweep(1, Path, Course, Shown, old) BY <2>2, <2>3 DEF Sweep
    <2> QED BY <1>2, <2>1, <2>4
<1>10. Swept BY <1>2, <1>8, <1>9 DEF Swept
<1> QED BY <1>4, <1>5, <1>10 DEF Progress

LEMMA NextIInv == IInv /\ [Next]_vars => IInv'
BY NextTypes, NextWithinLimit, NextNoDuplicates, NextOpenedOnce DEF IInv

LEMMA NextStanding == IInv /\ Standing /\ [Next]_vars => Standing'
<1> SUFFICES ASSUME IInv, Standing, [Next]_vars PROVE Standing' OBVIOUS
<1>1. CASE Next
    <2>1. Rests' /\ Linked' /\ Fetched'
        BY <1>1, StepShape, NextLinked, NextFetched DEF IInv, Standing
    <2> QED BY <2>1 DEF Standing
<1>2. CASE UNCHANGED vars
    <2>1. Rests' = Rests BY <1>2 DEF vars, Rests, Body
    <2>2. Linked' = Linked BY <1>2 DEF vars, Linked, Running, Done, Body, Visible, Refers
    <2>3. Fetched' = Fetched
        BY <1>2 DEF vars, Fetched, Running, Top, Depth, Done, Body, Visible, Offer
    <2> QED BY <2>1, <2>2, <2>3 DEF Standing
<1> QED BY <1>1, <1>2

LEMMA NextProgress == IInv /\ Standing /\ Progress /\ [Next]_vars => Progress'
<1> SUFFICES ASSUME IInv, Standing, Progress, [Next]_vars PROVE Progress' OBVIOUS
<1>1. IInv' /\ Standing' BY NextIInv, NextStanding
<1>2. CASE Next
    <2>1. OnlyMeant' /\ Labels'
        BY <1>2, NextOnlyMeant, NextLabels DEF IInv, Standing, Progress
    <2>2. Swept'
        <3>1. CASE Plain' BY <1>1, <1>2, <3>1, NextSwept DEF IInv, Standing, Progress
        <3>2. CASE ~Plain'
            <4>1. resolved \subseteq resolved'
                BY <1>2, StepShape DEF IInv, Standing, Skip, ApplyConfig, ApplyUrl, AddFetched,
                                       LoseToken, Return
            <4> QED BY <3>2, <4>1 DEF Progress, Swept
        <3> QED BY <3>1, <3>2
    <2>3. Ordered'
        <3>1. CASE Plain' BY <1>1, <1>2, <3>1, NextOrdered DEF IInv, Standing, Progress
        <3>2. CASE ~Plain' BY <3>2 DEF Ordered
        <3> QED BY <3>1, <3>2
    <2>4. OrderPreserved'
        <3>1. CASE Plain' BY <1>2, <3>1, NextOrderPreserved DEF IInv, Standing, Progress
        <3>2. CASE ~Plain' BY <3>2 DEF OrderPreserved, Plain
        <3> QED BY <3>1, <3>2
    <2> QED BY <2>1, <2>2, <2>3, <2>4 DEF Progress
<1>3. CASE UNCHANGED vars
    <2>1. world' = world /\ UNCHANGED vars BY <1>3 DEF vars
    <2>2. Places' = Places /\ \A p : ConfigAt(p)' = ConfigAt(p) BY <2>1, SamePlaces
    <2>3. \A i : Done(i)' = Done(i) BY <2>1 DEF vars, Done, Body
    <2>4. Done(Len(stack))' = Done(Len(stack)) BY <2>1 DEF vars, Done, Body
    <2>5. (Top.token)' = Top.token BY <2>1 DEF vars, Top
    <2>6. Given' = Given BY <2>1, <2>4, <2>5, SameWorld DEF vars, Given
    <2>7. Shown' = Shown /\ Path' = Path /\ Running' = Running BY <2>1 DEF vars, Shown, Path, Running
    <2>8. Course' = Course BY <2>1, <2>3 DEF vars, Course
    <2>9. Plain' = Plain BY <2>1, SweepWorld DEF vars, Plain, Whole
    <2>10. Handled' = Handled
        BY <2>1, <2>4, <2>5, <2>6, <2>7, SameWorld, SweepWorld DEF vars, Handled
    <2>11. \A old : Sweep(Len(stack), Path, Course, Shown, old)' = Sweep(Len(stack), Path, Course, Shown, old)
        BY <2>1, <2>7, <2>8, SweepWorld DEF vars
    <2>12. Swept' BY <2>1, <2>9, <2>10, <2>11 DEF vars, Swept, Progress
    <2>13. \A p : Behind(p)' = Behind(p) BY <2>1, <2>3, <2>6, <2>7 DEF vars, Behind
    <2>14. Ordered' BY <2>1, <2>2, <2>9, <2>13 DEF vars, Ordered, Progress
    <2>15. OnlyMeant' BY <2>1, <2>2 DEF vars, OnlyMeant, Progress
    <2>16. Labels' BY <2>1 DEF vars, Labels, Progress
    <2>17. OrderPreserved' BY <2>1, <2>2, <2>9 DEF vars, OrderPreserved, Plain, Progress
    <2> QED BY <2>12, <2>14, <2>15, <2>16, <2>17 DEF Progress
<1> QED BY <1>2, <1>3

LEMMA AlwaysIInv == Spec => []IInv
BY InitIInv, NextIInv, PTL DEF Spec

LEMMA AlwaysStanding == Spec => []Standing
BY InitStanding, NextStanding, AlwaysIInv, PTL DEF Spec

LEMMA AlwaysProgress == Spec => []Progress
BY InitProgress, NextProgress, AlwaysIInv, AlwaysStanding, PTL DEF Spec

\* _resolve_recursive keeps its accumulator well-typed on every world.
THEOREM TypeCorrect == Spec => []TypeOK
<1>1. IInv => TypeOK BY DEF IInv
<1> QED BY <1>1, AlwaysIInv, PTL

\* A resolved list has no config twice, whatever the graph and the sites repeat.
THEOREM ListOfOnce == Spec => []NoDuplicates
<1>1. IInv => NoDuplicates BY DEF IInv
<1> QED BY <1>1, AlwaysIInv, PTL

\* A resolved list never exceeds max_configs_per_subscription.
THEOREM ListWithinLimit == Spec => []WithinLimit
<1>1. IInv => WithinLimit BY DEF IInv
<1> QED BY <1>1, AlwaysIInv, PTL

\* On every graph, cyclic ones too, the calls are no deeper than the limit and
\* no subscription is open twice.
THEOREM NoReentry == Spec => []OpenedOnce
<1>1. IInv => OpenedOnce BY DEF IInv
<1> QED BY <1>1, AlwaysIInv, PTL

\* A resolved list shows no config but those that some route of references
\* brings to the root's clients: the calls under way are such a route.
THEOREM ShowsOnlyMeant == Spec => []OnlyMeant
<1>1. Progress => OnlyMeant BY DEF Progress
<1> QED BY <1>1, AlwaysProgress, PTL

\* A list that is whole has its configs in the order of their first places,
\* though a subscription is resolved at its first place only: what is behind is
\* shown, so a config that is new has all of its places ahead.
THEOREM KeepsOrder == Spec => []OrderPreserved
<1>1. Progress => OrderPreserved BY DEF Progress
<1> QED BY <1>1, AlwaysProgress, PTL

\* A list that is whole when the resolution has ended misses no config that the
\* subscription means, cyclic and shared references included.
THEOREM MissesNothing == Spec => []NothingMissed
<1>1. IInv /\ Standing /\ Progress => NothingMissed
    BY EndNothingMissed DEF IInv, Standing, Progress
<1> QED BY <1>1, AlwaysIInv, AlwaysStanding, AlwaysProgress, PTL

\* A config source shows the root's comment if there is one, and no comment only
\* if no subscription entered has one.
THEOREM RootCommentFirst == Spec => CommentPrecedence
<1>1. IInv /\ Standing /\ Progress /\ [Next]_vars => [CommentRule]_vars
    BY CommentStep DEF IInv, Standing, Progress
<1>2. Spec => [][CommentRule]_vars
    BY <1>1, AlwaysIInv, AlwaysStanding, AlwaysProgress, PTL DEF Spec
<1> QED BY <1>2 DEF CommentPrecedence, CommentRule

\* Every step of a resolution leaves less to do, at one of the levels or in the
\* batch, so that no graph keeps _resolve_recursive going for ever.
THEOREM EveryStepDescends == Spec => Descends
<1>1. IInv /\ IInv' /\ Standing /\ [Next]_vars => [Descent]_vars
    BY DescentStep DEF IInv, Standing
<1>2. Spec => [][Descent]_vars
    BY <1>1, AlwaysIInv, AlwaysStanding, PTL DEF Spec
<1> QED BY <1>2 DEF Descends, Descent

=============================================================================
