------------------------------- MODULE Resolver -------------------------------
(***************************************************************************)
(* ResolverService: one subscription is flattened into the list of configs *)
(* its clients see.  _resolve_recursive calls itself for every reference,  *)
(* in order_index order, on one accumulator: the configs so far, the       *)
(* tokens entered so far, the comments so far and two flags.  The calls    *)
(* under way are a stack here, and a step applies one source or, of an     *)
(* external source, one config.                                            *)
(*                                                                         *)
(* What the queries and fetches of the I/O phase return is in world.  A    *)
(* fetch that fails and content without configs are both the empty list; a *)
(* reference whose comments cannot be read is passed over.  The title of   *)
(* the result is left out.                                                 *)
(***************************************************************************)
EXTENDS Integers, FiniteSets, SequencesExt

CONSTANTS
    Token,          \* subscription tokens
    Config,         \* config hashes
    Url,            \* external URLs
    World,          \* the databases and sites a resolution may meet
    Root,           \* the subscription that is resolved
    MaxDepth,       \* settings.max_nesting_depth
    MaxConfigs,     \* settings.max_configs_per_subscription
    NoToken         \* stands for no comment

\* A source, in the order of its subscription's list.
Source ==
    [kind : {"config"}, ref : Config, hidden : BOOLEAN, depth : 0 .. MaxDepth] \cup
    [kind : {"url"}, ref : Url, hidden : BOOLEAN, depth : 0 .. MaxDepth] \cup
    [kind : {"token"}, ref : Token, hidden : BOOLEAN, depth : 0 .. MaxDepth]

\* present: the tokens that name a subscription; sources: its list by
\* order_index; content: the configs an external URL yields; labels: the
\* configs a subscription keeps a comment for; unread: the tokens whose comments
\* cannot be read.
WorldType == [present : SUBSET Token, sources : [Token -> Seq(Source)],
              content : [Url -> Seq(Config)], labels : [Token -> SUBSET Config],
              unread : SUBSET Token]

ASSUME ResolverAssumption ==
    /\ Root \in Token
    /\ NoToken \notin Token
    /\ MaxDepth \in Nat
    /\ MaxConfigs \in Nat \ {0}
    /\ World \subseteq WorldType

VARIABLES
    world,          \* what is stored and what the sites answer
    stack,          \* the calls of _resolve_recursive under way
    batch,          \* configs of the current external source still to be added
    resolved,       \* resolved_subscriptions
    result,         \* result.configs
    comments,       \* root_comment_map: whose comment a config gets
    truncated,      \* result.truncated
    tooDeep         \* result.depth_exceeded

vars == <<world, stack, batch, resolved, result, comments, truncated, tooDeep>>

\* A config of the result and whose comment it shows; one from an external
\* source shows the text that came with it.
Entry == [config : Config, comment : Token \cup {NoToken}, external : BOOLEAN]
Frame == [token : Token, rest : Seq(Source)]

TypeOK ==
    /\ world \in WorldType
    /\ stack \in Seq(Frame)
    /\ batch \in Seq(Config)
    /\ resolved \subseteq Token
    /\ result \in Seq(Entry)
    /\ comments \in [Config -> Token \cup {NoToken}]
    /\ truncated \in BOOLEAN
    /\ tooDeep \in BOOLEAN

-----------------------------------------------------------------------------

\* A mutant that applies the sources kind by kind.
BodyByKind(t) ==
    LET ofKind(k) == SelectSeq(world.sources[t], LAMBDA s : s.kind = k)
    IN  IF t \in world.present
        THEN ofKind("config") \o ofKind("url") \o ofKind("token")
        ELSE <<>>

\* What a call has to go through: nothing when the token names no subscription.
Body(t) == IF t \in world.present THEN world.sources[t] ELSE <<>>

\* A mutant that hides nothing from the clients of the root.
CountsHidden(s, d) == s.depth >= d

\* A mutant that hides from everyone what a subscription hides from its clients.
CountsPrivate(s, d) == s.depth >= d /\ ~s.hidden

\* A source counts at depth d: what is hidden is only hidden from the clients
\* of its own subscription.
Counts(s, d) == s.depth >= d /\ ~(d = 0 /\ s.hidden)

\* The comments of a nested subscription fill the gaps of those collected.
Labelled(t) ==
    [c \in Config |-> IF comments[c] = NoToken /\ t \in world.present /\ c \in world.labels[t]
                      THEN t ELSE comments[c]]

Init ==
    /\ world \in World
    /\ stack = <<[token |-> Root, rest |-> Body(Root)]>>
    /\ batch = <<>>
    /\ resolved = {Root}
    /\ result = <<>>
    /\ comments = [c \in Config |->
                      IF Root \in world.present /\ c \in world.labels[Root] THEN Root ELSE NoToken]
    /\ truncated = FALSE
    /\ tooDeep = FALSE

Running == stack # <<>>
Top == Last(stack)
Depth == Len(stack) - 1
Shown == {result[i].config : i \in DOMAIN result}
Full == Len(result) >= MaxConfigs

\* A source of the given kind is next, and there is room in the result.
AtSource(kind) ==
    /\ Running
    /\ batch = <<>>
    /\ Top.rest # <<>>
    /\ ~Full
    /\ Counts(Head(Top.rest), Depth)
    /\ Head(Top.rest).kind = kind

\* The stack once the head of the top call's list has been dealt with.
Popped == Append(Front(stack), [Top EXCEPT !.rest = Tail(@)])

\* A mutant that leaves a field of the entry out.
ShowBare(c, comment, external) ==
    result' = IF c \in Shown THEN result
              ELSE Append(result, [config |-> c, comment |-> comment])

\* A config goes to the end of the result unless it is there.
Show(c, comment, external) ==
    result' = IF c \in Shown THEN result
              ELSE Append(result, [config |-> c, comment |-> comment, external |-> external])

-----------------------------------------------------------------------------

\* A source that does not count is not among eligible_sources.
Skip ==
    /\ Running
    /\ batch = <<>>
    /\ Top.rest # <<>>
    /\ ~Counts(Head(Top.rest), Depth)
    /\ stack' = Popped
    /\ UNCHANGED <<world, batch, resolved, result, comments, truncated, tooDeep>>

\* _apply_config_source
ApplyConfig ==
    /\ AtSource("config")
    /\ LET c == Head(Top.rest).ref IN Show(c, comments[c], FALSE)
    /\ stack' = Popped
    /\ UNCHANGED <<world, batch, resolved, comments, truncated, tooDeep>>

\* A mutant that hands over all of the content.
TakeAll(content) == content

\* The part of the content there is room for, before duplicates are dropped.
Slice(content) ==
    IF Len(content) <= MaxConfigs - Len(result) THEN content
    ELSE SubSeq(content, 1, MaxConfigs - Len(result))

\* _apply_external_outcome
ApplyUrl ==
    /\ AtSource("url")
    /\ LET content == world.content[Head(Top.rest).ref]
       IN  /\ batch' = Slice(content)
           /\ truncated' = (truncated \/ Len(content) > MaxConfigs - Len(result))
    /\ stack' = Popped
    /\ UNCHANGED <<world, resolved, result, comments, tooDeep>>

\* A mutant that goes back to the loop without moving on.
AddFetchedStuck ==
    /\ Running
    /\ batch # <<>>
    /\ Show(Head(batch), NoToken, TRUE)
    /\ batch' = IF Head(batch) \in Shown THEN batch ELSE Tail(batch)
    /\ UNCHANGED <<world, stack, resolved, comments, truncated, tooDeep>>

AddFetched ==
    /\ Running
    /\ batch # <<>>
    /\ Show(Head(batch), NoToken, TRUE)
    /\ batch' = Tail(batch)
    /\ UNCHANGED <<world, stack, resolved, comments, truncated, tooDeep>>

\* A mutant that keeps no list of the subscriptions entered.
EnterAlways(t) ==
    /\ UNCHANGED resolved
    /\ stack' = Append(Popped, [token |-> t, rest |-> Body(t)])

\* A mutant that enters a token before it has moved on from the reference.
EnterFirst(t) ==
    IF t \in resolved
    THEN stack' = Popped /\ UNCHANGED resolved
    ELSE /\ resolved' = resolved \cup {t}
         /\ stack' = Append(stack, [token |-> t, rest |-> Body(t)])

\* The call for a token enters it, unless it was entered before.
Enter(t) ==
    IF t \in resolved
    THEN stack' = Popped /\ UNCHANGED resolved
    ELSE /\ resolved' = resolved \cup {t}
         /\ stack' = Append(Popped, [token |-> t, rest |-> Body(t)])

\* A mutant that lets a nested subscription's comments replace the others.
Overwrite(t) ==
    comments' = [c \in Config |->
        IF t \in world.present /\ c \in world.labels[t] THEN t ELSE comments[c]]

Merge(t) == comments' = Labelled(t)

\* _apply_internal_outcome, after an error of _fetch_internal_source_comments.
LoseToken ==
    /\ AtSource("token")
    /\ Head(Top.rest).ref \in world.unread
    /\ stack' = Popped
    /\ UNCHANGED <<world, batch, resolved, result, comments, truncated, tooDeep>>

\* _apply_internal_outcome and the head of the call it makes.
ApplyToken ==
    /\ AtSource("token")
    /\ Head(Top.rest).ref \notin world.unread
    /\ LET t == Head(Top.rest).ref
       IN  /\ Merge(t)
           /\ IF Depth + 1 > MaxDepth
              THEN /\ tooDeep' = TRUE
                   /\ stack' = Popped
                   /\ UNCHANGED resolved
              ELSE Enter(t) /\ UNCHANGED tooDeep
    /\ UNCHANGED <<world, batch, result, truncated>>

\* A call ends: its list is done, or the result is full.
Return ==
    /\ Running
    /\ batch = <<>>
    /\ Top.rest # <<>> => Full /\ Counts(Head(Top.rest), Depth)
    /\ truncated' = (truncated \/ Top.rest # <<>>)
    /\ stack' = Front(stack)
    /\ UNCHANGED <<world, batch, resolved, result, comments, tooDeep>>

Next == Skip \/ ApplyConfig \/ ApplyUrl \/ AddFetched \/ LoseToken \/ ApplyToken \/ Return

\* The event loop runs a handler that can go on, so a resolution goes on.
Spec == Init /\ [][Next]_vars /\ WF_vars(Next)

-----------------------------------------------------------------------------
(* Properties.                                                              *)

\* The list has no config twice, whatever the references and the sites repeat.
NoDuplicates ==
    \A i, j \in DOMAIN result : result[i].config = result[j].config => i = j

\* max_configs_per_subscription bounds the list, the batch included.
WithinLimit == Len(result) + Len(batch) <= MaxConfigs

\* No call is nested deeper than the limit, and no subscription is open twice:
\* that is what makes a resolution of a cyclic graph end.
OpenedOnce ==
    /\ Len(stack) <= MaxDepth + 1
    /\ \A i, j \in DOMAIN stack : stack[i].token = stack[j].token => i = j
    /\ \A i \in DOMAIN stack : stack[i].token \in resolved

\* The sources of t that show d levels below the root: what is hidden is only
\* hidden from the clients of its own subscription.
Visible(t, d) ==
    {k \in DOMAIN world.sources[t] : /\ t \in world.present
                                     /\ world.sources[t][k].depth >= d
                                     /\ d = 0 => ~world.sources[t][k].hidden}

\* Source k of x is a reference to t whose comments can be read.
Refers(x, k, t) ==
    /\ world.sources[x][k].kind = "token"
    /\ world.sources[x][k].ref = t
    /\ t \notin world.unread

\* The configs that source k of t offers itself.
Offer(t, k) ==
    LET s == world.sources[t][k]
    IN  CASE s.kind = "config" -> <<s.ref>>
          [] s.kind = "url" -> world.content[s.ref]
          [] OTHER -> <<>>

\* The chains of references from the root to a subscription at most MaxDepth
\* levels below it; a subscription is no part of itself.
Routes ==
    {v \in UNION {[1 .. n -> Token] : n \in 1 .. MaxDepth + 1} :
        /\ v[1] = Root
        /\ \A i \in 1 .. Len(v) - 1 : \E k \in Visible(v[i], i - 1) : Refers(v[i], k, v[i + 1])
        /\ IsInjective(v)}

\* The sources that lead along a route and end at one that offers configs.
Steps(v) ==
    {a \in [DOMAIN v -> UNION {DOMAIN world.sources[t] : t \in Token}] :
        /\ \A i \in DOMAIN v : a[i] \in Visible(v[i], i - 1)
        /\ \A i \in 1 .. Len(v) - 1 : Refers(v[i], a[i], v[i + 1])}

\* What a subscription means: the places where it offers a config, along every
\* route, with no memory of what was entered and no limit on their number.
Places ==
    UNION {UNION {{[via |-> v, at |-> a, item |-> m] :
                      m \in DOMAIN Offer(v[Len(v)], a[Len(v)])} : a \in Steps(v)} : v \in Routes}

ConfigAt(p) == Offer(p.via[Len(p.via)], p.at[Len(p.via)])[p.item]

\* The order of the places: that of the sources, references replaced by what
\* they stand for.
Before(p, q) ==
    \/ \E n \in DOMAIN p.at \cap DOMAIN q.at :
          p.at[n] < q.at[n] /\ \A i \in 1 .. n - 1 : p.at[i] = q.at[i]
    \/ p.at = q.at /\ p.item < q.item

\* The list shows nothing but what the subscription means: no source hidden
\* from its clients and none beyond its depth shows through.
OnlyMeant ==
    LET places == Places
    IN  \A i \in DOMAIN result : \E p \in places : ConfigAt(p) = result[i].config

Ended == stack = <<>>
Whole == ~truncated /\ ~tooDeep

\* Every source has the max_depth that schemas/base_models/sources.py:47 gives
\* one by default.
DepthByDefault == \A t \in Token : \A s \in ToSet(world.sources[t]) : s.depth = MaxDepth

\* CHANGELOG.md:24: the order of the sources is preserved across the kinds of
\* sources: a config stands behind another only if each of its places is
\* behind some place of the other.  The configs appear in the order of their
\* first places, though a subscription is resolved at its first place only.
OrderPreserved ==
    Whole /\ DepthByDefault =>
        LET places == Places
        IN  \A j \in DOMAIN result : \A q \in places :
                ConfigAt(q) = result[j].config =>
                    \A i \in 1 .. j - 1 :
                        \E p \in places : ConfigAt(p) = result[i].config /\ Before(p, q)

\* A list that is neither truncated nor cut at the depth limit has every config
\* that the subscription means, though a subscription that several routes reach
\* is resolved on the first of them only, and one whose limit is not the default
\* may miss some (EverythingMeant).
NothingMissed ==
    Ended /\ Whole /\ DepthByDefault => \A p \in Places : ConfigAt(p) \in Shown

\* A config source shows the comment of the root if there is one, and lacks a
\* comment only if no subscription entered so far has one for it.
CommentPrecedence ==
    [][\A i \in DOMAIN result' \ DOMAIN result : ~result'[i].external =>
          LET c == result'[i].config
          IN  /\ c \in world.labels[Root] => result'[i].comment = Root
              /\ (\E t \in resolved : t \in world.present /\ c \in world.labels[t]) =>
                     result'[i].comment # NoToken]_vars

\* What is left to do at a level of the recursion.
Work(i) == IF i \in DOMAIN stack THEN Len(stack[i].rest) + 1 ELSE 0

\* Every step leaves less to do: at some level, with no more above it, or in the
\* batch.  The levels are bounded, so no graph keeps a resolution going for
\* ever, cyclic ones included.
Descends ==
    [][\/ \E n \in 1 .. MaxDepth + 1 :
             Work(n)' < Work(n) /\ \A i \in 1 .. n - 1 : Work(i)' = Work(i)
       \/ /\ \A i \in 1 .. MaxDepth + 1 : Work(i)' = Work(i)
          /\ Len(batch') < Len(batch)]_vars

\* A resolution ends, on cyclic graphs too.
Terminates == <>Ended

\* models/source.py:90: max_depth is the nesting depth up to which a source
\* propagates.  A list that is neither truncated nor cut at the depth limit
\* shows every config that some route brings within its depth.
EverythingMeant == Ended /\ Whole => \A p \in Places : ConfigAt(p) \in Shown

=============================================================================
