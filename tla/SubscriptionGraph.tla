--------------------------- MODULE SubscriptionGraph ---------------------------
(***************************************************************************)
(* Subscriptions that refer to subscriptions: the INTERNAL_TOKEN rows of   *)
(* the sources table as a graph, and the requests that change it.          *)
(*                                                                         *)
(* A reference is checked before it is stored.  _check_circular_reference  *)
(* walks the graph depth first from the target, one query per subscription *)
(* it expands, and another request may commit between two queries; the     *)
(* step of this module is one query.  The rows of a request are flushed as *)
(* they are accepted but show to others, and are locked against others,    *)
(* until its commit, so they are written in one step here.                 *)
(*                                                                         *)
(* Left out: sources that are no references, two URLs that name one token, *)
(* and who may change which subscription (ProviderAuth).  The code lets a  *)
(* subscription refer to any other one.                                    *)
(***************************************************************************)
EXTENDS Integers, FiniteSets, Sequences

CONSTANTS
    Token,          \* subscription tokens; none is used twice
    Request,        \* slots for the requests in flight at one time
    MaxNesting,     \* settings.max_nesting_depth
    MaxBatch        \* bound: references in one request

ASSUME GraphAssumption == MaxNesting \in Nat /\ MaxBatch \in Nat

VARIABLES
    status,     \* status[t]: the row of subscriptions for token t
    refs,       \* <<s, t>>: s has a source whose internal_token is t
    req         \* req[r]: the request in slot r, or Idle

vars == <<status, refs, req>>

\* "wiped" rows went with their account or with a bulk delete of their provider.
Status == {"unborn", "live", "deleted", "wiped"}
Live == {t \in Token : status[t] = "live"}

Succ(x) == {y \in Token : <<x, y>> \in refs}
Closed(C) == \A x \in C : Succ(x) \subseteq C

\* A frame of the walk: a subscription and its references not yet followed.
Frame == [node : Token, rest : SUBSET Token]
Idle == [pc |-> "idle"]
Active == [pc : {"prune", "next", "check", "refused"}, op : {"create", "add", "replace"},
           s : Token,
           loaded : SUBSET Token,   \* the references of s in the identity map
           todo : SUBSET Token,     \* the targets still to be checked
           target : Token,          \* the target of the current or last check
           done : SUBSET Token,     \* the targets that passed
           stack : Seq(Frame),      \* the calls of the walk under way
           memo : [Token -> -1 .. MaxNesting]]  \* checked; -1: no entry

TypeOK ==
    /\ status \in [Token -> Status]
    /\ refs \subseteq Token \X Token
    /\ req \in [Request -> {Idle} \cup Active]

Init ==
    /\ status = [t \in Token |-> "unborn"]
    /\ refs = {}
    /\ req = [r \in Request |-> Idle]

NoMemo == [t \in Token |-> -1]
Finish(r) == req' = [req EXCEPT ![r] = Idle]

-----------------------------------------------------------------------------
(* Requests that take several steps.                                       *)

\* No two requests draw the same token.
Fresh(s) ==
    /\ status[s] = "unborn"
    /\ \A r \in Request : req[r] # Idle => req[r].s # s

\* POST of a subscription, POST and PUT of its sources.  get_managed_subscription
\* loads the subscription with its sources.
Submit(r) ==
    /\ req[r] = Idle
    /\ \E s \in Token, T \in SUBSET Token, op \in {"create", "add", "replace"} :
          /\ IF op = "create" THEN Fresh(s) /\ s \notin T ELSE s \in Live
          /\ Cardinality(T) <= MaxBatch
          /\ req' = [req EXCEPT ![r] =
                [pc |-> IF op = "replace" /\ ~(Succ(s) \subseteq T) THEN "prune" ELSE "next",
                 op |-> op, s |-> s, loaded |-> Succ(s), todo |-> T, target |-> s,
                 done |-> {}, stack |-> <<>>, memo |-> NoMemo]]
    /\ UNCHANGED <<status, refs>>

\* replace_sources: the references that are not wanted go first, in a
\* transaction of their own (remove_sources), and the sources are read again.
Prune(r) ==
    LET q == req[r]
    IN  /\ q.pc = "prune"
        /\ IF q.s \in Live
           THEN /\ refs' = refs \ ({q.s} \X (q.loaded \ q.todo))
                /\ req' = [req EXCEPT ![r].pc = "next",
                               ![r].loaded = Succ(q.s) \ (q.loaded \ q.todo)]
           ELSE /\ Finish(r)
                /\ UNCHANGED refs
        /\ UNCHANGED status

\* _add_internal_source: the target must exist; then it is walked.
Open(r) ==
    LET q == req[r]
    IN  /\ q.pc = "next"
        /\ \E t \in q.todo :
              req' = IF t \in Live
                     THEN [req EXCEPT ![r].pc = "check", ![r].todo = @ \ {t}, ![r].target = t,
                               ![r].stack = <<[node |-> q.s, rest |-> {t}]>>,
                               ![r].memo = NoMemo]
                     ELSE [req EXCEPT ![r].pc = "refused", ![r].target = t]
        /\ UNCHANGED <<status, refs>>

-----------------------------------------------------------------------------
(* _check_circular_reference, one call of it at a time.  The stack holds    *)
(* the calls under way: its nodes are the tokens of visited, the first one  *)
(* the subscription that is changed.                                        *)

Top(q) == q.stack[Len(q.stack)]
Visited(q) == {q.stack[i].node : i \in 1 .. Len(q.stack)}

\* The depth of the call that follows a reference of the top frame, and what
\* it has left of max_depth.
Depth(q) == Len(q.stack) - 1
Budget(q) == MaxNesting - Depth(q)

\* A mutant of the depth test: >= for >.
RaisesEarly(q, c) == Depth(q) >= MaxNesting \/ c \in Visited(q)

\* A mutant without the visited test.
RaisesTooDeep(q, c) == Depth(q) > MaxNesting

\* A call raises NestingTooDeepError or CircularReferenceError.
Raises(q, c) == Depth(q) > MaxNesting \/ c \in Visited(q)

\* The memo answers for a call that has no more budget left than the entry.
Memoised(q, c) == q.memo[c] >= Budget(q)

\* The next call of the walk, for any order of the sources.
Follow(r) ==
    LET q == req[r]
        n == Len(q.stack)
    IN  /\ q.pc = "check"
        /\ \E c \in Top(q).rest :
              LET popped == [q.stack EXCEPT ![n].rest = @ \ {c}]
              IN  req' = IF Raises(q, c)
                         THEN [req EXCEPT ![r].pc = "refused"]
                         ELSE IF Memoised(q, c)
                         THEN [req EXCEPT ![r].stack = popped]
                         ELSE [req EXCEPT ![r].stack =
                                   Append(popped, [node |-> c, rest |-> Succ(c)])]
        /\ UNCHANGED <<status, refs>>

\* A mutant that notes the budget of the caller.
ReturnCallersBudget(r) ==
    LET q == req[r]
        n == Len(q.stack)
    IN  /\ q.pc = "check"
        /\ n > 1
        /\ Top(q).rest = {}
        /\ req' = [req EXCEPT ![r].stack = SubSeq(q.stack, 1, n - 1),
                              ![r].memo[Top(q).node] = MaxNesting - (n - 3)]
        /\ UNCHANGED <<status, refs>>

\* A call returns: its subtree is noted with the budget the call had.
Return(r) ==
    LET q == req[r]
        n == Len(q.stack)
    IN  /\ q.pc = "check"
        /\ n > 1
        /\ Top(q).rest = {}
        /\ req' = [req EXCEPT ![r].stack = SubSeq(q.stack, 1, n - 1),
                              ![r].memo[Top(q).node] = MaxNesting - (n - 2)]
        /\ UNCHANGED <<status, refs>>

Pass(r) ==
    LET q == req[r]
    IN  /\ q.pc = "check"
        /\ Len(q.stack) = 1
        /\ Top(q).rest = {}
        /\ req' = [req EXCEPT ![r].pc = "next", ![r].done = @ \cup {q.target},
                              ![r].stack = <<>>]
        /\ UNCHANGED <<status, refs>>

-----------------------------------------------------------------------------
(* The end of a request.                                                    *)

\* The rows of the request are written.  An UPDATE of a reference that was
\* loaded and is gone fails, and so does an INSERT for a subscription that is.
Commit(r) ==
    LET q == req[r]
    IN  /\ q.pc = "next"
        /\ q.todo = {}
        /\ IF q.op = "create" THEN q.s \notin Live
                              ELSE q.s \in Live /\ q.done \cap q.loaded \subseteq Succ(q.s)
        /\ status' = [status EXCEPT ![q.s] = "live"]
        /\ refs' = refs \cup ({q.s} \X q.done)
        /\ Finish(r)

\* An error, a failed write or a lost client: the open transaction is undone.
Abort(r) ==
    /\ req[r] # Idle
    /\ Finish(r)
    /\ UNCHANGED <<status, refs>>

-----------------------------------------------------------------------------
(* Requests of one transaction.  They take a free slot for their one step.  *)

\* remove_sources
Remove(r) ==
    /\ req[r] = Idle
    /\ \E s \in Live, T \in SUBSET Token : refs' = refs \ ({s} \X T)
    /\ UNCHANGED <<status, req>>

\* A mutant that leaves the references to a deleted subscription.
DeleteKeepingReferences(r) ==
    /\ req[r] = Idle
    /\ \E s \in Live :
          /\ status' = [status EXCEPT ![s] = "deleted"]
          /\ refs' = {e \in refs : e[1] # s}
    /\ UNCHANGED req

\* delete_subscription, with delete_internal_references
Delete(r) ==
    /\ req[r] = Idle
    /\ \E s \in Live :
          /\ status' = [status EXCEPT ![s] = "deleted"]
          /\ refs' = {e \in refs : s \notin {e[1], e[2]}}
    /\ UNCHANGED req

\* The subscriptions of one account, or of one provider for a user, go in bulk.
\* Any set of live subscriptions may be the ones of one owner.
Wipe(r) ==
    /\ req[r] = Idle
    /\ \E S \in SUBSET Live :
          /\ status' = [t \in Token |-> IF t \in S THEN "wiped" ELSE status[t]]
          /\ refs' = {e \in refs : e[1] \notin S}
    /\ UNCHANGED req

Walk(r) == Follow(r) \/ Return(r) \/ Pass(r)
Handle(r) == Prune(r) \/ Open(r) \/ Walk(r) \/ Commit(r)
OneStep(r) == Remove(r) \/ Delete(r) \/ Wipe(r)

Next == \E r \in Request : Submit(r) \/ Handle(r) \/ Abort(r) \/ OneStep(r)

Spec == Init /\ [][Next]_vars

-----------------------------------------------------------------------------
(* What the documentation says.                                             *)

\* subscription_service.py:70: no circular references.  A subscription is on no
\* cycle when some set holds all it refers to, is closed, and leaves it out.
\* It holds while requests do not overlap (one slot).
Acyclic ==
    \A x \in Token : \E C \in SUBSET Token :
        Succ(x) \subseteq C /\ Closed(C) /\ x \notin C

\* delete_subscription clears the references to what it deletes: a reference
\* whose target is gone names a subscription that went with its owner.
DanglingOnlyWiped ==
    \A e \in refs : e[1] \in Live /\ status[e[2]] \in {"live", "wiped"}

\* The chains of n references that start at t.
Chains(t, n) ==
    {p \in [0 .. n -> Token] : p[0] = t /\ \A i \in 1 .. n : p[i] \in Succ(p[i - 1])}

\* No chain of references from t is longer than the service allows.
WithinDepth(t) == Chains(t, MaxNesting + 1) = {}

Reaches(t, s) == \E n \in 0 .. MaxNesting : \E p \in Chains(t, n) : p[n] = s

\* A reference is refused for a reason: its target is gone, or a chain of
\* references from the target comes back or is longer than allowed.
RefusedForReason ==
    \A r \in Request : req[r].pc = "refused" =>
        LET q == req[r]
        IN  q.target \in Live => Reaches(q.target, q.s) \/ ~WithinDepth(q.target)

\* subscription_service.py:1108: a memoized result is reused only if it covers
\* the budget, so that NestingTooDeepError still fires: a target that passes
\* the check has no chain longer than the limit.
PassedWithinDepth ==
    \A r \in Request :
        req[r].pc = "next" => \A t \in req[r].done : WithinDepth(t)

=============================================================================
