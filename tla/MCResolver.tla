------------------------------ MODULE MCResolver ------------------------------
(***************************************************************************)
(* The databases and sites of the resolver runs: a root and two            *)
(* subscriptions that may refer to each other, to the root, to one         *)
(* external URL and to configs, with hidden and depth-limited sources, and *)
(* a fourth one that only the second refers to.                            *)
(***************************************************************************)
EXTENDS Resolver

CONSTANTS a, b, d, c1, c2, c3, u

Of(kind, ref) == [kind |-> kind, ref |-> ref, hidden |-> FALSE, depth |-> MaxDepth]
Hide(s) == [s EXCEPT !.hidden = TRUE]
UpTo(s, n) == [s EXCEPT !.depth = n]

RootItems == {Of("config", c1), Hide(Of("config", c2)), Of("url", u), Of("token", a),
              Of("token", b), Hide(Of("token", b))}
AItems == {Hide(Of("config", c2)), UpTo(Of("config", c3), 1), Of("token", b), Of("url", u)}
BItems == {Of("config", c1), UpTo(Of("config", c3), 1), Of("token", a), Of("token", Root), Of("token", d)}
DItems == <<Of("token", a)>>

\* Lists of at most n items without two sources of one identity.
Lists(items, n) ==
    {s \in UNION {[1 .. k -> items] : k \in 0 .. n} :
        \A i, j \in DOMAIN s : s[i].ref = s[j].ref => i = j}

Own(list) == {s.ref : s \in {x \in ToSet(list) : x.kind = "config"}}

\* Content of the external URL, comments the root keeps beside those of its
\* configs, configs whose comment is an empty text, tokens whose comments cannot
\* be read, and tokens that name no subscription.
Oddity(z, kept, empty, unread, absent) ==
    [content |-> z, kept |-> kept, empty |-> empty, unread |-> unread, absent |-> absent]

Oddities == {Oddity(<<>>, {}, {c3}, {}, {}), Oddity(<<c3, c2, c3>>, {c2}, {c1}, {}, {}),
             Oddity(<<c1, c3>>, {}, {}, {b}, {d})}

MCWorld ==
    {[present |-> Token \ o.absent,
      sources |-> (Root :> r @@ a :> x @@ b :> y @@ d :> DItems),
      content |-> (u :> o.content),
      labels |-> (Root :> (Own(r) \cup o.kept) \ o.empty @@ a :> Own(x) @@ b :> Own(y) \ o.empty @@ d :> {}),
      unread |-> o.unread] :
        r \in Lists(RootItems, 2), x \in Lists(AItems, 2), y \in Lists(BItems, 2), o \in Oddities}

=============================================================================
