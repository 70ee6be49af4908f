------------------------------ MODULE Directory ------------------------------
(***************************************************************************)
(* What the administrator's API promises about accounts, seen from         *)
(* outside: a user is known by the id of another system (Telegram), a      *)
(* provider by its name, and each id and each name stands for at most one  *)
(* account.  Every request takes effect at one instant.  Hashes, which are *)
(* drawn at random (uuid4), are never used twice.                          *)
(***************************************************************************)
EXTENDS FiniteSets

CONSTANTS UserId, UserHash, ProviderHash, Name

VARIABLES accounts,     \* accounts[id]: the account of id, a set of at most one
          brands,       \* brands[n]: the provider called n, a set of at most one
          spent,        \* the hashes drawn so far
          invited,      \* <<id, p>>: provider p holds an invite link for id
          connected     \* <<h, p>>: user h has an authorization row for p by invite

dirVars == <<accounts, brands, spent, invited, connected>>

Account == [hash : UserHash, active : BOOLEAN]
Brand == [hash : ProviderHash, owner : UserHash, active : BOOLEAN]

Known == UNION {{a.hash : a \in accounts[id]} : id \in UserId}
Serving == UNION {{b.hash : b \in brands[n]} : n \in Name}

Init ==
    /\ accounts = [id \in UserId |-> {}]
    /\ brands = [n \in Name |-> {}]
    /\ spent = {}
    /\ invited = {}
    /\ connected = {}

Enrol(id, h) ==
    /\ accounts[id] = {}
    /\ h \notin spent
    /\ accounts' = [accounts EXCEPT ![id] = {[hash |-> h, active |-> TRUE]}]
    /\ spent' = spent \cup {h}
    /\ UNCHANGED <<brands, invited, connected>>

SetAccount(id, a, on) ==
    /\ accounts[id] = {a}
    /\ accounts' = [accounts EXCEPT ![id] = {[a EXCEPT !.active = on]}]
    /\ UNCHANGED <<brands, spent, invited, connected>>

\* Whatever names the account goes with it.
Leave(id, a) ==
    /\ accounts[id] = {a}
    /\ accounts' = [accounts EXCEPT ![id] = {}]
    /\ brands' = [n \in Name |-> {b \in brands[n] : b.owner # a.hash}]
    /\ connected' = {c \in connected :
                        /\ c[1] # a.hash
                        /\ \A n \in Name : \A b \in brands[n] :
                               b.hash = c[2] => b.owner # a.hash}
    /\ UNCHANGED <<spent, invited>>

Register(n, p, h) ==
    /\ brands[n] = {}
    /\ p \notin spent
    /\ h \in Known
    /\ \A m \in Name : \A b \in brands[m] : b.owner # h
    /\ brands' = [brands EXCEPT ![n] = {[hash |-> p, owner |-> h, active |-> TRUE]}]
    /\ spent' = spent \cup {p}
    /\ UNCHANGED <<accounts, invited, connected>>

SetBrand(n, b, on) ==
    /\ brands[n] = {b}
    /\ brands' = [brands EXCEPT ![n] = {[b EXCEPT !.active = on]}]
    /\ UNCHANGED <<accounts, spent, invited, connected>>

Rename(n, m, b) ==
    /\ brands[n] = {b}
    /\ brands[m] = {}
    /\ brands' = [brands EXCEPT ![n] = {}, ![m] = {b}]
    /\ UNCHANGED <<accounts, spent, invited, connected>>

Close(n, b) ==
    /\ brands[n] = {b}
    /\ brands' = [brands EXCEPT ![n] = {}]
    /\ connected' = {c \in connected : c[2] # b.hash}
    /\ UNCHANGED <<accounts, spent, invited>>

\* A provider asks for a user who has no account: it gets a link for that id.
Invite(id, p) ==
    /\ accounts[id] = {}
    /\ p \in spent
    /\ invited' = invited \cup {<<id, p>>}
    /\ UNCHANGED <<accounts, brands, spent, connected>>

\* The holder of the id follows a link of the provider itself.
Redeem(id, a, p) ==
    /\ accounts[id] = {a}
    /\ p \in Serving
    /\ <<id, p>> \in invited
    /\ connected' = connected \cup {<<a.hash, p>>}
    /\ UNCHANGED <<accounts, brands, spent, invited>>

Forget(c) ==
    /\ connected' = connected \ {c}
    /\ UNCHANGED <<accounts, brands, spent, invited>>

Next ==
    \/ \E id \in UserId :
        \/ \E h \in UserHash : Enrol(id, h)
        \/ \E a \in Account :
            \/ \E on \in BOOLEAN : SetAccount(id, a, on)
            \/ Leave(id, a)
            \/ \E p \in ProviderHash : Redeem(id, a, p)
        \/ \E p \in ProviderHash : Invite(id, p)
    \/ \E n \in Name :
        \/ \E p \in ProviderHash, h \in UserHash : Register(n, p, h)
        \/ \E b \in Brand :
            \/ \E on \in BOOLEAN : SetBrand(n, b, on)
            \/ \E m \in Name : Rename(n, m, b)
            \/ Close(n, b)
    \/ \E c \in connected : Forget(c)

Spec == Init /\ [][Next]_dirVars
=============================================================================
