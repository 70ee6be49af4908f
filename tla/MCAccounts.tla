----------------------------- MODULE MCAccounts -----------------------------
EXTENDS Accounts, TLC

Symmetries ==
    Permutations(UserHash) \cup Permutations(ProviderHash) \cup Permutations(Name)
        \cup Permutations(Request)
=============================================================================
