-------------------------- MODULE MCExternalCache --------------------------
EXTENDS ExternalCache, TLC

\* Any subscriptions may belong to one account, or to one provider for a user.
Anyone == SUBSET Subscription
Symmetries == Permutations(Subscription) \cup Permutations(Url) \cup Permutations(Request)
=============================================================================
