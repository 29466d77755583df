--------------------------- MODULE MCSubscription ---------------------------
EXTENDS Subscription, TLC

\* Symbol lists and object ids are interchangeable.
Symmetry == Permutations(Versions) \cup Permutations(Ids)

\* Bound: what is excepted from RecordRouted and DecodedByOwnMap because of one
\* thing does not go on to meet another.
OneException == kept => ~(twice \/ stray)
=============================================================================
