------------------------------- MODULE Contexts -------------------------------
(***************************************************************************)
(* The protocol context of connection/protocol_context.py, which decides   *)
(* how messages are laid out: the version of the session and its features, *)
(* <<>> for None and <<set>> otherwise.                                    *)
(***************************************************************************)
EXTENDS Integers, Sequences

PROTOCOLS == {<<1, 2, 0>>, <<1, 3, 0>>, <<1, 4, 0>>, <<1, 5, 0>>, <<1, 6, 0>>, <<1, 7, 0>>, <<1, 7, 1>>}
Rank(version) == 100 * version[1] + 10 * version[2] + version[3]
AtLeast(ctx, version) == Rank(ctx.version) >= Rank(version)

IsPartitionAwarenessSupported(ctx) == AtLeast(ctx, <<1, 4, 0>>)
IsStatusFlagsSupported(ctx) == AtLeast(ctx, <<1, 4, 0>>)
IsTransactionsSupported(ctx) == AtLeast(ctx, <<1, 6, 0>>)
IsExpiryPolicySupported(ctx) == AtLeast(ctx, <<1, 6, 0>>)
IsFeatureFlagsSupported(ctx) == AtLeast(ctx, <<1, 7, 0>>)
IsUserAttributesSupported(ctx) == AtLeast(ctx, <<1, 7, 1>>)

BitmaskFeature == [CLUSTER_API |-> 2, QUERY_INDEX_VECTOR_SIMILARITY |-> 33]
AllSupported == DOMAIN BitmaskFeature
Has(ctx, feature) == ctx.features # <<>> /\ feature \in ctx.features[1]
IsClusterApiSupported(ctx) == Has(ctx, "CLUSTER_API")
IsQueryIndexVectorSimilaritySupported(ctx) == Has(ctx, "QUERY_INDEX_VECTOR_SIMILARITY")

\* A version below 1.7.0 has no features, whatever is assigned.
EnsureConsistency(ctx) == IF IsFeatureFlagsSupported(ctx) THEN ctx ELSE [ctx EXCEPT !.features = <<>>]
ProtocolContext(version, features) == EnsureConsistency([version |-> version, features |-> features])
WithVersion(ctx, version) == EnsureConsistency([ctx EXCEPT !.version = version])
WithFeatures(ctx, features) == EnsureConsistency([ctx EXCEPT !.features = features])
HighestContext ==
  ProtocolContext(CHOOSE v \in PROTOCOLS : \A w \in PROTOCOLS : Rank(w) <= Rank(v), <<AllSupported>>)

\* What a context of a client can be: a constructed one, its features some of those the client has.
FeatureSets == SUBSET AllSupported
Contexts == {ProtocolContext(v, <<f>>) : v \in PROTOCOLS, f \in FeatureSets}
=============================================================================
