------------------------ MODULE ConcurrentDirectoryMC ------------------------
(* Instances of ConcurrentDirectory for TLC. *)
EXTENDS ConcurrentDirectory

PageStore   == [initial |-> "Warm", pinnable |-> FALSE, spillable |-> TRUE]
\* create_region_with_policy lets a caller combine the two permissions
PinnableSpillable == [initial |-> "Hot", pinnable |-> TRUE, spillable |-> TRUE]

TierPolicies == {PinnableSpillable, PageStore}
WarmPolicies == {PageStore}

Symmetry == Permutations(Threads)
=============================================================================
