-------------------------- MODULE RegionDirectoryMC --------------------------
(* Instances of RegionDirectory for TLC. *)
EXTENDS RegionDirectory

\* PlacementPolicy::for_kind, one policy per distinct row of its table
HotHeap     == [initial |-> "Hot",  pinnable |-> TRUE,  spillable |-> FALSE]
ObjectArena == [initial |-> "Hot",  pinnable |-> FALSE, spillable |-> TRUE]
PageStore   == [initial |-> "Warm", pinnable |-> FALSE, spillable |-> TRUE]
Scratch     == [initial |-> "Hot",  pinnable |-> FALSE, spillable |-> FALSE]

\* create_region_with_policy lets a caller combine the two permissions
PinnableSpillable == [initial |-> "Hot", pinnable |-> TRUE, spillable |-> TRUE]

TieringPolicies == {HotHeap, ObjectArena, PageStore}
AllPolicies == {HotHeap, ObjectArena, PageStore, Scratch, PinnableSpillable}
=============================================================================
