------------------------------ MODULE TvmHostMC ------------------------------
(* Instances of TvmHost for TLC. *)
EXTENDS TvmHost

\* rows of PlacementPolicy::for_kind
ObjectArena == [initial |-> "Hot", pinnable |-> FALSE, spillable |-> TRUE]
HotHeap     == [initial |-> "Hot", pinnable |-> TRUE,  spillable |-> FALSE]
HostPolicies == {ObjectArena, HotHeap}
=============================================================================
