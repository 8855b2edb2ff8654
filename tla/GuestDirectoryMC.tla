-------------------------- MODULE GuestDirectoryMC --------------------------
(* Instances of GuestDirectory for TLC. *)
EXTENDS GuestDirectory

\* PlacementPolicy::for_kind, as far as the guest looks at it
HotHeap     == [initial |-> "Hot",  pinnable |-> TRUE]
PageStore   == [initial |-> "Warm", pinnable |-> FALSE]

TwoPolicies == {HotHeap, PageStore}

\* bound: blocks are used while there is one region, or two of together less
\* than a pool and at most one compaction; more regions are created only while
\* no block was used
Untouched == held = {} /\ remaps = {} /\ memory = [k \in Pools |-> [i \in Addresses |-> 0]]
             /\ cache = Empty /\ \A r \in DOMAIN slots : ~slots[r].pinned /\ era[r] = 0
WorkedRegions == \/ Len(slots) <= 1
                 \/ /\ Len(slots) = 2
                    /\ slots[1].capacity + slots[2].capacity < PoolCapacity
                    /\ era[1] + era[2] < 2
                 \/ Untouched
\* bound: a run ends where a handle or a remap of an earlier wrap was obeyed
Bounds == WorkedRegions /\ ~misled

Symmetry == Permutations(Values)
=============================================================================
