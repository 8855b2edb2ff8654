----------------------------- MODULE RegionHeapMC -----------------------------
(* Instances of RegionHeap for TLC. *)
EXTENDS RegionHeap

AllKinds ==
  {BumpNew, FreelistNew(Capacity)} \cup {SlabNew(Capacity, class_size) : class_size \in 0..2}

Symmetry == Permutations(Values)
=============================================================================
