------------------------------ MODULE WebTvmMC ------------------------------
EXTENDS WebTvm

PageStore == [initial |-> "Warm", pinnable |-> FALSE, spillable |-> TRUE]
HotHeap == [initial |-> "Hot", pinnable |-> TRUE, spillable |-> FALSE]

TwoShapes == {[kind |-> PageStore, capacity |-> 2], [kind |-> HotHeap, capacity |-> 1]}
=============================================================================
