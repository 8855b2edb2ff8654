------------------------------- MODULE HeapSpec -------------------------------
(***************************************************************************)
(* What a region allocator promises its callers, whatever its data         *)
(* structure, in terms of the live blocks alone: what one call may do.  An *)
(* allocation is a block aligned as the call asked, inside the region and  *)
(* apart from all others, freeing removes one block, and compaction packs  *)
(* the blocks from offset 0 in their old order.                            *)
(***************************************************************************)
EXTENDS Integers

CONSTANT Capacity
VARIABLE blocks      \* <<offset, size>> of every live allocation of some bytes

Span(offset, size) == offset..(offset + size - 1)

Init == blocks = {}

(* An empty allocation takes no bytes: it is no block.                     *)
Allocate(offset, size, align) ==
  /\ offset % align = 0
  /\ offset + size <= Capacity
  /\ \A b \in blocks : Span(b[1], b[2]) \cap Span(offset, size) = {}
  /\ blocks' = blocks \cup {b \in {<<offset, size>>} : size # 0}

Deallocate(offset, size) ==
  /\ size # 0 => <<offset, size>> \in blocks
  /\ blocks' = blocks \ {<<offset, size>>}

Before(b) == {c \in blocks : c[1] < b[1]}
(* Blocks keep their order and sizes and leave no gap.                     *)
Compact ==
  \E place \in [blocks -> 0..Capacity] :
    /\ \A b \in blocks :
         /\ Before(b) = {} => place[b] = 0
         /\ \A c \in Before(b) :
              (\A d \in Before(b) : d[1] <= c[1]) => place[b] = place[c] + c[2]
    /\ blocks' = {<<place[b], b[2]>> : b \in blocks}

(* Every other call leaves the blocks alone.                               *)
Stay == blocks' = blocks
=============================================================================
