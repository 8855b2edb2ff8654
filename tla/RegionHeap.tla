------------------------------ MODULE RegionHeap ------------------------------
(***************************************************************************)
(* The inside of one region: its allocator, its bytes, and the handles its *)
(* callers hold across deallocation, compaction and handle migration       *)
(* (directory.rs, memory_region.rs, allocator.rs of tvm-core).             *)
(*                                                                         *)
(* Callers own what they allocate: each uses its handle until it           *)
(* deallocates it, writes only inside its block, and after a compaction    *)
(* may migrate a handle with the returned HandleRemap or keep it as it is. *)
(***************************************************************************)
EXTENDS Allocators

CONSTANTS
  Capacity,         \* bytes of the region
  Kinds,            \* initial allocator states to explore
  Sizes, Aligns,    \* what callers ask for
  Values, Unset,    \* what callers write; not yet written
  LastGen,          \* the largest generation: 2^16 - 1 in the code
  MaxHeld,          \* bound: handles held at one time
  MaxCompactions    \* bound: compactions

ASSUME CapacityAssumption == Capacity \in 0..MaxU32
ASSUME UnsetAssumption == Unset \notin Values
ASSUME KindsAssumption ==
  \A a \in Kinds : \/ a \in {BumpNew, FreelistNew(Capacity)}
                  \/ \E class_size \in 0..MaxU32 : a = SlabNew(Capacity, class_size)
ASSUME RequestsAssumption == Sizes \subseteq Nat /\ Aligns \subseteq Nat
ASSUME LastGenAssumption == LastGen \in Nat \ {0}

VARIABLES
  allocator,   \* the region's RegionAllocator
  memory,      \* its bytes
  generation,  \* its generation
  held,        \* handles with the size asked for and the value last written
  remaps,      \* HandleRemaps returned that some handle may still need
  era,         \* history: compactions so far; handles and remaps carry theirs
  misled       \* history: a handle or remap of an earlier wrap was obeyed

vars == <<allocator, memory, generation, held, remaps, era, misled>>

Cells == 0..(Capacity - 1)
Block(h) == h.offset..(h.offset + h.size - 1)
Valid(h) == h.generation = generation

Init ==
  /\ allocator \in Kinds
  /\ memory = [i \in Cells |-> 0]
  /\ generation = 1
  /\ held = {}
  /\ remaps = {}
  /\ era = 0
  /\ misled = FALSE

Allocate(size, align) ==
  LET result == alloc(allocator, Capacity, size, align)
  IN /\ Cardinality(held) < MaxHeld
     /\ result.offset # NoOffset
     /\ allocator' = result.state
     /\ held' = held \cup {[generation |-> generation, era |-> era,
                            offset |-> result.offset, size |-> size, value |-> Unset]}
     /\ UNCHANGED <<memory, generation, remaps, era, misled>>

Deallocate(h) ==
  /\ Valid(h)
  /\ can_dealloc(allocator, h.offset)
  /\ allocator' = dealloc(allocator, h.offset)
  /\ held' = held \ {h}
  /\ misled' = (misled \/ h.era # era)
  /\ UNCHANGED <<memory, generation, remaps, era>>

Write(h, v) ==
  /\ Valid(h)
  /\ h.offset + h.size <= Capacity
  /\ memory' = [i \in Cells |-> IF i \in Block(h) THEN v ELSE memory[i]]
  /\ held' = (held \ {h}) \cup {[h EXCEPT !.value = v]}
  /\ misled' = (misled \/ h.era # era)
  /\ UNCHANGED <<allocator, generation, remaps, era>>

CompactSlides ==       \* mutant: reads from the packed offset, not the old one
  [i \in Cells |-> memory[i]]
(* Copies each live block to its packed offset in a zeroed buffer.         *)
CompactedMemory ==
  LET source(i) == {o \in DOMAIN allocator.allocated :
                      i - PackedOffset(allocator, o) \in 0..(allocator.allocated[o] - 1)}
  IN [i \in Cells |->
        IF source(i) = {} THEN 0
        ELSE LET o == CHOOSE o \in source(i) : TRUE
             IN memory[o + i - PackedOffset(allocator, o)]]

NextGen(g) == IF g = LastGen THEN 1 ELSE g + 1     \* wrapping_add(1) that skips 0

Remap == [old_generation |-> generation, new_generation |-> NextGen(generation), era |-> era,
          mapping |-> [o \in DOMAIN allocator.allocated |-> PackedOffset(allocator, o)]]

(* compact_region of an unpinned, resident region: only the freelist       *)
(* tracks its blocks.                                                      *)
Compact ==
  /\ era < MaxCompactions
  /\ allocator.kind = "Freelist"
  /\ memory' = CompactedMemory
  /\ generation' = NextGen(generation)
  /\ era' = era + 1
  /\ allocator' = FreelistRebuild(allocator, Capacity)
  /\ remaps' = {m \in remaps \cup {Remap} : \E h \in held : h.era <= m.era}
  /\ UNCHANGED <<held, misled>>

migrate(h, m) ==
  /\ h.generation = m.old_generation
  /\ h.offset \in DOMAIN m.mapping
  /\ held' = (held \ {h}) \cup {[h EXCEPT !.generation = m.new_generation,
                                          !.offset = m.mapping[h.offset],
                                          !.era = m.era + 1]}
  /\ misled' = (misled \/ m.era # h.era)
  /\ UNCHANGED <<allocator, memory, generation, remaps, era>>

Next ==
  \/ \E size \in Sizes, align \in Aligns : Allocate(size, align)
  \/ Compact
  \/ \E h \in held :
       \/ Deallocate(h)
       \/ \E v \in Values : Write(h, v)
       \/ \E m \in remaps : migrate(h, m)

Spec == Init /\ [][Next]_vars

-----------------------------------------------------------------------------
(* Properties *)

BlockCells(o) == o..(o + allocator.allocated[o] - 1)

(* The freelist's books balance: its free blocks are sorted with no two    *)
(* touching, every byte of the region is in exactly one free or live       *)
(* block, and used is what the live blocks add up to.                      *)
FreelistTiles ==
  allocator.kind = "Freelist" =>
    LET free == allocator.free
        live == DOMAIN allocator.allocated
        FreeCells(i) == free[i][1]..(free[i][1] + free[i][2] - 1)
    IN /\ \A i \in 1..(Len(free) - 1) : free[i][1] + free[i][2] < free[i + 1][1]
       /\ \A i \in DOMAIN free, o \in live : FreeCells(i) \cap BlockCells(o) = {}
       /\ \A o, q \in live : o # q => BlockCells(o) \cap BlockCells(q) = {}
       /\ UNION ({FreeCells(i) : i \in DOMAIN free} \cup {BlockCells(o) : o \in live})
            = Cells
       /\ allocator.used = MapThenSumSet(LAMBDA o : allocator.allocated[o], live)

(* Fewer compactions have passed than it takes the generation to wrap.     *)
Fresh(h) == era - h.era < LastGen

(* A handle that passes the generation check reads back exactly what its   *)
(* owner wrote, across other owners' allocations, frees and writes, and    *)
(* across compaction and migration.  The generation wraps: a handle as old *)
(* as LastGen compactions comes back into force, wherever its block went,  *)
(* and a remap as old tells its place of a wrap ago.  The check cannot see *)
(* that, so nothing is claimed of such a handle, nor of any handle once    *)
(* such a handle or remap was obeyed.                                      *)
HandlesReadBack ==
  ~misled => \A h \in held : Valid(h) /\ Fresh(h) /\ h.value # Unset =>
     \A i \in Block(h) : memory[i] = h.value

(* An allocation fails only when the region has no aligned gap that large: *)
(* no free byte range is lost to padding, to coalescing, or to the early   *)
(* return that ends the search at the first block that overflows a u32.    *)
(* Only gaps within align - 1 bytes of the top of the u32 range, which     *)
(* align_up cannot round to, are out of reach.                             *)
NoFalseFailure ==
  allocator.kind = "Freelist" =>
    \A size \in 1..Capacity, align \in Aligns :
      IsPowerOfTwo(align) /\ alloc(allocator, Capacity, size, align).offset = NoOffset
      => \A o \in Cells :
           o % align = 0 /\ o + size <= Capacity /\ o + align - 1 <= MaxU32 =>
             \E q \in DOMAIN allocator.allocated :
                (o..(o + size - 1)) \cap BlockCells(q) # {}

(* Until a compaction moves blocks, exactly the offsets some caller still  *)
(* holds can be freed: a second free of the same handle is refused.        *)
FreesOnlyLive ==
  era = 0 /\ allocator.kind # "Bump" =>
    \A o \in Cells : can_dealloc(allocator, o) <=> \E h \in held : h.offset = o

(* A compaction leaves all free bytes in one block and loses none.         *)
CompactionDefragments ==
  [][era' # era =>
       /\ allocator'.used = allocator.used
       /\ allocator'.free = NonEmpty(<<allocator.used, Capacity - allocator.used>>)]_vars

(* The slots of slab a that are not on its stack.                          *)
TakenSlots(a) ==
  {x \in Cells : /\ x < a.n_slots * a.class_size
                 /\ x % a.class_size = 0
                 /\ ~Contains(a.free_slots, x)}

(* The live blocks, by the books of the freelist and of the slab; a bump   *)
(* allocator keeps none, and its callers' blocks are the live ones.        *)
LiveBlocks ==
  CASE allocator.kind = "Freelist" ->
         {<<o, allocator.allocated[o]>> : o \in DOMAIN allocator.allocated}
    [] allocator.kind = "Slab" ->
         {<<o, allocator.class_size>> : o \in TakenSlots(allocator)}
    [] allocator.kind = "Bump" ->
         {<<h.offset, h.size>> : h \in {k \in held : k.size # 0}}

(* A slab hands out its slots whatever alignment the call asks for.        *)
Honoured(align) == IF allocator.kind = "Slab" THEN 1 ELSE align
Freed(h) == IF allocator.kind = "Freelist" THEN allocator.allocated[h.offset] ELSE h.size

Promise == INSTANCE HeapSpec WITH blocks <- LiveBlocks

Calls ==
  \/ \E size \in Sizes, align \in Aligns : Allocate(size, align)
  \/ \E h \in held : Deallocate(h)
  \/ Compact

(* Every allocator keeps the promise of HeapSpec, call by call: what an    *)
(* allocation returns is a block for its own size and alignment, a free    *)
(* takes the block of its own handle off, and only the freelist compacts.  *)
ImplementsPromise ==
  /\ Promise!Init
  /\ [][/\ \A size \in Sizes, align \in Aligns : Allocate(size, align) =>
              Promise!Allocate(alloc(allocator, Capacity, size, align).offset, size,
                               Honoured(align))
        /\ \A h \in held : Deallocate(h) => Promise!Deallocate(h.offset, Freed(h))
        /\ Compact => Promise!Compact
        /\ ~Calls => Promise!Stay]_vars

=============================================================================
