--------------------------- MODULE GuestDirectory ---------------------------
(***************************************************************************)
(* The directory inside a multi-memory guest and the facade in front of it *)
(* (crates/tvm-guest-mm/src/directory.rs, facade.rs).  Regions are carved  *)
(* one after another out of a few pools (wasm memories) and never leave    *)
(* them; the facade caches the placement of the region resolved last.      *)
(*                                                                         *)
(* Callers own what they allocate, as in RegionHeap, and compact through   *)
(* the facade, not behind its back with directory_mut().                   *)
(***************************************************************************)
EXTENDS Allocators

CONSTANTS
  PoolCount, PoolCapacity,   \* pools, and the bytes of each
  Policies,        \* what the kinds of region ask for
  Capacities,      \* region capacities callers ask for
  Sizes,           \* block sizes callers ask for
  Values, Unset,   \* what callers write; not yet written
  MaxId,           \* the last region id: 65535 in the code
  LastGen,         \* the largest generation: 2^16 - 1 in the code
  MaxHeld,         \* bound: handles held at one time
  MaxCompactions   \* bound: compactions of one region

Policy == [initial : {"Hot", "Warm"}, pinnable : BOOLEAN]

ASSUME GuestAssumption ==
  /\ PoolCount \in Nat /\ PoolCapacity \in Nat /\ MaxId \in Nat \ {0} /\ LastGen \in Nat \ {0}
  /\ Policies \subseteq Policy
  /\ Capacities \subseteq Nat /\ Sizes \subseteq Nat
  /\ Unset \notin Values

VARIABLES
  used,         \* bytes given out of each pool
  slots,        \* region entries; slots[k] is the entry looked up for id k
  next_id,
  cursor_hot, cursor_warm,
  memory,       \* the pools' bytes
  cache,        \* the facade's ResolveCache
  held,         \* handles with the size asked for and the value last written
  remaps,       \* HandleRemaps returned that some handle may still need
  returned,     \* history: ids create_region returned
  era,          \* history: compactions of each region; handles and remaps carry theirs
  misled        \* history: a handle or remap of an earlier wrap was obeyed

vars == <<used, slots, next_id, cursor_hot, cursor_warm, memory, cache, held, remaps,
          returned, era, misled>>
placement == <<used, next_id, cursor_hot, cursor_warm, returned>>
history == <<era, misled>>

Pools == 0..(PoolCount - 1)
Addresses == 0..(PoolCapacity - 1)
Empty == [region_id |-> 0, generation |-> 0, pool_index |-> 0, base_offset |-> 0]

Init ==
  /\ used = [k \in Pools |-> 0]
  /\ slots = << >>
  /\ next_id = 1
  /\ cursor_hot = 0 /\ cursor_warm = 0
  /\ memory = [k \in Pools |-> [i \in Addresses |-> 0]]
  /\ cache = Empty
  /\ held = {} /\ remaps = {}
  /\ returned = {}
  /\ era = [r \in 1..MaxId |-> 0]
  /\ misled = FALSE

-----------------------------------------------------------------------------
(* Placement *)

Mid == (PoolCount + 1) \div 2
Preferred(residency) == IF residency = "Hot" THEN <<0, Mid>> ELSE <<Mid, PoolCount>>
Fallback(residency) == IF residency = "Hot" THEN <<Mid, PoolCount>> ELSE <<0, Mid>>
Cursor(band) == IF band[1] = 0 THEN cursor_hot ELSE cursor_warm

RoomIgnored(k, capacity) == used[k] < PoolCapacity     \* mutant: any room will do
HasRoom(k, capacity) == PoolCapacity - used[k] >= capacity

Span(band) == band[2] - band[1]
Candidate(band, offset) == band[1] + ((Cursor(band) + offset) % Span(band))
Fitting(band, capacity) ==
  {offset \in 0..(Span(band) - 1) : HasRoom(Candidate(band, offset), capacity)}

OnlyPreferred(residency, capacity) == Preferred(residency)   \* mutant: no fall-through
ChosenBand(residency, capacity) ==
  IF Fitting(Preferred(residency), capacity) # {} THEN Preferred(residency)
  ELSE Fallback(residency)

(* choose_pool: the first pool with room, from the band's cursor on.       *)
choose_pool(band, capacity) ==
  LET offset == CHOOSE o \in Fitting(band, capacity) :
                  \A p \in Fitting(band, capacity) : o <= p
  IN [pool |-> Candidate(band, offset),
      cursor |-> (Cursor(band) + offset + 1) % Span(band)]

create_region(p, capacity) ==
  LET band == ChosenBand(p.initial, capacity)
      choice == choose_pool(band, capacity)
  IN /\ next_id < MaxId
     /\ next_id' = next_id + 1
     /\ \/ /\ Fitting(band, capacity) = {}       \* AllocationFailed, the id is spent
           /\ UNCHANGED <<used, slots, cursor_hot, cursor_warm, returned>>
        \/ /\ Fitting(band, capacity) # {}
           /\ used' = [used EXCEPT ![choice.pool] = @ + capacity]
           /\ slots' = Append(slots,
                [id |-> next_id, generation |-> 1, pinned |-> FALSE, pinnable |-> p.pinnable,
                 pool_index |-> choice.pool, base_offset |-> used[choice.pool],
                 capacity |-> capacity, allocator |-> FreelistNew(capacity)])
           /\ cursor_hot' = IF band[1] = 0 THEN choice.cursor ELSE cursor_hot
           /\ cursor_warm' = IF band[1] = 0 THEN cursor_warm ELSE choice.cursor
           /\ returned' = returned \cup {next_id}
     /\ UNCHANGED <<memory, cache, held, remaps, history>>

-----------------------------------------------------------------------------
(* Blocks and handles *)

Exists(r) == r \in DOMAIN slots
Valid(h) == Exists(h.region_id) /\ slots[h.region_id].generation = h.generation

Allocate(r, size) ==
  LET result == FreelistAlloc(slots[r].allocator, size, 1)
  IN /\ Exists(r)
     /\ Cardinality(held) < MaxHeld
     /\ result.offset # NoOffset
     /\ slots' = [slots EXCEPT ![r].allocator = result.state]
     /\ held' = held \cup {[region_id |-> r, generation |-> slots[r].generation,
                            era |-> era[r],
                            offset |-> result.offset, size |-> size, value |-> Unset]}
     /\ UNCHANGED <<placement, memory, cache, remaps, history>>

Outdated(h) == h.era # era[h.region_id]
Deallocate(h) ==
  /\ Valid(h)
  /\ h.offset \in DOMAIN slots[h.region_id].allocator.allocated
  /\ slots' = [slots EXCEPT ![h.region_id].allocator = FreelistDealloc(@, h.offset)]
  /\ held' = held \ {h}
  /\ misled' = (misled \/ Outdated(h))
  /\ UNCHANGED <<placement, memory, cache, remaps, era>>

Hit(h) == /\ h.region_id # 0
          /\ h.region_id = cache.region_id
          /\ h.generation = cache.generation
Accepted(h) == Hit(h) \/ Valid(h)

(* cached_resolve: the pool and the address of an accepted handle.         *)
cached_resolve(h) ==
  IF Hit(h) THEN <<cache.pool_index, cache.base_offset + h.offset>>
  ELSE <<slots[h.region_id].pool_index, slots[h.region_id].base_offset + h.offset>>

RefreshedAbsolute(h) ==       \* mutant: caches the address, not the base
  IF Hit(h) THEN cache
  ELSE [region_id |-> h.region_id, generation |-> h.generation,
        pool_index |-> cached_resolve(h)[1], base_offset |-> cached_resolve(h)[2]]
Refreshed(h) ==
  IF Hit(h) THEN cache
  ELSE [region_id |-> h.region_id, generation |-> h.generation,
        pool_index |-> slots[h.region_id].pool_index,
        base_offset |-> slots[h.region_id].base_offset]

(* The dispatch bounds-checks against the pool, not the region.            *)
InPool(h, n) == Accepted(h) /\ cached_resolve(h)[2] + n <= PoolCapacity
Reached(h, n) ==
  IF InPool(h, n) THEN cached_resolve(h)[2]..(cached_resolve(h)[2] + n - 1) ELSE {}

Read(h) ==
  /\ Accepted(h)
  /\ cache' = Refreshed(h)
  /\ UNCHANGED <<placement, slots, memory, held, remaps, history>>

Write(h, n, v) ==
  /\ Accepted(h)
  /\ cache' = Refreshed(h)
  /\ LET pool == cached_resolve(h)[1]
     IN memory' = [memory EXCEPT ![pool] =
          [i \in Addresses |-> IF i \in Reached(h, n) THEN v ELSE @[i]]]
  /\ held' = (held \ {h}) \cup {[h EXCEPT !.value = IF InPool(h, n) THEN v ELSE @]}
  /\ misled' = (misled \/ Outdated(h))
  /\ UNCHANGED <<placement, slots, remaps, era>>

(* There is no way back: the facade's unpin answers Ok and does nothing.   *)
pin(r) ==
  /\ Exists(r)
  /\ slots[r].pinnable
  /\ slots' = [slots EXCEPT ![r].pinned = TRUE]
  /\ UNCHANGED <<placement, memory, cache, held, remaps, history>>

-----------------------------------------------------------------------------
(* Compaction *)

intra_pool_copy(m, dst, src, n) ==
  [i \in Addresses |-> IF i - dst \in 0..(n - 1) THEN m[src + i - dst] ELSE m[i]]

SlideFromTheEnd(m, e) ==      \* mutant: blocks walked in descending order
  LET a == e.allocator
      Slide(o, acc) == intra_pool_copy(acc, e.base_offset + PackedOffset(a, o),
                                       e.base_offset + o, a.allocated[o])
  IN MapThenFoldSet(Slide, m, LAMBDA o : o, Min, DOMAIN a.allocated)
(* Blocks slide towards the region's base one by one, the highest last.    *)
Slid(m, e) ==
  LET a == e.allocator
      Slide(o, acc) == intra_pool_copy(acc, e.base_offset + PackedOffset(a, o),
                                       e.base_offset + o, a.allocated[o])
  IN MapThenFoldSet(Slide, m, LAMBDA o : o, Max, DOMAIN a.allocated)

NextGen(g) == IF g = LastGen THEN 1 ELSE g + 1     \* wrapping_add(1) that skips 0

Remap(r) ==
  LET a == slots[r].allocator
  IN [region_id |-> r, old_generation |-> slots[r].generation,
      new_generation |-> NextGen(slots[r].generation), era |-> era[r],
      mapping |-> [o \in DOMAIN a.allocated |-> PackedOffset(a, o)]]

directory_compact(r) ==
  /\ Exists(r)
  /\ ~slots[r].pinned
  /\ era[r] < MaxCompactions
  /\ memory' = [memory EXCEPT ![slots[r].pool_index] = Slid(@, slots[r])]
  /\ slots' = [slots EXCEPT ![r].generation = NextGen(@),
                            ![r].allocator = FreelistRebuild(@, slots[r].capacity)]
  /\ remaps' = {m \in remaps \cup {Remap(r)} :
                  \E h \in held : h.region_id = m.region_id /\ h.era <= m.era}
  /\ era' = [era EXCEPT ![r] = @ + 1]
  /\ UNCHANGED <<placement, held, misled>>

CacheKept(r) == cache                          \* mutant: no invalidation
Invalidated(r) == IF cache.region_id = r THEN Empty ELSE cache

compact_region(r) == directory_compact(r) /\ cache' = Invalidated(r)

(* The facade drops its cache entry before the directory refuses.          *)
compact_refused(r) ==
  /\ Exists(r) => slots[r].pinned
  /\ cache' = Invalidated(r)
  /\ UNCHANGED <<placement, slots, memory, held, remaps, history>>

migrate(h, m) ==
  /\ h.region_id = m.region_id
  /\ h.generation = m.old_generation
  /\ h.offset \in DOMAIN m.mapping
  /\ held' = (held \ {h}) \cup {[h EXCEPT !.generation = m.new_generation,
                                          !.offset = m.mapping[h.offset],
                                          !.era = m.era + 1]}
  /\ misled' = (misled \/ m.era # h.era)
  /\ UNCHANGED <<placement, slots, memory, cache, remaps, era>>

Next ==
  \/ \E p \in Policies, capacity \in Capacities : create_region(p, capacity)
  \/ \E r \in returned :
       \/ \E size \in Sizes : Allocate(r, size)
       \/ pin(r)
       \/ compact_region(r) \/ compact_refused(r)
  \/ \E h \in held :
       \/ Deallocate(h) \/ Read(h)
       \/ \E v \in Values : Write(h, h.size, v)
       \/ \E m \in remaps : migrate(h, m)

Spec == Init /\ [][Next]_vars

-----------------------------------------------------------------------------
(* Properties *)

TypeOK ==
  /\ used \in [Pools -> 0..PoolCapacity]
  /\ Len(slots) <= MaxId
  /\ \A i \in DOMAIN slots :
       /\ slots[i].pool_index \in Pools
       /\ slots[i].base_offset \in 0..PoolCapacity
       /\ slots[i].capacity \in Capacities
  /\ next_id \in 1..MaxId
  /\ cursor_hot \in Nat /\ cursor_warm \in Nat
  /\ returned \subseteq 1..MaxId

Extent(e) == e.base_offset..(e.base_offset + e.capacity - 1)

(* Regions never share a byte, and each lies inside its pool.              *)
RegionsDisjoint ==
  /\ \A i \in DOMAIN slots : slots[i].base_offset + slots[i].capacity <= PoolCapacity
  /\ \A i, j \in DOMAIN slots :
       i # j /\ slots[i].pool_index = slots[j].pool_index =>
         Extent(slots[i]) \cap Extent(slots[j]) = {}

(* create_region fails only when no pool has room: the band preference is  *)
(* a preference, and the cursor never skips a pool.                        *)
PlacementComplete ==
  \A p \in Policies, capacity \in Capacities :
    (\E k \in Pools : PoolCapacity - used[k] >= capacity)
      => Fitting(ChosenBand(p.initial, capacity), capacity) # {}

(* Fewer compactions have passed than it takes the generation to wrap.     *)
Fresh(h) == era[h.region_id] - h.era < LastGen

(* A handle the facade accepts reads what its owner wrote last, whatever   *)
(* happens to other blocks and regions and across in-place compaction; a   *)
(* handle left behind by a compaction is not accepted.  The generation     *)
(* wraps, and a handle or a remap as old as LastGen compactions comes back *)
(* into force: as in RegionHeap nothing is claimed of such a handle, nor   *)
(* of any handle once one was obeyed.                                      *)
HandlesReadBack ==
  ~misled => \A h \in held : Accepted(h) /\ Fresh(h) =>
    /\ Valid(h) /\ ~Outdated(h)
    /\ h.value # Unset =>
         \A i \in Reached(h, h.size) : memory[cached_resolve(h)[1]][i] = h.value

(* The cache never sends a handle anywhere but where the directory would.  *)
CacheCoherent ==
  cache # Empty =>
    /\ Exists(cache.region_id)
    /\ slots[cache.region_id].pool_index = cache.pool_index
    /\ slots[cache.region_id].base_offset = cache.base_offset

=============================================================================
