------------------------ MODULE GuestDirectory_proofs ------------------------
(***************************************************************************)
(* Proofs about GuestDirectory, for any number and size of pools: regions  *)
(* never share a byte and never leave their pool, placing a region fails   *)
(* only when no pool has room for it, the resolve cache never tells        *)
(* anything but what the directory would, and accepted handles read back   *)
(* what was written.                                                       *)
(*                                                                         *)
(* RegionsDisjoint is not inductive: it does not say that the next region  *)
(* starts behind the ones already placed.  Placed does: every region ends  *)
(* at or before its pool's used mark.  PlacementComplete needs the cursors *)
(* to stay inside their bands (CursorsInBand).  CacheCurrent adds to       *)
(* CacheCoherent the generation, by which the facade accepts a handle.     *)
(*                                                                         *)
(* A generation wraps, so it does not tell when a handle was issued.       *)
(* Dated gives the generation of every slot, handle and remap by the eras  *)
(* kept as history.                                                        *)
(*                                                                         *)
(* HandlesReadBack needs the blocks of handles that compaction has made    *)
(* stale and a later migration may revive.  GuestHeap(at) follows them:    *)
(* at takes a region, an era and an offset of then to the offset the block *)
(* has now.  Followed says that there is such a map, until a handle or a   *)
(* remap of an earlier wrap was obeyed.                                    *)
(***************************************************************************)
EXTENDS GuestDirectory, Allocators_proofs, NaturalsInduction

Slot(A) == [id : Nat, generation : Nat, pinned : BOOLEAN, pinnable : BOOLEAN,
            pool_index : Pools, base_offset : Nat, capacity : Capacities, allocator : A]

SlotsTyped == \E A : slots \in Seq(Slot(A))

Placed ==
  \A i \in DOMAIN slots :
    slots[i].base_offset + slots[i].capacity <= used[slots[i].pool_index]

(* A band's cursor stays inside the band.                                  *)
CursorsInBand ==
  /\ cursor_hot \in Nat
  /\ Mid # 0 => cursor_hot < Mid
  /\ cursor_warm \in Nat
  /\ PoolCount - Mid # 0 => cursor_warm < PoolCount - Mid

IInv == /\ TypeOK /\ SlotsTyped /\ Len(slots) < next_id
        /\ Placed /\ RegionsDisjoint /\ CursorsInBand

(* What every step but create_region leaves alone.                         *)
Kept ==
  /\ UNCHANGED placement
  /\ SlotsTyped'
  /\ DOMAIN slots' = DOMAIN slots
  /\ Len(slots') = Len(slots)
  /\ \A i \in DOMAIN slots : /\ slots'[i].pool_index = slots[i].pool_index
                             /\ slots'[i].base_offset = slots[i].base_offset
                             /\ slots'[i].capacity = slots[i].capacity

(* A nonempty set of naturals has a least element.                         *)
LEMMA LeastElement ==
  ASSUME NEW S \in SUBSET Nat, S # {}
  PROVE  \E x \in S : \A y \in S : x <= y
<1>1. PICK x \in S : \A y \in S : ~(<<y, x>> \in OpToRel(<, Nat))
  BY NatLessThanWellFounded, WFMin
<1>2. ASSUME NEW y \in S PROVE x <= y
  <2>1. y < x => <<y, x>> \in {ss \in Nat \X Nat : ss[1] < ss[2]}
    OBVIOUS
  <2>2. ~(y < x)
    BY <1>1, <2>1, Zenon DEF OpToRel
  <2> QED BY <2>2
<1> QED BY <1>2

(* A band lies inside the pools.                                           *)
LEMMA BandsInPools ==
  ASSUME NEW residency, NEW capacity
  PROVE  \E lo, hi \in Nat : /\ ChosenBand(residency, capacity) = <<lo, hi>>
                             /\ hi <= PoolCount
<1>1. PoolCount \in Nat /\ Mid \in Nat /\ Mid <= PoolCount
  BY GuestAssumption DEF Mid
<1>2. ChosenBand(residency, capacity) \in {<<0, Mid>>, <<Mid, PoolCount>>}
  BY DEF ChosenBand, Preferred, Fallback
<1> QED BY <1>1, <1>2

(* choose_pool returns a pool with room for the region, and a cursor.      *)
LEMMA ChoosePoolFits ==
  ASSUME TypeOK, NEW residency, NEW capacity,
         Fitting(ChosenBand(residency, capacity), capacity) # {}
  PROVE  LET band == ChosenBand(residency, capacity)
             choice == choose_pool(band, capacity)
         IN /\ choice.pool \in Pools /\ HasRoom(choice.pool, capacity)
            /\ choice.cursor \in 0..(Span(band) - 1)
<1> DEFINE band == ChosenBand(residency, capacity)
           S == Fitting(band, capacity)
           offset == CHOOSE o \in S : \A p \in S : o <= p
<1>1. PICK lo, hi \in Nat : band = <<lo, hi>> /\ hi <= PoolCount
  BY BandsInPools
<1>2. band[1] = lo /\ Span(band) = hi - lo
  BY <1>1 DEF Span
<1> HIDE DEF band
<1>3. S \in SUBSET Nat
  BY <1>2 DEF Fitting
<1>4. offset \in S
  BY <1>3, LeastElement DEF band
<1>5. offset \in 0..(hi - lo - 1) /\ HasRoom(Candidate(band, offset), capacity)
  BY <1>2, <1>4 DEF Fitting
<1>6. Cursor(band) \in Nat
  BY DEF Cursor, TypeOK
<1> HIDE DEF offset
<1>7. hi - lo \in Nat \ {0} /\ (Cursor(band) + offset) \in Nat
  BY <1>5, <1>6
<1>8. (Cursor(band) + offset) % (hi - lo) \in 0..(hi - lo - 1)
  BY <1>7
<1>9. Candidate(band, offset) \in Pools
  BY <1>1, <1>2, <1>8, GuestAssumption DEF Candidate, Pools
<1>10. (Cursor(band) + offset + 1) % Span(band) \in 0..(Span(band) - 1)
  BY <1>2, <1>7
<1> QED BY <1>5, <1>9, <1>10 DEF choose_pool, offset, band

(* A facade starts without regions.                                        *)
LEMMA InitIInv == Init => IInv
<1> SUFFICES ASSUME Init PROVE IInv
  OBVIOUS
<1>1. slots = << >> /\ DOMAIN slots = {} /\ Len(slots) = 0
  BY DEF Init
<1>2. SlotsTyped
  BY <1>1, EmptySeq DEF SlotsTyped
<1>3. Mid \in Nat /\ Mid <= PoolCount /\ CursorsInBand
  BY GuestAssumption DEF Init, CursorsInBand, Mid
<1> QED BY <1>1, <1>2, <1>3, GuestAssumption DEF Init, IInv, TypeOK, Placed, RegionsDisjoint

(* Steps that move no region keep the invariant.                           *)
LEMMA KeptIInv ==
  ASSUME IInv, Kept
  PROVE  IInv'
<1>1. TypeOK'
  BY DEF IInv, Kept, TypeOK, placement
<1>2. SlotsTyped' /\ (Len(slots) < next_id)'
  BY DEF IInv, Kept, placement
<1>3. Placed'
  BY DEF IInv, Kept, Placed, placement
<1>4. RegionsDisjoint'
  BY DEF IInv, Kept, RegionsDisjoint, Extent
<1>5. CursorsInBand'
  BY DEF IInv, Kept, CursorsInBand, placement
<1> QED BY <1>1, <1>2, <1>3, <1>4, <1>5 DEF IInv

(* Placing a region moves its band's cursor within the band.               *)
LEMMA CreateCursors ==
  ASSUME IInv, NEW p \in Policies, NEW capacity \in Capacities, create_region(p, capacity)
  PROVE  CursorsInBand'
<1> DEFINE band == ChosenBand(p.initial, capacity)
           choice == choose_pool(band, capacity)
<1>1. CASE Fitting(band, capacity) = {}
  BY <1>1 DEF create_region, IInv, CursorsInBand
<1>2. CASE Fitting(band, capacity) # {}
  <2>1. PoolCount \in Nat /\ Mid \in Nat /\ Mid <= PoolCount /\ (Mid = 0 => PoolCount = 0)
    BY GuestAssumption DEF Mid
  <2>2. choice.cursor \in 0..(Span(band) - 1)
    BY <1>2, ChoosePoolFits DEF IInv
  <2>3. /\ cursor_hot' = IF band[1] = 0 THEN choice.cursor ELSE cursor_hot
        /\ cursor_warm' = IF band[1] = 0 THEN cursor_warm ELSE choice.cursor
    BY <1>2 DEF create_region
  <2>4. band = <<0, Mid>> \/ band = <<Mid, PoolCount>>
    BY DEF ChosenBand, Preferred, Fallback
  <2> HIDE DEF band, choice
  <2>5. CASE band = <<0, Mid>>
    BY <2>1, <2>2, <2>3, <2>5 DEF Span, IInv, CursorsInBand
  <2>6. CASE band = <<Mid, PoolCount>>
    BY <2>1, <2>2, <2>3, <2>6 DEF Span, IInv, CursorsInBand
  <2> QED BY <2>4, <2>5, <2>6
<1> QED BY <1>1, <1>2

(* A new region starts where its pool was used up to.                      *)
LEMMA CreateIInv ==
  ASSUME IInv, NEW p \in Policies, NEW capacity \in Capacities, create_region(p, capacity)
  PROVE  IInv'
<1> DEFINE band == ChosenBand(p.initial, capacity)
           choice == choose_pool(band, capacity)
           e == [id |-> next_id, generation |-> 1, pinned |-> FALSE, pinnable |-> p.pinnable,
                 pool_index |-> choice.pool, base_offset |-> used[choice.pool],
                 capacity |-> capacity, allocator |-> FreelistNew(capacity)]
<1>1. CASE Fitting(band, capacity) = {}
  <2>1. UNCHANGED <<used, slots, cursor_hot, cursor_warm, returned>>
        /\ next_id' = next_id + 1 /\ next_id < MaxId
    BY <1>1 DEF create_region
  <2>2. TypeOK' /\ (Len(slots) < next_id)' /\ SlotsTyped'
    BY <2>1, LenProperties, GuestAssumption DEF IInv, TypeOK, SlotsTyped
  <2> QED BY <2>1, <2>2, CreateCursors DEF IInv, Placed, RegionsDisjoint
<1>2. CASE Fitting(band, capacity) # {}
  <2>0. choice.pool \in Pools /\ choice.cursor \in 0..(Span(band) - 1)
    BY <1>2, ChoosePoolFits DEF IInv
  <2>1. /\ choice.pool \in Pools /\ choice.cursor \in Nat
        /\ PoolCapacity - used[choice.pool] >= capacity
    BY <1>2, <2>0, ChoosePoolFits DEF IInv, HasRoom
  <2>2. /\ used' = [used EXCEPT ![choice.pool] = @ + capacity]
        /\ slots' = Append(slots, e)
        /\ next_id' = next_id + 1 /\ next_id < MaxId
        /\ returned' = returned \cup {next_id}
        /\ cursor_hot' \in {choice.cursor, cursor_hot}
        /\ cursor_warm' \in {choice.cursor, cursor_warm}
    BY <1>2 DEF create_region
  <2> HIDE DEF band, choice
  <2>3. /\ capacity \in Nat /\ used \in [Pools -> 0..PoolCapacity] /\ PoolCapacity \in Nat
        /\ next_id \in 1..MaxId /\ MaxId \in Nat
    BY GuestAssumption DEF IInv, TypeOK
  <2>4. p.pinnable \in BOOLEAN
    BY GuestAssumption DEF Policy
  <2>5. PICK A : slots \in Seq(Slot(A))
    BY DEF IInv, SlotsTyped
  <2> DEFINE B == A \cup {FreelistNew(capacity)}
  <2>6. e \in Slot(B)
    BY <2>1, <2>3, <2>4 DEF Slot
  <2>7. slots \in Seq(Slot(B))
    <3>1. Slot(A) \subseteq Slot(B)
      BY DEF Slot
    <3> QED BY <2>5, <3>1, SeqMonotonic
  <2> HIDE DEF B
  <2>8. /\ slots' \in Seq(Slot(B))
        /\ Len(slots') = Len(slots) + 1
        /\ \A i \in 1..Len(slots) : slots'[i] = slots[i]
        /\ slots'[Len(slots) + 1] = e
    <3> HIDE DEF e
    <3> QED BY <2>2, <2>6, <2>7, AppendProperties
  <2>9. /\ Len(slots) \in Nat /\ DOMAIN slots = 1..Len(slots)
        /\ DOMAIN slots' = 1..(Len(slots) + 1)
    BY <2>7, <2>8, LenProperties
  <2>10. /\ e.pool_index = choice.pool /\ e.base_offset = used[choice.pool]
         /\ e.capacity = capacity
    OBVIOUS
  <2> HIDE DEF e
  <2>11. used' \in [Pools -> 0..PoolCapacity] /\ \A k \in Pools : used[k] <= used'[k]
    BY <2>1, <2>2, <2>3
  <2>12. used'[choice.pool] = used[choice.pool] + capacity
    BY <2>1, <2>2, <2>3
  <2>13. \A i \in 1..Len(slots) : /\ slots[i].pool_index \in Pools
                                  /\ slots[i].base_offset \in Nat
                                  /\ slots[i].capacity \in Nat
    <3>1. \A i \in 1..Len(slots) : slots[i] \in Slot(B)
      BY <2>7, ElementOfSeq
    <3>2. \A c \in Capacities : c \in Nat
      BY GuestAssumption
    <3> QED BY <3>1, <3>2 DEF Slot
  <2>14. TypeOK'
    <3>1. \A i \in 1..Len(slots) : /\ slots'[i].pool_index \in Pools
                                   /\ slots'[i].base_offset \in 0..PoolCapacity
                                   /\ slots'[i].capacity \in Capacities
      BY <2>8, <2>9 DEF IInv, TypeOK
    <3>2. e.pool_index \in Pools /\ e.base_offset \in 0..PoolCapacity /\ e.capacity \in Capacities
      BY <2>1, <2>3, <2>10
    <3>3. Len(slots') <= MaxId
      BY <2>2, <2>3, <2>8, <2>9 DEF IInv
    <3>4. (next_id \in 1..MaxId /\ cursor_hot \in Nat /\ cursor_warm \in Nat
           /\ returned \subseteq 1..MaxId)'
      BY <2>1, <2>2, <2>3 DEF IInv, TypeOK
    <3> QED BY <2>8, <2>9, <2>11, <3>1, <3>2, <3>3, <3>4 DEF TypeOK
  <2>15. SlotsTyped' /\ (Len(slots) < next_id)'
    BY <2>2, <2>3, <2>8, <2>9 DEF IInv, SlotsTyped
  <2>16. Placed'
    <3>1. ASSUME NEW i \in 1..Len(slots)
          PROVE  slots'[i].base_offset + slots'[i].capacity <= used'[slots'[i].pool_index]
      <4>1. slots[i].base_offset + slots[i].capacity <= used[slots[i].pool_index]
        BY <2>9 DEF IInv, Placed
      <4>2. used[slots[i].pool_index] <= used'[slots[i].pool_index]
        BY <2>11, <2>13
      <4> QED BY <2>3, <2>8, <2>11, <2>13, <4>1, <4>2
    <3>2. e.base_offset + e.capacity <= used'[e.pool_index]
      BY <2>1, <2>3, <2>10, <2>12
    <3> QED BY <2>8, <2>9, <3>1, <3>2 DEF Placed
  <2>17. RegionsDisjoint'
    <3>1. \A i \in 1..Len(slots) :
            slots'[i].base_offset + slots'[i].capacity <= PoolCapacity
      BY <2>8, <2>9 DEF IInv, RegionsDisjoint
    <3>2. e.base_offset + e.capacity <= PoolCapacity
      BY <2>1, <2>3, <2>10
    <3>3. ASSUME NEW i \in 1..Len(slots), slots[i].pool_index = e.pool_index
          PROVE  Extent(slots[i]) \cap Extent(e) = {}
      <4>1. slots[i].base_offset + slots[i].capacity <= e.base_offset
        BY <2>9, <2>10, <3>3 DEF IInv, Placed
      <4>2. e.base_offset \in Nat /\ e.capacity \in Nat
        BY <2>1, <2>3, <2>10
      <4> QED BY <2>13, <4>1, <4>2 DEF Extent
    <3>4. ASSUME NEW i \in 1..Len(slots), NEW j \in 1..Len(slots), i # j,
                 slots[i].pool_index = slots[j].pool_index
          PROVE  Extent(slots[i]) \cap Extent(slots[j]) = {}
      BY <2>9, <3>4 DEF IInv, RegionsDisjoint
    <3>5. ASSUME NEW i \in DOMAIN slots', NEW j \in DOMAIN slots', i # j,
                 slots'[i].pool_index = slots'[j].pool_index
          PROVE  Extent(slots'[i]) \cap Extent(slots'[j]) = {}
      <4>1. CASE i \in 1..Len(slots) /\ j \in 1..Len(slots)
        BY <2>8, <3>4, <3>5, <4>1
      <4>2. CASE i \in 1..Len(slots) /\ j = Len(slots) + 1
        BY <2>8, <3>3, <3>5, <4>2
      <4>3. CASE i = Len(slots) + 1 /\ j \in 1..Len(slots)
        BY <2>8, <3>3, <3>5, <4>3
      <4> QED BY <2>9, <3>5, <4>1, <4>2, <4>3
    <3>6. \A i \in DOMAIN slots' : slots'[i].base_offset + slots'[i].capacity <= PoolCapacity
      BY <2>8, <2>9, <3>1, <3>2
    <3> QED BY <3>5, <3>6 DEF RegionsDisjoint, Extent
  <2> QED BY <2>14, <2>15, <2>16, <2>17, CreateCursors DEF IInv
<1> QED BY <1>1, <1>2

(* The slots with a new generation and a new allocator in slot r.          *)
Updated(r, g, a) == [slots EXCEPT ![r].generation = g, ![r].allocator = a]

(* A new allocator and a new generation in one slot place nothing anew.    *)
LEMMA SlotUpdateKept ==
  ASSUME IInv, NEW r \in DOMAIN slots, NEW a, NEW g \in Nat, UNCHANGED placement,
         slots' = Updated(r, g, a)
  PROVE  Kept
<1>1. PICK A : slots \in Seq(Slot(A))
  BY DEF IInv, SlotsTyped
<1> DEFINE B == A \cup {a}
           e == [slots[r] EXCEPT !.generation = g, !.allocator = a]
<1>2. r \in 1..Len(slots) /\ slots[r] \in Slot(A) /\ DOMAIN slots = 1..Len(slots)
  <2>1. DOMAIN slots = 1..Len(slots)
    BY <1>1, LenProperties
  <2> QED BY <1>1, <2>1, ElementOfSeq
<1>3. e \in Slot(B) /\ slots \in Seq(Slot(B))
  <2>1. e \in Slot(B)
    BY <1>2 DEF Slot
  <2>2. Slot(A) \subseteq Slot(B)
    BY DEF Slot
  <2> QED BY <1>1, <2>1, <2>2, SeqMonotonic
<1>4. slots' = [slots EXCEPT ![r] = e]
  BY <1>2 DEF Updated
<1>5. /\ e.pool_index = slots[r].pool_index /\ e.base_offset = slots[r].base_offset
      /\ e.capacity = slots[r].capacity
  BY <1>2 DEF Slot
<1> DEFINE T == Slot(B)
<1>6. r \in 1..Len(slots) /\ e \in T /\ slots \in Seq(T)
  BY <1>2, <1>3
<1> HIDE DEF e, B, T
<1>7. /\ slots' \in Seq(T)
      /\ Len(slots') = Len(slots)
      /\ \A j \in 1..Len(slots) : slots'[j] = IF j = r THEN e ELSE slots[j]
  BY <1>6, <1>4, ExceptSeq
<1>8. DOMAIN slots' = DOMAIN slots
  BY <1>4
<1> QED BY <1>2, <1>5, <1>7, <1>8 DEF Kept, SlotsTyped, T

(* A pin changes no placement either.                                      *)
LEMMA PinKept ==
  ASSUME IInv, NEW r, pin(r)
  PROVE  Kept
<1>1. PICK A : slots \in Seq(Slot(A))
  BY DEF IInv, SlotsTyped
<1> DEFINE e == [slots[r] EXCEPT !.pinned = TRUE]
<1>2. r \in 1..Len(slots) /\ slots[r] \in Slot(A) /\ DOMAIN slots = 1..Len(slots)
  <2>1. DOMAIN slots = 1..Len(slots)
    BY <1>1, LenProperties
  <2> QED BY <1>1, <2>1, ElementOfSeq DEF pin, Exists
<1>3. e \in Slot(A)
  BY <1>2 DEF Slot
<1>4. slots' = [slots EXCEPT ![r] = e] /\ UNCHANGED placement
  BY <1>2 DEF pin
<1>5. /\ e.pool_index = slots[r].pool_index /\ e.base_offset = slots[r].base_offset
      /\ e.capacity = slots[r].capacity
  BY <1>2 DEF Slot
<1> HIDE DEF e
<1>6. /\ slots' \in Seq(Slot(A))
      /\ Len(slots') = Len(slots)
      /\ \A j \in 1..Len(slots) : slots'[j] = IF j = r THEN e ELSE slots[j]
  BY <1>1, <1>2, <1>3, <1>4, ExceptSeq
<1>7. DOMAIN slots' = DOMAIN slots
  BY <1>4
<1> QED BY <1>2, <1>4, <1>5, <1>6, <1>7 DEF Kept, SlotsTyped

(* So does no step that leaves the slots and the pools alone.              *)
LEMMA QuietKept ==
  ASSUME IInv, UNCHANGED <<placement, slots>>
  PROVE  Kept
BY DEF Kept, IInv, SlotsTyped

(* The generation of a slot is a natural number.                           *)
LEMMA GenerationNat ==
  ASSUME IInv, NEW r \in DOMAIN slots
  PROVE  /\ slots[r].generation \in Nat
         /\ \A a : [slots EXCEPT ![r].allocator = a] = Updated(r, slots[r].generation, a)
<1>1. PICK A : slots \in Seq(Slot(A))
  BY DEF IInv, SlotsTyped
<1>2. slots[r] \in Slot(A)
  <2>1. DOMAIN slots = 1..Len(slots)
    BY <1>1, LenProperties
  <2> QED BY <1>1, <2>1, ElementOfSeq
<1>3. [slots EXCEPT ![r].generation = slots[r].generation] = slots
  <2>1. [slots[r] EXCEPT !.generation = slots[r].generation] = slots[r]
    BY <1>2 DEF Slot
  <2>2. slots = [i \in 1..Len(slots) |-> slots[i]]
    BY <1>1
  <2> QED BY <2>1, <2>2
<1> QED BY <1>2, <1>3 DEF Slot, Updated

(* Only create_region places anything.                                     *)
LEMMA StepKept ==
  ASSUME IInv, [Next]_vars
  PROVE  Kept \/ \E p \in Policies, capacity \in Capacities : create_region(p, capacity)
<1>2. ASSUME NEW r, NEW size, Allocate(r, size)
      PROVE  Kept
  <2>1. /\ r \in DOMAIN slots /\ UNCHANGED placement
        /\ slots' = [slots EXCEPT ![r].allocator =
                       FreelistAlloc(slots[r].allocator, size, 1).state]
    BY <1>2 DEF Allocate, Exists
  <2>2. PICK a : slots' = [slots EXCEPT ![r].allocator = a]
    BY <2>1
  <2>3. slots' = Updated(r, slots[r].generation, a) /\ slots[r].generation \in Nat
    BY <2>1, <2>2, GenerationNat
  <2> QED BY <2>1, <2>3, SlotUpdateKept
<1>3. ASSUME NEW h, Deallocate(h)
      PROVE  Kept
  <2>1. /\ h.region_id \in DOMAIN slots /\ UNCHANGED placement
        /\ slots' = [slots EXCEPT ![h.region_id].allocator =
                       FreelistDealloc(slots[h.region_id].allocator, h.offset)]
    BY <1>3 DEF Deallocate, Valid, Exists
  <2> QED BY <2>1, GenerationNat, SlotUpdateKept
<1>4. ASSUME NEW r, directory_compact(r)
      PROVE  Kept
  <2>1. /\ r \in DOMAIN slots /\ UNCHANGED placement
        /\ slots' = Updated(r, NextGen(slots[r].generation),
                            FreelistRebuild(slots[r].allocator, slots[r].capacity))
    BY <1>4 DEF directory_compact, Exists, Updated
  <2>2. slots[r].generation \in Nat
    BY <2>1, GenerationNat, Zenon
  <2>3. NextGen(slots[r].generation) \in Nat
    BY <2>2 DEF NextGen
  <2> QED BY <2>1, <2>3, SlotUpdateKept
<1>5. ASSUME NEW h, NEW n, NEW v, NEW m, NEW r,
             Read(h) \/ Write(h, n, v) \/ migrate(h, m) \/ compact_refused(r)
      PROVE  Kept
  BY <1>5, QuietKept DEF Read, Write, migrate, compact_refused
<1>6. ASSUME UNCHANGED vars
      PROVE  Kept
  BY <1>6, QuietKept DEF vars, placement
<1>7. ASSUME NEW r, compact_region(r)
      PROVE  Kept
  BY <1>4, <1>7 DEF compact_region
<1> QED BY <1>2, <1>3, <1>5, <1>6, <1>7, PinKept DEF Next

(* IInv is inductive.                                                      *)
LEMMA StepIInv ==
  ASSUME IInv, [Next]_vars
  PROVE  IInv'
BY StepKept, KeptIInv, CreateIInv

(* The used marks, cursors, ids and placements always are what the code's  *)
(* types and checks promise.                                               *)
THEOREM GuestTypeCorrect == Spec => []TypeOK
<1>1. IInv => TypeOK
  BY DEF IInv
<1> QED BY <1>1, InitIInv, StepIInv, PTL DEF Spec

(* For any number and size of pools, region sizes and sequence of calls:   *)
(* regions never share a byte of a pool and none reaches past its end.     *)
THEOREM PlacementSafe == Spec => []RegionsDisjoint
<1>1. IInv => RegionsDisjoint
  BY DEF IInv
<1> QED BY <1>1, InitIInv, StepIInv, PTL DEF Spec

-----------------------------------------------------------------------------
(* Going round a band from any cursor inside it comes past every pool.     *)
LEMMA CursorReaches ==
  ASSUME NEW n \in Nat, NEW c \in Nat, c < n, NEW x \in 0..(n - 1)
  PROVE  \E o \in 0..(n - 1) : (c + o) % n = x
<1>1. CASE x >= c
  <2>1. x - c \in 0..(n - 1) /\ c + (x - c) = x
    BY <1>1
  <2>2. x % n = x
    OBVIOUS
  <2> QED BY <2>1, <2>2
<1>2. CASE x < c
  <2>1. x - c + n \in 0..(n - 1) /\ c + (x - c + n) = x + n
    BY <1>2
  <2>2. (x + n) % n = x
    OBVIOUS
  <2> QED BY <2>1, <2>2
<1> QED BY <1>1, <1>2

(* A band with a pool that has room is not passed over.                    *)
LEMMA RoomIsFound ==
  ASSUME CursorsInBand, NEW capacity, NEW band, NEW k \in Pools, HasRoom(k, capacity),
         \/ band = <<0, Mid>> /\ k < Mid
         \/ band = <<Mid, PoolCount>> /\ k >= Mid
  PROVE  Fitting(band, capacity) # {}
<1>1. PoolCount \in Nat /\ Mid \in Nat /\ Mid <= PoolCount /\ k \in Nat /\ k < PoolCount
      /\ Mid # 0
  BY GuestAssumption DEF Mid, Pools
<1>2. /\ Span(band) \in Nat /\ Cursor(band) \in Nat /\ Cursor(band) < Span(band)
      /\ band[1] \in Nat /\ k - band[1] \in 0..(Span(band) - 1)
  <2>1. CASE band = <<0, Mid>> /\ k < Mid
    BY <1>1, <2>1 DEF Span, Cursor, CursorsInBand
  <2>2. CASE band = <<Mid, PoolCount>> /\ k >= Mid
    BY <1>1, <2>2 DEF Span, Cursor, CursorsInBand
  <2> QED BY <2>1, <2>2
<1>3. PICK o \in 0..(Span(band) - 1) : (Cursor(band) + o) % Span(band) = k - band[1]
  BY <1>2, CursorReaches
<1>4. Candidate(band, o) = k
  BY <1>1, <1>2, <1>3 DEF Candidate
<1> QED BY <1>3, <1>4 DEF Fitting

(* For any number of pools: create_region never fails while some pool, in  *)
(* whichever band, has room for the region.                                *)
THEOREM PlacementFindsRoom == Spec => []PlacementComplete
<1>1. IInv => PlacementComplete
  <2> SUFFICES ASSUME CursorsInBand, NEW p \in Policies, NEW capacity \in Capacities,
                      NEW k \in Pools, PoolCapacity - used[k] >= capacity
               PROVE  Fitting(ChosenBand(p.initial, capacity), capacity) # {}
    BY DEF IInv, PlacementComplete
  <2>1. HasRoom(k, capacity)
    BY DEF HasRoom
  <2>2. \/ k < Mid /\ Fitting(<<0, Mid>>, capacity) # {}
        \/ k >= Mid /\ Fitting(<<Mid, PoolCount>>, capacity) # {}
    <3>1. k \in Nat /\ Mid \in Nat
      BY GuestAssumption DEF Mid, Pools
    <3>2. k < Mid => Fitting(<<0, Mid>>, capacity) # {}
      BY <2>1, RoomIsFound
    <3>3. k >= Mid => Fitting(<<Mid, PoolCount>>, capacity) # {}
      BY <2>1, RoomIsFound
    <3> QED BY <3>1, <3>2, <3>3
  <2> QED BY <2>2 DEF ChosenBand, Preferred, Fallback
<1> QED BY <1>1, InitIInv, StepIInv, PTL DEF Spec

-----------------------------------------------------------------------------
(* The resolve cache *)

(* The entry describes the region as it is placed, under its present       *)
(* generation.  CacheCoherent does not speak of the generation, which is   *)
(* what decides whether a handle hits.                                     *)
CacheCurrent ==
  /\ CacheCoherent
  /\ cache # Empty => slots[cache.region_id].generation = cache.generation

(* A step that keeps the entry and the slot it describes.                  *)
LEMMA EntryKept ==
  ASSUME CacheCurrent, cache' = cache,
         cache # Empty /\ cache.region_id \in DOMAIN slots =>
           LET r == cache.region_id
           IN /\ r \in DOMAIN slots'
              /\ slots'[r].pool_index = slots[r].pool_index
              /\ slots'[r].base_offset = slots[r].base_offset
              /\ slots'[r].generation = slots[r].generation
  PROVE  CacheCurrent'
BY DEF CacheCurrent, CacheCoherent, Exists, Empty

(* A new region is appended: the slots there were stay.                    *)
LEMMA CreateCache ==
  ASSUME IInv, CacheCurrent, NEW p \in Policies, NEW capacity \in Capacities,
         create_region(p, capacity)
  PROVE  CacheCurrent'
<1>1. cache' = cache
  BY DEF create_region
<1>2. PICK A : slots \in Seq(Slot(A))
  BY DEF IInv, SlotsTyped
<1>3. slots' = slots \/ \E e : slots' = Append(slots, e)
  BY DEF create_region
<1>4. \A i \in DOMAIN slots : i \in DOMAIN slots' /\ slots'[i] = slots[i]
  BY <1>2, <1>3
<1> QED BY <1>1, <1>4, EntryKept

(* The allocator calls and a pin keep the generation of every slot.        *)
LEMMA SlotCache ==
  ASSUME IInv, CacheCurrent, NEW r, NEW size, NEW h,
         Allocate(r, size) \/ Deallocate(h) \/ pin(r)
  PROVE  CacheCurrent'
<1>1. cache' = cache
  BY DEF Allocate, Deallocate, pin
<1>2. PICK A : slots \in Seq(Slot(A))
  BY DEF IInv, SlotsTyped
<1>3. \A i \in DOMAIN slots : slots[i] \in Slot(A)
  BY <1>2, LenProperties, ElementOfSeq
<1>4. ASSUME NEW q \in DOMAIN slots, NEW a, slots' = [slots EXCEPT ![q].allocator = a]
      PROVE  CacheCurrent'
  <2>1. \A i \in DOMAIN slots :
          /\ i \in DOMAIN slots'
          /\ slots'[i].pool_index = slots[i].pool_index
          /\ slots'[i].base_offset = slots[i].base_offset
          /\ slots'[i].generation = slots[i].generation
    BY <1>3, <1>4 DEF Slot
  <2> QED BY <1>1, <2>1, EntryKept
<1>5. CASE pin(r)
  <2>1. r \in DOMAIN slots /\ slots' = [slots EXCEPT ![r].pinned = TRUE]
    BY <1>5 DEF pin, Exists
  <2>2. \A i \in DOMAIN slots :
          /\ i \in DOMAIN slots'
          /\ slots'[i].pool_index = slots[i].pool_index
          /\ slots'[i].base_offset = slots[i].base_offset
          /\ slots'[i].generation = slots[i].generation
    BY <1>3, <2>1 DEF Slot
  <2> QED BY <1>1, <2>2, EntryKept
<1> QED BY <1>4, <1>5 DEF Allocate, Deallocate, Valid, Exists

(* A resolve that misses caches the slot of a valid handle.                *)
LEMMA ResolveCache ==
  ASSUME CacheCurrent, NEW h, Accepted(h), cache' = Refreshed(h), slots' = slots
  PROVE  CacheCurrent'
<1>1. CASE Hit(h)
  BY <1>1, EntryKept DEF Refreshed
<1>2. CASE ~Hit(h)
  BY <1>2 DEF Accepted, Refreshed, Valid, CacheCurrent, CacheCoherent, Exists
<1> QED BY <1>1, <1>2

(* A compaction moves the generation of the region whose entry it drops.   *)
LEMMA CompactCache ==
  ASSUME IInv, CacheCurrent, NEW r, compact_region(r) \/ compact_refused(r)
  PROVE  CacheCurrent'
<1>1. cache' = Invalidated(r)
  BY DEF compact_region, compact_refused
<1>2. CASE cache.region_id = r
  BY <1>1, <1>2 DEF Invalidated, CacheCurrent, CacheCoherent
<1>3. CASE cache.region_id # r
  <2>1. cache' = cache
    BY <1>1, <1>3 DEF Invalidated
  <2>2. CASE compact_refused(r)
    BY <2>1, <2>2, EntryKept DEF compact_refused
  <2>3. CASE compact_region(r)
    <3>1. r \in DOMAIN slots
          /\ \E g, a : slots' = [slots EXCEPT ![r].generation = g, ![r].allocator = a]
      BY <2>3 DEF compact_region, directory_compact, Exists
    <3>2. \A i \in DOMAIN slots \ {r} : i \in DOMAIN slots' /\ slots'[i] = slots[i]
      BY <3>1
    <3> QED BY <1>3, <2>1, <3>2, EntryKept
  <2> QED BY <2>2, <2>3
<1> QED BY <1>2, <1>3

(* CacheCurrent is inductive on top of IInv.                               *)
LEMMA StepCache ==
  ASSUME IInv, CacheCurrent, [Next]_vars
  PROVE  CacheCurrent'
<1>1. ASSUME NEW h, NEW n, NEW v, Read(h) \/ Write(h, n, v)
      PROVE  CacheCurrent'
  BY <1>1, ResolveCache DEF Read, Write
<1>2. ASSUME NEW h, NEW m, migrate(h, m)
      PROVE  CacheCurrent'
  BY <1>2, EntryKept DEF migrate
<1>3. CASE UNCHANGED vars
  BY <1>3, EntryKept DEF vars
<1> QED BY <1>1, <1>2, <1>3, CreateCache, SlotCache, CompactCache DEF Next

(* CacheCurrent holds in every reachable state.                            *)
LEMMA CacheInvariance == Spec => []CacheCurrent
<1>1. Init => CacheCurrent
  BY DEF Init, CacheCurrent, CacheCoherent
<1> QED BY <1>1, InitIInv, StepIInv, StepCache, PTL DEF Spec

(* For any pools and any calls: the facade's cached placement is always    *)
(* the one the directory would answer with.                                *)
THEOREM CacheIsCoherent == Spec => []CacheCoherent
<1>1. CacheCurrent => CacheCoherent
  BY DEF CacheCurrent
<1> QED BY <1>1, CacheInvariance, PTL

-----------------------------------------------------------------------------
(* Generations *)

HandleOf(A) == [region_id : Nat \ {0}, generation : Nat \ {0}, era : Nat, offset : A,
                size : Nat, value : Values \cup {Unset}]

(* What a generation shows is the number of compactions, wrapped.          *)
Dated ==
  /\ era \in [1..MaxId -> Nat]
  /\ \A r \in DOMAIN slots : slots[r].generation = Wrap(era[r], LastGen)
  /\ \A r \in 1..MaxId : r \notin DOMAIN slots => era[r] = 0
  /\ \E A : held \subseteq HandleOf(A)
  /\ \A h \in held : /\ h.region_id \in DOMAIN slots
                     /\ h.era <= era[h.region_id]
                     /\ h.generation = Wrap(h.era, LastGen)
  /\ \A m \in remaps : /\ m.region_id \in DOMAIN slots
                       /\ m.era \in Nat /\ m.era + 1 <= era[m.region_id]
                       /\ m.new_generation = Wrap(m.era + 1, LastGen)

(* Slots are numbered from 1 to MaxId at most.                             *)
LEMMA SlotNumbers ==
  ASSUME IInv
  PROVE  /\ LastGen \in Nat \ {0} /\ MaxId \in Nat
         /\ Len(slots) \in Nat /\ Len(slots) <= MaxId /\ DOMAIN slots = 1..Len(slots)
         /\ DOMAIN slots \subseteq 1..MaxId
<1>1. PICK A : slots \in Seq(Slot(A))
  BY DEF IInv, SlotsTyped
<1>2. Len(slots) \in Nat /\ DOMAIN slots = 1..Len(slots)
  BY <1>1, LenProperties
<1> QED BY <1>2, GuestAssumption DEF IInv, TypeOK

LEMMA InitDated == Init => Dated
<1> SUFFICES ASSUME Init PROVE Dated
  OBVIOUS
<1>1. DOMAIN slots = {} /\ held = {} /\ remaps = {} /\ era = [r \in 1..MaxId |-> 0]
  BY DEF Init
<1> QED BY <1>1 DEF Dated

(* A new region starts in era 0, under generation 1.                       *)
LEMMA CreateDated ==
  ASSUME IInv, Dated, NEW p \in Policies, NEW capacity \in Capacities,
         create_region(p, capacity)
  PROVE  Dated'
<1>1. UNCHANGED <<held, remaps, era>>
  BY DEF create_region, history
<1>2. CASE slots' = slots
  BY <1>1, <1>2 DEF Dated
<1>3. ASSUME NEW e, e.generation = 1, slots' = Append(slots, e), next_id < MaxId
      PROVE  Dated'
  <2>1. PICK n \in Nat : /\ n = Len(slots) /\ DOMAIN slots = 1..n /\ n + 1 \in 1..MaxId
                         /\ LastGen \in Nat \ {0}
    BY <1>3, SlotNumbers DEF IInv, TypeOK
  <2>2. /\ DOMAIN slots' = 1..(n + 1) /\ slots'[n + 1] = e
        /\ \A i \in DOMAIN slots : slots'[i] = slots[i]
    <3>1. PICK A : slots \in Seq(Slot(A))
      BY DEF IInv, SlotsTyped
    <3> QED BY <1>3, <2>1, <3>1
  <2>3. DOMAIN slots \subseteq DOMAIN slots' /\ n + 1 \notin DOMAIN slots
        /\ \A i \in DOMAIN slots' : i \in DOMAIN slots \/ i = n + 1
    BY <2>1, <2>2
  <2>4. era[n + 1] = 0 /\ slots'[n + 1].generation = Wrap(era[n + 1], LastGen)
    BY <1>3, <2>1, <2>2, <2>3, WrapZero DEF Dated
  <2>5. \A r \in DOMAIN slots' : slots'[r].generation = Wrap(era[r], LastGen)
    BY <2>2, <2>3, <2>4 DEF Dated
  <2> QED BY <1>1, <2>3, <2>5 DEF Dated
<1>4. \/ slots' = slots
      \/ next_id < MaxId /\ \E e : e.generation = 1 /\ slots' = Append(slots, e)
  <2>1. ASSUME NEW band, NEW choice,
               slots' = Append(slots,
                 [id |-> next_id, generation |-> 1, pinned |-> FALSE, pinnable |-> p.pinnable,
                  pool_index |-> choice.pool, base_offset |-> used[choice.pool],
                  capacity |-> capacity, allocator |-> FreelistNew(capacity)])
        PROVE  \E e : e.generation = 1 /\ slots' = Append(slots, e)
    <3>1. PICK e : e = [id |-> next_id, generation |-> 1, pinned |-> FALSE, pinnable |-> p.pinnable,
                        pool_index |-> choice.pool, base_offset |-> used[choice.pool],
                        capacity |-> capacity, allocator |-> FreelistNew(capacity)]
      OBVIOUS
    <3> QED BY <2>1, <3>1
  <2> QED BY <2>1 DEF create_region
<1> QED BY <1>2, <1>3, <1>4

(* Handles given, kept or rewritten under the present slots.               *)
LEMMA HeldDated ==
  ASSUME IInv, Dated, UNCHANGED <<remaps, era>>, DOMAIN slots' = DOMAIN slots,
         \A r \in DOMAIN slots : slots'[r].generation = slots[r].generation,
         \A h \in held' \ held : /\ \E A : h \in HandleOf(A)
                                 /\ h.region_id \in DOMAIN slots
                                 /\ h.era <= era[h.region_id]
                                 /\ h.generation = Wrap(h.era, LastGen)
  PROVE  Dated'
<1>1. PICK A : held \subseteq HandleOf(A)
  BY DEF Dated
<1> DEFINE B == A \cup {h.offset : h \in held'}
<1>2. ASSUME NEW h \in held' PROVE h \in HandleOf(B)
  <2>1. PICK O : h \in HandleOf(O)
    BY <1>1
  <2>2. h.offset \in B
    OBVIOUS
  <2> HIDE DEF B
  <2> QED BY <2>1, <2>2 DEF HandleOf
<1>3. \E O : held' \subseteq HandleOf(O)
  BY <1>2
<1> QED BY <1>3 DEF Dated

(* Slots stay where they are, at their generation.                         *)
Steady ==
  /\ DOMAIN slots' = DOMAIN slots
  /\ \A i \in DOMAIN slots : /\ slots'[i].pool_index = slots[i].pool_index
                             /\ slots'[i].base_offset = slots[i].base_offset
                             /\ slots'[i].capacity = slots[i].capacity
                             /\ slots'[i].generation = slots[i].generation

(* One slot gets another allocator state.                                  *)
LEMMA AllocatorSet ==
  ASSUME IInv, NEW r \in DOMAIN slots, NEW a, slots' = [slots EXCEPT ![r].allocator = a]
  PROVE  /\ Steady
         /\ slots'[r].allocator = a
         /\ \A i \in DOMAIN slots \ {r} : slots'[i] = slots[i]
<1>1. PICK A : slots \in Seq(Slot(A))
  BY DEF IInv, SlotsTyped
<1>2. \A i \in DOMAIN slots : slots[i] \in Slot(A)
  BY <1>1, LenProperties, ElementOfSeq
<1> QED BY <1>2 DEF Slot, Steady

(* A pin keeps them all as they are.                                       *)
LEMMA PinSteady ==
  ASSUME IInv, NEW r, pin(r)
  PROVE  Steady /\ \A i \in DOMAIN slots : slots'[i].allocator = slots[i].allocator
<1>1. PICK A : slots \in Seq(Slot(A))
  BY DEF IInv, SlotsTyped
<1>2. \A i \in DOMAIN slots : slots[i] \in Slot(A)
  BY <1>1, LenProperties, ElementOfSeq
<1>3. r \in DOMAIN slots /\ slots' = [slots EXCEPT ![r].pinned = TRUE]
  BY DEF pin, Exists
<1> QED BY <1>2, <1>3 DEF Slot, Steady

(* A new handle carries the era of its region.                             *)
LEMMA AllocateDated ==
  ASSUME IInv, Dated, NEW r, NEW size \in Sizes, Allocate(r, size)
  PROVE  Dated'
<1>1. r \in DOMAIN slots /\ size \in Nat
  BY GuestAssumption DEF Allocate, Exists
<1>2. PICK s : s = FreelistAlloc(slots[r].allocator, size, 1)
               /\ slots' = [slots EXCEPT ![r].allocator = s.state]
  BY DEF Allocate
<1>3. PICK n : n = [region_id |-> r, generation |-> slots[r].generation, era |-> era[r],
                    offset |-> s.offset, size |-> size, value |-> Unset]
  OBVIOUS
<1>4. held' = held \cup {n} /\ UNCHANGED <<remaps, era>>
  BY <1>2, <1>3 DEF Allocate, history
<1>5. Steady
  BY <1>1, <1>2, AllocatorSet
<1>6. /\ r \in Nat \ {0} /\ era[r] \in Nat /\ slots[r].generation = Wrap(era[r], LastGen)
      /\ Wrap(era[r], LastGen) \in Nat \ {0}
  <2>1. r \in 1..MaxId /\ LastGen \in Nat \ {0} /\ r \in Nat \ {0}
    BY <1>1, SlotNumbers
  <2>2. era[r] \in Nat /\ slots[r].generation = Wrap(era[r], LastGen)
    BY <1>1, <2>1 DEF Dated
  <2> QED BY <2>1, <2>2, WrapNext
<1>7. n \in HandleOf({s.offset})
  BY <1>1, <1>3, <1>6 DEF HandleOf
<1>8. /\ n.region_id \in DOMAIN slots /\ n.era <= era[n.region_id]
      /\ n.generation = Wrap(n.era, LastGen)
  BY <1>1, <1>3, <1>6
<1> QED BY <1>4, <1>5, <1>7, <1>8, HeldDated DEF Steady

(* Frees, pins, refused compactions and reads.                             *)
LEMMA KeptDated ==
  ASSUME IInv, Dated, NEW r, NEW h,
         Deallocate(h) \/ pin(r) \/ compact_refused(r) \/ Read(h) \/ UNCHANGED vars
  PROVE  Dated'
<1>1. held' \subseteq held /\ UNCHANGED <<remaps, era>>
  BY DEF Deallocate, pin, compact_refused, Read, vars, history
<1>2. CASE Deallocate(h)
  <2>1. h.region_id \in DOMAIN slots
        /\ slots' = [slots EXCEPT ![h.region_id].allocator =
                       FreelistDealloc(slots[h.region_id].allocator, h.offset)]
    BY <1>2 DEF Deallocate, Valid, Exists
  <2>2. Steady
    BY <2>1, AllocatorSet
  <2> QED BY <1>1, <2>2, HeldDated DEF Steady
<1>3. CASE pin(r)
  <2>1. Steady
    BY <1>3, PinSteady
  <2> QED BY <1>1, <2>1, HeldDated DEF Steady
<1>4. CASE slots' = slots
  BY <1>1, <1>4, HeldDated
<1> QED BY <1>2, <1>3, <1>4 DEF compact_refused, Read, vars

(* A handle written through keeps its era.                                 *)
LEMMA WriteDated ==
  ASSUME IInv, Dated, NEW h \in held, NEW v \in Values, Write(h, h.size, v)
  PROVE  Dated'
<1>1. PICK A : h \in HandleOf(A)
  BY DEF Dated
<1>2. PICK n : n = [h EXCEPT !.value = IF InPool(h, h.size) THEN v ELSE h.value]
  OBVIOUS
<1>3. n \in HandleOf(A)
  BY <1>1, <1>2 DEF HandleOf
<1>4. n.region_id = h.region_id /\ n.era = h.era /\ n.generation = h.generation
  BY <1>1, <1>2 DEF HandleOf
<1>5. held' = (held \ {h}) \cup {n} /\ slots' = slots /\ UNCHANGED <<remaps, era>>
  BY <1>2 DEF Write
<1>6. /\ n.region_id \in DOMAIN slots /\ n.era <= era[n.region_id]
      /\ n.generation = Wrap(n.era, LastGen)
  BY <1>4 DEF Dated
<1> QED BY <1>3, <1>5, <1>6, HeldDated

(* A migrated handle is of the era after its remap's.                      *)
LEMMA MigrateDated ==
  ASSUME IInv, Dated, NEW h \in held, NEW m \in remaps, migrate(h, m)
  PROVE  Dated'
<1>1. PICK A : h \in HandleOf(A)
  BY DEF Dated
<1>2. PICK e \in Nat, g \in Nat \ {0} :
        /\ e = m.era + 1 /\ g = m.new_generation /\ g = Wrap(e, LastGen)
        /\ e <= era[h.region_id] /\ h.region_id \in DOMAIN slots
  <2>1. /\ m.era \in Nat /\ m.era + 1 <= era[h.region_id] /\ h.region_id \in DOMAIN slots
        /\ m.new_generation = Wrap(m.era + 1, LastGen)
    BY DEF Dated, migrate
  <2>2. PICK e \in Nat : e = m.era + 1
    BY <2>1
  <2>3. Wrap(e, LastGen) \in Nat \ {0}
    BY SlotNumbers, WrapNext
  <2> QED BY <2>1, <2>2, <2>3
<1>3. PICK n, o : o = m.mapping[h.offset]
                  /\ n = [h EXCEPT !.generation = g, !.offset = o, !.era = e]
  OBVIOUS
<1>4. n \in HandleOf(A \cup {o})
  BY <1>1, <1>3 DEF HandleOf
<1>5. n.region_id = h.region_id /\ n.era = e /\ n.generation = g
  BY <1>1, <1>3 DEF HandleOf
<1>6. held' = (held \ {h}) \cup {n} /\ slots' = slots /\ UNCHANGED <<remaps, era>>
  BY <1>2, <1>3 DEF migrate
<1>7. \A k \in held' \ held : k = n
  BY <1>6
<1> QED BY <1>2, <1>4, <1>5, <1>6, <1>7, HeldDated

(* A compaction takes its region's generation and era one on.              *)
LEMMA CompactDated ==
  ASSUME IInv, Dated, NEW r, directory_compact(r)
  PROVE  Dated'
<1>1. PICK a : /\ r \in DOMAIN slots
               /\ slots' = [slots EXCEPT ![r].generation = NextGen(slots[r].generation),
                                         ![r].allocator = a]
               /\ era' = [era EXCEPT ![r] = era[r] + 1] /\ held' = held
               /\ remaps' \subseteq remaps \cup {Remap(r)}
  BY DEF directory_compact, Exists
<1>2. r \in 1..MaxId /\ LastGen \in Nat \ {0} /\ era[r] \in Nat
  BY <1>1, SlotNumbers DEF Dated
<1>3. PICK A : slots \in Seq(Slot(A))
  BY DEF IInv, SlotsTyped
<1>4. \A i \in DOMAIN slots : slots[i] \in Slot(A)
  BY <1>3, LenProperties, ElementOfSeq
<1>5. /\ DOMAIN slots' = DOMAIN slots
      /\ slots'[r].generation = NextGen(slots[r].generation)
      /\ \A i \in DOMAIN slots \ {r} : slots'[i] = slots[i]
  BY <1>1, <1>4 DEF Slot
<1>6. PICK d \in Nat : d = era[r] /\ slots[r].generation = Wrap(d, LastGen)
  BY <1>1, <1>2 DEF Dated
<1>7. NextGen(slots[r].generation) = Wrap(d + 1, LastGen)
  BY <1>2, <1>6, WrapNext DEF NextGen
<1>8. /\ era' \in [1..MaxId -> Nat] /\ era'[r] = d + 1
      /\ \A i \in 1..MaxId : i # r => era'[i] = era[i]
  BY <1>1, <1>2, <1>6 DEF Dated
<1>9. \A i \in 1..MaxId : era[i] \in Nat /\ era'[i] \in Nat /\ era[i] <= era'[i]
  BY <1>6, <1>8 DEF Dated
<1>10. ASSUME NEW i \in DOMAIN slots PROVE slots'[i].generation = Wrap(era'[i], LastGen)
  <2>1. CASE i = r
    BY <1>5, <1>7, <1>8, <2>1
  <2>2. CASE i # r
    <3>1. slots'[i] = slots[i] /\ era'[i] = era[i]
      BY <1>5, <1>8, <2>2, SlotNumbers
    <3> QED BY <3>1 DEF Dated
  <2> QED BY <2>1, <2>2
<1>11. ASSUME NEW h \in held
       PROVE  /\ h.region_id \in DOMAIN slots /\ h.era <= era'[h.region_id]
              /\ h.generation = Wrap(h.era, LastGen)
  <2>1. /\ h.region_id \in DOMAIN slots /\ h.era <= era[h.region_id]
        /\ h.generation = Wrap(h.era, LastGen) /\ h.era \in Nat
    BY DEF Dated, HandleOf
  <2>2. era[h.region_id] <= era'[h.region_id] /\ era[h.region_id] \in Nat /\ era'[h.region_id] \in Nat
    BY <1>9, <2>1, SlotNumbers
  <2> QED BY <2>1, <2>2
<1>12. ASSUME NEW m \in remaps'
       PROVE  /\ m.region_id \in DOMAIN slots /\ m.era \in Nat
              /\ m.era + 1 <= era'[m.region_id]
              /\ m.new_generation = Wrap(m.era + 1, LastGen)
  <2>1. CASE m \in remaps
    <3>1. /\ m.region_id \in DOMAIN slots /\ m.era \in Nat /\ m.era + 1 <= era[m.region_id]
          /\ m.new_generation = Wrap(m.era + 1, LastGen)
      BY <2>1 DEF Dated
    <3>2. era[m.region_id] <= era'[m.region_id] /\ era[m.region_id] \in Nat /\ era'[m.region_id] \in Nat
      BY <1>9, <3>1, SlotNumbers
    <3> QED BY <3>1, <3>2
  <2>2. CASE m = Remap(r)
    <3>1. m.region_id = r /\ m.era = d /\ m.new_generation = NextGen(slots[r].generation)
      BY <1>6, <2>2 DEF Remap
    <3> QED BY <1>1, <1>7, <1>8, <3>1
  <2> QED BY <1>1, <2>1, <2>2
<1> QED BY <1>1, <1>5, <1>8, <1>10, <1>11, <1>12 DEF Dated

(* Dated is inductive on top of IInv.                                      *)
LEMMA StepDated ==
  ASSUME IInv, Dated, [Next]_vars
  PROVE  Dated'
BY CreateDated, AllocateDated, KeptDated, WriteDated, MigrateDated, CompactDated
   DEF Next, compact_region

(* What the facade accepts are the handles whose region was compacted a    *)
(* multiple of LastGen times since they were issued: stale handles are     *)
(* refused, although a cache hit asks the directory nothing, until the     *)
(* generation has come round to theirs.                                    *)
AcceptedByAge ==
  \A h \in held : Accepted(h) <=> (era[h.region_id] - h.era) % LastGen = 0

(* For any pools, any calls and any width of the generation: the facade    *)
(* refuses exactly the handles whose age is no multiple of LastGen.        *)
THEOREM StaleHandlesRefused == Spec => []AcceptedByAge
<1>1. IInv /\ CacheCurrent /\ Dated => AcceptedByAge
  <2> SUFFICES ASSUME IInv, CacheCurrent, Dated, NEW h \in held
               PROVE  Accepted(h) <=> (era[h.region_id] - h.era) % LastGen = 0
    BY DEF AcceptedByAge
  <2>1. Accepted(h) <=> Valid(h)
    BY DEF CacheCurrent, CacheCoherent, Accepted, Hit, Valid, Empty, Exists
  <2>2. PICK d \in Nat, e \in Nat : d = era[h.region_id] /\ e = h.era
    BY SlotNumbers DEF Dated, HandleOf
  <2>3. Valid(h) <=> Wrap(d, LastGen) = Wrap(e, LastGen)
    BY <2>2 DEF Dated, Valid, Exists
  <2>4. d \in Int /\ e \in Int /\ LastGen \in Nat \ {0}
    BY SlotNumbers
  <2>5. d % LastGen \in 0..(LastGen - 1) /\ e % LastGen \in 0..(LastGen - 1)
    BY <2>4, Division, Zenon
  <2>6. Wrap(d, LastGen) = Wrap(e, LastGen) <=> d % LastGen = e % LastGen
    BY <2>5 DEF Wrap
  <2>7. (d - e) % LastGen = 0 <=> d % LastGen = e % LastGen
    BY <2>4, RemainderEqual, Zenon
  <2> QED BY <2>1, <2>2, <2>3, <2>6, <2>7
<1> QED BY <1>1, InitIInv, StepIInv, CacheInvariance, InitDated, StepDated, PTL DEF Spec

-----------------------------------------------------------------------------
(* Compaction in place *)

(* The copy of block o to its packed offset, and the copies of a set of    *)
(* blocks, the highest last.                                               *)
SlideOne(acc, e, o) ==
  intra_pool_copy(acc, e.base_offset + PackedOffset(e.allocator, o), e.base_offset + o,
                  e.allocator.allocated[o])
Slides(f, m, e, S) ==
  f = [s \in SUBSET S |-> IF s = {} THEN m ELSE SlideOne(f[s \ {Max(s)}], e, Max(s))]

(* The recursive function behind the walk exists.                          *)
LEMMA SlidesExist ==
  ASSUME NEW m, NEW e, NEW n0 \in Nat, NEW S \in SUBSET (0..n0)
  PROVE  \E f : Slides(f, m, e, S)
<1> DEFINE D(n) == {s \in SUBSET S : Cardinality(s) <= n}
           G(f, n) == [s \in D(n) |-> IF s = {} THEN m ELSE SlideOne(f[s \ {Max(s)}], e, Max(s))]
           A == {n \in Nat : \E f : f = G(f, n)}
<1>0. IsFiniteSet(S)
  <2>1. IsFiniteSet(0..n0)
    BY FS_Interval
  <2> QED BY <2>1, FS_Subset
<1>1. \A s \in SUBSET S : IsFiniteSet(s) /\ Cardinality(s) \in Nat /\ Cardinality(s) <= Cardinality(S)
  BY <1>0, FS_Subset, FS_CardinalityType
<1>2. \A s \in SUBSET S : s # {} => /\ s \ {Max(s)} \in SUBSET S
                                   /\ Cardinality(s \ {Max(s)}) = Cardinality(s) - 1
  <2> TAKE s \in SUBSET S
  <2> HAVE s # {}
  <2>1. Max(s) \in s
    BY MaxProperties
  <2> QED BY <1>1, <2>1, FS_RemoveElement
<1>3. 0 \in A
  <2>1. D(0) = {{}}
    BY <1>1, FS_EmptySet
  <2>2. [s \in D(0) |-> m] = G([s \in D(0) |-> m], 0)
    BY <2>1
  <2> QED BY <2>2
<1>4. ASSUME NEW n \in Nat, n \in A PROVE n + 1 \in A
  <2>1. PICK f : f = G(f, n)
    BY <1>4
  <2>2. PICK g : g = G(f, n + 1)
    OBVIOUS
  <2>3. ASSUME NEW s \in D(n) PROVE s \in D(n + 1) /\ g[s] = f[s]
    <3>1. s \in D(n + 1)
      BY <1>1
    <3> QED BY <2>1, <2>2, <3>1
  <2>4. ASSUME NEW s \in D(n + 1), s # {} PROVE g[s] = SlideOne(g[s \ {Max(s)}], e, Max(s))
    <3>1. s \ {Max(s)} \in D(n)
      BY <1>1, <1>2, <2>4
    <3>2. g[s] = SlideOne(f[s \ {Max(s)}], e, Max(s))
      BY <2>2, <2>4
    <3> QED BY <2>3, <3>1, <3>2
  <2>5. ASSUME NEW s \in D(n + 1), s = {} PROVE g[s] = m
    BY <2>2, <2>5
  <2>6. g = G(g, n + 1)
    <3>1. g = [s \in D(n + 1) |-> g[s]]
      BY <2>2
    <3> QED BY <2>4, <2>5, <3>1
  <2>7. \E h : h = G(h, n + 1)
    BY <2>6
  <2> HIDE DEF G
  <2> QED BY <2>7
<1> HIDE DEF A
<1>5. Cardinality(S) \in Nat /\ Cardinality(S) \in A
  BY <1>1, <1>3, <1>4, NaturalsIn
<1>6. PICK f : f = G(f, Cardinality(S))
  BY <1>5 DEF A
<1>7. D(Cardinality(S)) = SUBSET S
  BY <1>1
<1> QED BY <1>6, <1>7 DEF Slides

(* Slid is a value of that function.                                       *)
LEMMA SlidSlides ==
  ASSUME NEW m, NEW e, NEW n0 \in Nat, DOMAIN e.allocator.allocated \in SUBSET (0..n0)
  PROVE  \E f : /\ Slides(f, m, e, DOMAIN e.allocator.allocated)
                /\ Slid(m, e) = f[DOMAIN e.allocator.allocated]
<1> DEFINE f == CHOOSE g : Slides(g, m, e, DOMAIN e.allocator.allocated)
<1>1. Slides(f, m, e, DOMAIN e.allocator.allocated)
  BY SlidesExist
<1>2. Slid(m, e) = f[DOMAIN e.allocator.allocated]
  BY DEF Slid, MapThenFoldSet, Slides, SlideOne
<1> QED BY <1>1, <1>2

(* A region whose books balance, inside its pool.                          *)
Movable(e) ==
  /\ e.base_offset \in Nat /\ e.capacity \in Nat
  /\ e.base_offset + e.capacity <= PoolCapacity
  /\ Balanced(e.allocator, e.capacity)

(* Every block is taken whole to its packed offset, and nothing outside    *)
(* the region changes.                                                     *)
Moved(n, m, w, b, C) ==
  /\ \A o \in DOMAIN w : \A i \in Nat : i < w[o] => n[b + Packed(w, o) + i] = m[b + o + i]
  /\ \A x \in Addresses : x < b \/ b + C <= x => n[x] = m[x]

(* Although the copies overlap, each takes its block whole: blocks moved   *)
(* before end at or below where it starts, and those moved later go above  *)
(* where it has gone.                                                      *)
LEMMA SlidMoves ==
  ASSUME NEW m, NEW e, Movable(e)
  PROVE  Moved(Slid(m, e), m, e.allocator.allocated, e.base_offset, e.capacity)
<1> PICK w, b : w = e.allocator.allocated /\ b = e.base_offset
  OBVIOUS
<1>0. PICK C \in Nat : C = e.capacity
  BY DEF Movable
<1>1. /\ b \in Nat /\ b + C <= PoolCapacity /\ PoolCapacity \in Nat
      /\ w \in Live(C) /\ Apart(w, C)
  BY <1>0, BalancedApart, GuestAssumption DEF Movable
<1>2. /\ DOMAIN w \subseteq Nat /\ IsFiniteSet(DOMAIN w) /\ DOMAIN w \in SUBSET (0..C)
      /\ \A o \in DOMAIN w : o \in Nat /\ w[o] \in Nat \ {0} /\ o + w[o] <= C
      /\ \A o, q \in DOMAIN w : o < q => o + w[o] <= q
  <2>1. DOMAIN w \subseteq 0..(C - 1)
    BY <1>1, LiveType
  <2>2. DOMAIN w \in SUBSET (0..C)
    BY <2>1
  <2> QED BY <1>1, <2>2, LiveType DEF Apart
<1>3. PICK P : P = [o \in DOMAIN w |-> Packed(w, o)]
  OBVIOUS
<1>4. /\ \A o \in DOMAIN w : P[o] = Packed(w, o) /\ P[o] \in Nat /\ P[o] <= o
      /\ \A o, q \in DOMAIN w : o < q => P[o] + w[o] <= P[q]
      /\ \A o \in DOMAIN w : P[o] = PackedOffset(e.allocator, o)
  <2>1. \A o \in DOMAIN w : P[o] = Packed(w, o)
    BY <1>3
  <2> QED BY <1>1, <2>1, PackedApart, PackedIs
<1>5. PICK f : Slides(f, m, e, DOMAIN w) /\ Slid(m, e) = f[DOMAIN w]
  BY <1>0, <1>2, SlidSlides
<1> DEFINE In(o, x) == b + P[o] <= x /\ x < b + P[o] + w[o]
           F == {t \in SUBSET DOMAIN w :
                   /\ \A o \in t : \A i \in Nat : i < w[o] => f[t][b + P[o] + i] = m[b + o + i]
                   /\ \A x \in Addresses : (\A o \in t : ~In(o, x)) => f[t][x] = m[x]}
<1>6. {} \in F
  <2>1. f[{}] = m
    BY <1>5 DEF Slides
  <2> QED BY <2>1
<1>7. ASSUME NEW t \in SUBSET DOMAIN w, t # {}, \A o \in t : t \ {o} \in F
      PROVE  t \in F
  <2>1. PICK M \in t : M = Max(t) /\ \A o \in t : o <= M
    BY <1>0, <1>2, <1>7, MaxProperties
  <2>2. PICK old : old = f[t \ {M}]
    OBVIOUS
  <2>3. /\ \A o \in t \ {M} : \A i \in Nat : i < w[o] => old[b + P[o] + i] = m[b + o + i]
        /\ \A x \in Addresses : (\A o \in t \ {M} : ~In(o, x)) => old[x] = m[x]
    BY <1>7, <2>2
  <2>4. f[t] = SlideOne(old, e, M)
    BY <1>5, <1>7, <2>1, <2>2 DEF Slides
  <2>5. M \in DOMAIN w /\ M \in Nat /\ w[M] \in Nat \ {0} /\ M + w[M] <= C /\ P[M] \in Nat /\ P[M] <= M
    BY <1>2, <1>4
  <2>6. f[t] = [x \in Addresses |-> IF x - (b + P[M]) \in 0..(w[M] - 1)
                                    THEN old[(b + M) + x - (b + P[M])] ELSE old[x]]
    BY <1>4, <2>4, <2>5 DEF SlideOne, intra_pool_copy
  <2>7. \A x \in Addresses : /\ In(M, x) => f[t][x] = old[(b + M) + x - (b + P[M])]
                             /\ ~In(M, x) => f[t][x] = old[x]
    <3> SUFFICES ASSUME NEW x \in Addresses
                 PROVE  x - (b + P[M]) \in 0..(w[M] - 1) <=> In(M, x)
      BY <2>6
    <3>1. x \in Int
      BY <1>1 DEF Addresses
    <3> QED BY <1>1, <2>5, <3>1
  <2>8. \A o \in t \ {M} : o \in Nat /\ w[o] \in Nat /\ P[o] \in Nat /\ P[o] <= o /\ o + w[o] <= M
                           /\ P[o] + w[o] <= P[M] /\ o + w[o] <= C
    <3> SUFFICES ASSUME NEW o \in t \ {M}
                 PROVE  o \in Nat /\ w[o] \in Nat /\ P[o] \in Nat /\ P[o] <= o /\ o + w[o] <= M
                        /\ P[o] + w[o] <= P[M] /\ o + w[o] <= C
      OBVIOUS
    <3>1. o \in DOMAIN w /\ o \in Nat
      BY <1>2
    <3>2. o < M
      BY <2>1, <2>5, <3>1
    <3> QED BY <1>2, <1>4, <2>5, <3>1, <3>2
  <2>9. ASSUME NEW i \in Nat, i < w[M] PROVE f[t][b + P[M] + i] = m[b + M + i]
    <3>1. PICK x \in Nat : x = b + P[M] + i
      BY <1>1, <2>5
    <3>2. PICK y \in Nat : y = b + M + i
      BY <1>1, <2>5
    <3>3. x \in Addresses /\ y \in Addresses /\ In(M, x) /\ (b + M) + x - (b + P[M]) = y
      BY <1>1, <2>5, <2>9, <3>1, <3>2 DEF Addresses
    <3>4. \A o \in t \ {M} : ~In(o, y)
      <4> SUFFICES ASSUME NEW o \in t \ {M} PROVE ~In(o, y)
        OBVIOUS
      <4> QED BY <1>1, <2>5, <2>8, <3>2
    <3>5. f[t][x] = old[y]
      BY <2>7, <3>3
    <3> QED BY <2>3, <3>1, <3>2, <3>3, <3>4, <3>5
  <2>10. ASSUME NEW o \in t, o # M, NEW i \in Nat, i < w[o]
         PROVE  f[t][b + P[o] + i] = m[b + o + i]
    <3>1. PICK x \in Nat : x = b + P[o] + i
      BY <1>1, <2>8, <2>10
    <3>2. x \in Addresses /\ ~In(M, x)
      BY <1>1, <2>5, <2>8, <2>10, <3>1 DEF Addresses
    <3>3. f[t][x] = old[x]
      BY <2>7, <3>2
    <3> QED BY <2>3, <2>10, <3>1, <3>3
  <2>11. ASSUME NEW x \in Addresses, \A o \in t : ~In(o, x) PROVE f[t][x] = m[x]
    BY <2>3, <2>7, <2>11
  <2> QED BY <2>9, <2>10, <2>11
<1>8. DOMAIN w \in F
  <2> HIDE DEF F
  <2> QED BY <1>2, <1>6, <1>7, SubsetsIn
<1>9. \A o \in DOMAIN w : \A i \in Nat : i < w[o] => Slid(m, e)[b + P[o] + i] = m[b + o + i]
  BY <1>5, <1>8
<1>10. ASSUME NEW x \in Addresses, x < b \/ b + C <= x PROVE Slid(m, e)[x] = m[x]
  <2>1. x \in Nat
    BY <1>1 DEF Addresses
  <2>2. ASSUME NEW o \in DOMAIN w PROVE ~In(o, x)
    BY <1>1, <1>2, <1>4, <1>10, <2>1
  <2> QED BY <1>5, <1>8, <2>2
<1>11. Moved(Slid(m, e), m, w, b, C)
  BY <1>4, <1>9, <1>10 DEF Moved
<1> QED BY <1>0, <1>11

-----------------------------------------------------------------------------
(* Handles and their blocks *)

Handles == HandleOf(Nat)

(* Where the block of handle h is now, in its region and in its pool; at   *)
(* maps a region, an era and an offset of then to the present offset.      *)
Pos(at, h) == at[<<h.region_id, h.era, h.offset>>]
Addr(at, h) == slots[h.region_id].base_offset + Pos(at, h)
PoolOf(h) == slots[h.region_id].pool_index
LiveOf(h) == slots[h.region_id].allocator.allocated

HandlesOK ==
  /\ Dated
  /\ held \in SUBSET Handles
  /\ \A m \in remaps : \A o \in DOMAIN m.mapping : o \in Nat /\ m.mapping[o] \in Nat

(* Blocks are where current handles say, and a remap tells where they went.*)
Traced(at) ==
  /\ \A r \in DOMAIN slots : \A o \in Nat : at[<<r, era[r], o>>] = o
  /\ \A m \in remaps : \A o \in DOMAIN m.mapping :
       at[<<m.region_id, m.era, o>>] = at[<<m.region_id, m.era + 1, m.mapping[o]>>]

(* The books of every region balance.                                      *)
Balances ==
  \A r \in DOMAIN slots : /\ slots[r].generation \in Nat \ {0}
                          /\ Balanced(slots[r].allocator, slots[r].capacity)

(* Each handle has a live block of its own, with what was written there.   *)
Owned(at) ==
  /\ \A h \in held : Pos(at, h) \in DOMAIN LiveOf(h) /\ LiveOf(h)[Pos(at, h)] = h.size
  /\ \A h, k \in held : h.region_id = k.region_id /\ Pos(at, h) = Pos(at, k) => h = k
  /\ \A h \in held : h.value # Unset =>
       \A i \in Nat : i < h.size => memory[PoolOf(h)][Addr(at, h) + i] = h.value

GuestHeap(at) ==
  DOMAIN memory = Pools /\ HandlesOK /\ Traced(at) /\ Balances /\ Owned(at)

(* What is known of a slot.                                                *)
LEMMA SlotFacts ==
  ASSUME IInv, Balances, NEW r \in DOMAIN slots
  PROVE  /\ slots[r].base_offset \in Nat /\ slots[r].capacity \in Nat
         /\ slots[r].base_offset + slots[r].capacity <= PoolCapacity
         /\ slots[r].pool_index \in Pools
         /\ slots[r].generation \in Nat \ {0}
         /\ r \in Nat \ {0}
         /\ slots[r].allocator.allocated \in Live(slots[r].capacity)
         /\ Apart(slots[r].allocator.allocated, slots[r].capacity)
<1>1. /\ slots[r].base_offset \in 0..PoolCapacity /\ slots[r].capacity \in Capacities
      /\ slots[r].pool_index \in Pools
  BY DEF IInv, TypeOK
<1>2. slots[r].base_offset + slots[r].capacity <= PoolCapacity
  BY DEF IInv, RegionsDisjoint
<1>3. slots[r].base_offset \in Nat /\ slots[r].capacity \in Nat
  <2>1. slots[r].base_offset \in Nat
    BY <1>1
  <2>2. slots[r].capacity \in Nat
    BY <1>1, GuestAssumption, Zenon
  <2> QED BY <2>1, <2>2
<1>4. r \in Nat \ {0}
  BY DEF IInv, SlotsTyped
<1>5. Balanced(slots[r].allocator, slots[r].capacity) /\ slots[r].generation \in Nat \ {0}
  BY DEF Balances
<1> QED BY <1>1, <1>2, <1>3, <1>4, <1>5, BalancedApart

(* A handle of the present era points at its block.                        *)
LEMMA ValidPos ==
  ASSUME NEW at, GuestHeap(at), NEW h \in held, ~Outdated(h)
  PROVE  Pos(at, h) = h.offset
<1>1. h.offset \in Nat /\ h.region_id \in DOMAIN slots /\ h.era = era[h.region_id]
  BY DEF GuestHeap, HandlesOK, Dated, Handles, HandleOf, Outdated
<1> QED BY <1>1 DEF GuestHeap, Traced, Pos

(* The block of a handle lies in its region.                               *)
LEMMA BlockInside ==
  ASSUME IInv, NEW at, GuestHeap(at), NEW h \in held
  PROVE  /\ h.size \in Nat \ {0} /\ Pos(at, h) \in Nat /\ Addr(at, h) \in Nat
         /\ slots[h.region_id].base_offset <= Addr(at, h)
         /\ Addr(at, h) + h.size <= slots[h.region_id].base_offset + slots[h.region_id].capacity
         /\ Addr(at, h) + h.size <= PoolCapacity
         /\ PoolOf(h) \in Pools
<1>1. PICK r \in DOMAIN slots : r = h.region_id
  BY DEF GuestHeap, HandlesOK, Dated
<1>2. PICK b, C, w :
        /\ b \in Nat /\ C \in Nat /\ w \in Live(C)
        /\ b = slots[r].base_offset /\ C = slots[r].capacity /\ w = slots[r].allocator.allocated
        /\ b + C <= PoolCapacity /\ slots[r].pool_index \in Pools /\ Apart(w, C)
  BY SlotFacts DEF GuestHeap
<1>3. PICK p \in DOMAIN w : p = Pos(at, h) /\ w[p] = h.size
  BY <1>1, <1>2 DEF GuestHeap, Owned, LiveOf
<1>4. p \in Nat /\ w[p] \in Nat \ {0} /\ p + w[p] <= C
  BY <1>2, LiveType DEF Apart
<1>5. Addr(at, h) = b + p /\ PoolOf(h) = slots[r].pool_index
  BY <1>1, <1>2, <1>3 DEF Addr, PoolOf
<1> QED BY <1>1, <1>2, <1>3, <1>4, <1>5, GuestAssumption

(* Blocks of two handles share no byte of a pool.                          *)
LEMMA BlocksApart ==
  ASSUME IInv, NEW at, GuestHeap(at), NEW h \in held, NEW k \in held, h # k,
         PoolOf(h) = PoolOf(k)
  PROVE  Addr(at, h) + h.size <= Addr(at, k) \/ Addr(at, k) + k.size <= Addr(at, h)
<1>1. /\ h.size \in Nat \ {0} /\ Addr(at, h) \in Nat /\ Pos(at, h) \in Nat
      /\ slots[h.region_id].base_offset <= Addr(at, h)
      /\ Addr(at, h) + h.size <= slots[h.region_id].base_offset + slots[h.region_id].capacity
  BY BlockInside
<1>2. /\ k.size \in Nat \ {0} /\ Addr(at, k) \in Nat /\ Pos(at, k) \in Nat
      /\ slots[k.region_id].base_offset <= Addr(at, k)
      /\ Addr(at, k) + k.size <= slots[k.region_id].base_offset + slots[k.region_id].capacity
  BY BlockInside
<1>3. PICK r \in DOMAIN slots, q \in DOMAIN slots : r = h.region_id /\ q = k.region_id
  BY DEF GuestHeap, HandlesOK, Dated
<1>4. CASE r = q
  <2>1. PICK b, C, w :
          /\ b \in Nat /\ C \in Nat /\ w \in Live(C) /\ Apart(w, C)
          /\ b = slots[r].base_offset /\ C = slots[r].capacity
          /\ w = slots[r].allocator.allocated
    BY SlotFacts DEF GuestHeap
  <2>2. /\ Pos(at, h) \in DOMAIN w /\ w[Pos(at, h)] = h.size
        /\ Pos(at, k) \in DOMAIN w /\ w[Pos(at, k)] = k.size
        /\ Pos(at, h) # Pos(at, k)
    BY <1>3, <1>4, <2>1 DEF GuestHeap, Owned, LiveOf
  <2>3. Pos(at, h) + h.size <= Pos(at, k) \/ Pos(at, k) + k.size <= Pos(at, h)
    BY <1>1, <1>2, <2>2, <2>1 DEF Apart
  <2>4. Addr(at, h) = b + Pos(at, h) /\ Addr(at, k) = b + Pos(at, k)
    BY <1>3, <1>4, <2>1 DEF Addr
  <2> QED BY <1>1, <1>2, <2>1, <2>3, <2>4
<1>5. CASE r # q
  <2>1. PICK b \in Nat, C \in Nat : b = slots[r].base_offset /\ C = slots[r].capacity
    BY SlotFacts DEF GuestHeap
  <2>2. PICK d \in Nat, E \in Nat : d = slots[q].base_offset /\ E = slots[q].capacity
    BY SlotFacts DEF GuestHeap
  <2>3. (b..(b + C - 1)) \cap (d..(d + E - 1)) = {}
    BY <1>3, <1>5, <2>1, <2>2 DEF IInv, RegionsDisjoint, Extent, PoolOf
  <2>4. C # 0 /\ E # 0
    BY <1>1, <1>2, <1>3, <2>1, <2>2
  <2>5. b + C <= d \/ d + E <= b
    <3>1. ~(b \in d..(d + E - 1)) /\ ~(d \in b..(b + C - 1))
      <4>1. b \in b..(b + C - 1) /\ d \in d..(d + E - 1)
        BY <2>1, <2>2, <2>4
      <4> QED BY <2>3, <4>1
    <3> QED BY <2>1, <2>2, <3>1
  <2> QED BY <1>1, <1>2, <1>3, <2>1, <2>2, <2>5
<1> QED BY <1>4, <1>5

(* While the slots stay, what has to be shown of a step is the books and   *)
(* the handles.                                                            *)
LEMMA SteadyHeap ==
  ASSUME NEW at, GuestHeap(at), Steady, DOMAIN memory' = DOMAIN memory,
         UNCHANGED <<remaps, era>>, Dated', held' \in SUBSET Handles,
         \A r \in DOMAIN slots : Balanced(slots'[r].allocator, slots[r].capacity),
         Owned(at)'
  PROVE  GuestHeap(at)'
<1>1. HandlesOK'
  BY DEF GuestHeap, HandlesOK, Steady
<1>2. Traced(at)'
  BY DEF GuestHeap, HandlesOK, Traced, Steady
<1>3. Balances'
  BY DEF GuestHeap, Balances, Steady
<1>4. DOMAIN memory' = Pools
  BY DEF GuestHeap
<1> QED BY <1>1, <1>2, <1>3, <1>4 DEF GuestHeap

(* A step that touches neither allocators nor handles nor bytes.           *)
LEMMA QuietHeap ==
  ASSUME NEW at, GuestHeap(at), Steady, Dated',
         \A r \in DOMAIN slots : slots'[r].allocator = slots[r].allocator,
         UNCHANGED <<memory, held, remaps, era>>
  PROVE  GuestHeap(at)'
<1>1. Owned(at)'
  <2>1. \A h \in held : h.region_id \in DOMAIN slots
    BY DEF GuestHeap, HandlesOK, Dated
  <2> QED BY <2>1 DEF GuestHeap, Owned, Pos, Addr, PoolOf, LiveOf, Steady
<1>2. \A r \in DOMAIN slots : Balanced(slots'[r].allocator, slots[r].capacity)
  BY DEF GuestHeap, Balances
<1>3. held' \in SUBSET Handles
  BY DEF GuestHeap, HandlesOK
<1> QED BY <1>1, <1>2, <1>3, SteadyHeap

(* A pin.                                                                  *)
LEMMA PinHeap ==
  ASSUME IInv, NEW at, GuestHeap(at), NEW r, pin(r), Dated'
  PROVE  GuestHeap(at)'
BY PinSteady, QuietHeap DEF pin, history

(* An allocation: no handle has the new block.                             *)
LEMMA AllocateHeap ==
  ASSUME IInv, NEW at, GuestHeap(at), NEW r, NEW size \in Sizes, Allocate(r, size), Dated'
  PROVE  GuestHeap(at)'
<1>1. r \in DOMAIN slots /\ size \in Nat
  BY GuestAssumption DEF Allocate, Exists
<1>2. PICK a : a = slots[r].allocator
  OBVIOUS
<1>3. PICK C \in Nat : C = slots[r].capacity /\ Balanced(a, C) /\ a.allocated \in Live(C)
                       /\ slots[r].generation \in Nat \ {0} /\ r \in Nat \ {0}
  BY <1>1, <1>2, SlotFacts DEF GuestHeap, Balances
<1>4. PICK s : s = FreelistAlloc(a, size, 1) /\ s.offset # NoOffset
               /\ slots' = [slots EXCEPT ![r].allocator = s.state]
  BY <1>2 DEF Allocate
<1>5. Gained(a, s, size, 1, C)
  BY <1>1, <1>3, <1>4, AllocBalanced
<1>6. PICK o \in Nat : o = s.offset /\ o \notin DOMAIN a.allocated
                       /\ s.state.allocated = Grown(a.allocated, o, size)
  BY <1>3, <1>5 DEF Gained
<1>7. PICK n : n = [region_id |-> r, generation |-> slots[r].generation, era |-> era[r],
                    offset |-> o, size |-> size, value |-> Unset]
  OBVIOUS
<1>8. n \in Handles
  <2>1. era[r] \in Nat
    BY <1>1, SlotNumbers DEF GuestHeap, HandlesOK, Dated
  <2> QED BY <1>1, <1>3, <1>7, <2>1 DEF Handles, HandleOf
<1>9. held' = held \cup {n} /\ UNCHANGED <<memory, remaps, era>>
  BY <1>2, <1>4, <1>6, <1>7 DEF Allocate, history
<1>10. /\ Steady /\ slots'[r].allocator = s.state
       /\ \A i \in DOMAIN slots \ {r} : slots'[i] = slots[i]
  BY <1>1, <1>4, AllocatorSet
<1>11. Pos(at, n) = o
  BY <1>1, <1>7 DEF GuestHeap, Traced, Pos
<1>12. \A h \in held : h.region_id \in DOMAIN slots
  BY DEF GuestHeap, HandlesOK, Dated
<1>13. \A x \in DOMAIN a.allocated : x \in DOMAIN s.state.allocated /\ s.state.allocated[x] = a.allocated[x]
  BY <1>6 DEF Grown
<1>14. o \in DOMAIN s.state.allocated /\ s.state.allocated[o] = size
  BY <1>6 DEF Grown
<1>15. (\A h \in held : Pos(at, h) \in DOMAIN LiveOf(h) /\ LiveOf(h)[Pos(at, h)] = h.size)'
  <2> SUFFICES ASSUME NEW h \in held'
               PROVE  /\ Pos(at, h) \in DOMAIN slots'[h.region_id].allocator.allocated
                      /\ slots'[h.region_id].allocator.allocated[Pos(at, h)] = h.size
    BY DEF Pos, LiveOf
  <2>1. CASE h = n
    <3>1. h.region_id = r /\ h.size = size /\ Pos(at, h) = o
      BY <1>7, <1>11, <2>1
    <3> QED BY <1>10, <1>14, <3>1
  <2>2. CASE h \in held
    <3>1. Pos(at, h) \in DOMAIN LiveOf(h) /\ LiveOf(h)[Pos(at, h)] = h.size
      BY <2>2 DEF GuestHeap, Owned
    <3> QED BY <1>2, <1>10, <1>12, <1>13, <2>2, <3>1 DEF LiveOf
  <2> QED BY <1>9, <2>1, <2>2
<1>16. (\A h, k \in held : h.region_id = k.region_id /\ Pos(at, h) = Pos(at, k) => h = k)'
  <2>1. \A h \in held : h.region_id = r => Pos(at, h) # o
    BY <1>2, <1>6 DEF GuestHeap, Owned, LiveOf
  <2>2. n.region_id = r
    BY <1>7
  <2>3. \A h, k \in held : h.region_id = k.region_id /\ Pos(at, h) = Pos(at, k) => h = k
    BY DEF GuestHeap, Owned
  <2> SUFFICES ASSUME NEW h \in held', NEW k \in held', h.region_id = k.region_id, Pos(at, h) = Pos(at, k)
               PROVE  h = k
    BY DEF Pos
  <2> QED BY <1>9, <1>11, <2>1, <2>2, <2>3
<1>17. (\A h \in held : h.value # Unset =>
          \A i \in Nat : i < h.size => memory[PoolOf(h)][Addr(at, h) + i] = h.value)'
  <2> SUFFICES ASSUME NEW h \in held', h.value # Unset, NEW i \in Nat, i < h.size
               PROVE  memory'[slots'[h.region_id].pool_index]
                         [slots'[h.region_id].base_offset + Pos(at, h) + i] = h.value
    BY DEF Pos, Addr, PoolOf
  <2>1. h \in held
    BY <1>7, <1>9
  <2>2. memory[PoolOf(h)][Addr(at, h) + i] = h.value
    BY <2>1 DEF GuestHeap, Owned
  <2> QED BY <1>9, <1>10, <1>12, <2>1, <2>2 DEF Steady, Addr, PoolOf
<1>18. Owned(at)'
  BY <1>15, <1>16, <1>17 DEF Owned
<1>19. \A i \in DOMAIN slots : Balanced(slots'[i].allocator, slots[i].capacity)
  BY <1>3, <1>5, <1>10 DEF GuestHeap, Balances, Gained
<1>20. held' \in SUBSET Handles
  BY <1>8, <1>9 DEF GuestHeap, HandlesOK
<1> QED BY <1>9, <1>10, <1>18, <1>19, <1>20, SteadyHeap

(* A free: the other handles keep their blocks.                            *)
LEMMA DeallocateHeap ==
  ASSUME IInv, NEW at, GuestHeap(at), NEW h \in held, Deallocate(h), ~Outdated(h), Dated'
  PROVE  GuestHeap(at)'
<1>1. PICK r, a : r \in DOMAIN slots /\ r = h.region_id /\ a = slots[r].allocator
  BY DEF GuestHeap, HandlesOK, Dated
<1>2. PICK C \in Nat : C = slots[r].capacity /\ Balanced(a, C)
  BY <1>1, SlotFacts DEF GuestHeap, Balances
<1>3. PICK o \in DOMAIN a.allocated : o = h.offset /\ Pos(at, h) = o
  BY <1>1, ValidPos DEF Deallocate
<1>4. /\ slots' = [slots EXCEPT ![r].allocator = FreelistDealloc(a, o)]
      /\ held' = held \ {h} /\ UNCHANGED <<memory, remaps, era>>
  BY <1>1, <1>3 DEF Deallocate
<1>5. PICK b : b = FreelistDealloc(a, o) /\ Balanced(b, C) /\ b.allocated = Shrunk(a.allocated, o)
  BY <1>2, DeallocBalanced
<1>6. /\ Steady /\ slots'[r].allocator = b
      /\ \A i \in DOMAIN slots \ {r} : slots'[i] = slots[i]
  BY <1>1, <1>4, <1>5, AllocatorSet
<1>7. \A x \in DOMAIN a.allocated \ {o} : x \in DOMAIN b.allocated /\ b.allocated[x] = a.allocated[x]
  BY <1>5 DEF Shrunk
<1>8. \A k \in held : k.region_id \in DOMAIN slots
  BY DEF GuestHeap, HandlesOK, Dated
<1>9. (\A k \in held : Pos(at, k) \in DOMAIN LiveOf(k) /\ LiveOf(k)[Pos(at, k)] = k.size)'
  <2> SUFFICES ASSUME NEW k \in held \ {h}
               PROVE  /\ Pos(at, k) \in DOMAIN slots'[k.region_id].allocator.allocated
                      /\ slots'[k.region_id].allocator.allocated[Pos(at, k)] = k.size
    BY <1>4 DEF Pos, LiveOf
  <2>1. Pos(at, k) \in DOMAIN LiveOf(k) /\ LiveOf(k)[Pos(at, k)] = k.size
    BY DEF GuestHeap, Owned
  <2>2. k.region_id = r => Pos(at, k) # o
    BY <1>1, <1>3 DEF GuestHeap, Owned
  <2> QED BY <1>1, <1>6, <1>7, <1>8, <2>1, <2>2 DEF LiveOf
<1>10. (\A k, l \in held : k.region_id = l.region_id /\ Pos(at, k) = Pos(at, l) => k = l)'
  BY <1>4 DEF GuestHeap, Owned, Pos
<1>11. (\A k \in held : k.value # Unset =>
          \A i \in Nat : i < k.size => memory[PoolOf(k)][Addr(at, k) + i] = k.value)'
  <2> SUFFICES ASSUME NEW k \in held, k.value # Unset, NEW i \in Nat, i < k.size
               PROVE  memory'[slots'[k.region_id].pool_index]
                         [slots'[k.region_id].base_offset + Pos(at, k) + i] = k.value
    BY <1>4 DEF Pos, Addr, PoolOf
  <2>2. memory[PoolOf(k)][Addr(at, k) + i] = k.value
    BY DEF GuestHeap, Owned
  <2> QED BY <1>4, <1>6, <1>8, <2>2 DEF Steady, Addr, PoolOf
<1>12. Owned(at)'
  BY <1>9, <1>10, <1>11 DEF Owned
<1>13. \A i \in DOMAIN slots : Balanced(slots'[i].allocator, slots[i].capacity)
  BY <1>2, <1>5, <1>6 DEF GuestHeap, Balances
<1>14. held' \in SUBSET Handles
  BY <1>4 DEF GuestHeap, HandlesOK
<1> QED BY <1>4, <1>6, <1>12, <1>13, <1>14, SteadyHeap

(* Handle h gives way to n, which has the same block; the bytes of other   *)
(* blocks stay.                                                            *)
LEMMA ReplaceHeap ==
  ASSUME NEW at, GuestHeap(at), NEW h \in held, NEW n \in Handles,
         n.region_id = h.region_id, n.size = h.size, Pos(at, n) = Pos(at, h), Dated',
         held' = (held \ {h}) \cup {n}, UNCHANGED <<slots, remaps, era>>,
         DOMAIN memory' = DOMAIN memory,
         n.value # Unset =>
           \A i \in Nat : i < h.size => memory'[PoolOf(h)][Addr(at, h) + i] = n.value,
         \A k \in held \ {h} : \A i \in Nat : i < k.size =>
           memory'[PoolOf(k)][Addr(at, k) + i] = memory[PoolOf(k)][Addr(at, k) + i]
  PROVE  GuestHeap(at)'
<1>1. Steady
  BY DEF Steady
<1>2. (\A k \in held : Pos(at, k) \in DOMAIN LiveOf(k) /\ LiveOf(k)[Pos(at, k)] = k.size)'
  <2> SUFFICES ASSUME NEW k \in held'
               PROVE  Pos(at, k) \in DOMAIN LiveOf(k) /\ LiveOf(k)[Pos(at, k)] = k.size
    BY DEF Pos, LiveOf
  <2>1. CASE k = n
    BY <2>1 DEF GuestHeap, Owned, LiveOf
  <2>2. CASE k \in held
    BY <2>2 DEF GuestHeap, Owned
  <2> QED BY <2>1, <2>2
<1>3. (\A k, l \in held : k.region_id = l.region_id /\ Pos(at, k) = Pos(at, l) => k = l)'
  <2>1. \A k, l \in held : k.region_id = l.region_id /\ Pos(at, k) = Pos(at, l) => k = l
    BY DEF GuestHeap, Owned
  <2> SUFFICES ASSUME NEW k \in held', NEW l \in held', k.region_id = l.region_id, Pos(at, k) = Pos(at, l)
               PROVE  k = l
    BY DEF Pos
  <2> QED BY <2>1
<1>4. (\A k \in held : k.value # Unset =>
          \A i \in Nat : i < k.size => memory[PoolOf(k)][Addr(at, k) + i] = k.value)'
  <2> SUFFICES ASSUME NEW k \in held', k.value # Unset, NEW i \in Nat, i < k.size
               PROVE  memory'[PoolOf(k)][Addr(at, k) + i] = k.value
    BY DEF Pos, Addr, PoolOf
  <2>1. CASE k = n
    BY <2>1 DEF Addr, PoolOf
  <2>2. CASE k \in held \ {h}
    BY <2>2 DEF GuestHeap, Owned
  <2> QED BY <2>1, <2>2
<1>5. Owned(at)'
  BY <1>2, <1>3, <1>4 DEF Owned
<1>6. \A r \in DOMAIN slots : Balanced(slots'[r].allocator, slots[r].capacity)
  BY DEF GuestHeap, Balances
<1>7. held' \in SUBSET Handles
  BY DEF GuestHeap, HandlesOK
<1> QED BY <1>1, <1>5, <1>6, <1>7, SteadyHeap

(* An accepted handle is valid, and if of the present era resolves to its  *)
(* block, whether or not the cache knew it.                                *)
LEMMA ResolvesToBlock ==
  ASSUME IInv, CacheCurrent, NEW at, GuestHeap(at), NEW h \in held, Accepted(h), ~Outdated(h)
  PROVE  /\ Valid(h) /\ InPool(h, h.size)
         /\ cached_resolve(h) = <<PoolOf(h), Addr(at, h)>>
         /\ Reached(h, h.size) = Addr(at, h)..(Addr(at, h) + h.size - 1)
<1>1. Valid(h)
  BY DEF CacheCurrent, CacheCoherent, Accepted, Hit, Valid, Empty, Exists
<1>2. Pos(at, h) = h.offset
  BY ValidPos
<1>3. cached_resolve(h) = <<slots[h.region_id].pool_index, slots[h.region_id].base_offset + h.offset>>
  BY DEF CacheCurrent, CacheCoherent, cached_resolve, Hit, Empty
<1>4. cached_resolve(h) = <<PoolOf(h), Addr(at, h)>>
  BY <1>2, <1>3 DEF PoolOf, Addr
<1>5. Addr(at, h) + h.size <= PoolCapacity
  BY BlockInside
<1> QED BY <1>1, <1>4, <1>5 DEF InPool, Reached

(* A write fills its own block only.                                       *)
LEMMA WriteHeap ==
  ASSUME IInv, CacheCurrent, NEW at, GuestHeap(at), NEW h \in held, NEW v \in Values,
         Write(h, h.size, v), ~Outdated(h), Dated'
  PROVE  GuestHeap(at)'
<1>1. /\ Valid(h) /\ InPool(h, h.size) /\ cached_resolve(h)[1] = PoolOf(h)
      /\ Reached(h, h.size) = Addr(at, h)..(Addr(at, h) + h.size - 1)
  <2>1. Accepted(h)
    BY DEF Write
  <2> QED BY <2>1, ResolvesToBlock
<1>2. h \in Handles
  BY DEF GuestHeap, HandlesOK
<1>3. PICK n \in Handles :
        /\ n = [h EXCEPT !.value = v] /\ n.region_id = h.region_id /\ n.size = h.size
        /\ n.era = h.era /\ n.offset = h.offset /\ n.value = v
  <2>1. [h EXCEPT !.value = v] \in Handles
    BY <1>2 DEF Handles, HandleOf
  <2>2. PICK x : x = [h EXCEPT !.value = v]
    OBVIOUS
  <2>3. /\ x.region_id = h.region_id /\ x.size = h.size
        /\ x.era = h.era /\ x.offset = h.offset /\ x.value = v
    BY <1>2, <2>2 DEF Handles, HandleOf
  <2> QED BY <2>1, <2>2, <2>3
<1>4. /\ held' = (held \ {h}) \cup {n} /\ UNCHANGED <<slots, remaps, era>>
      /\ memory' = [memory EXCEPT ![PoolOf(h)] =
           [i \in Addresses |-> IF i \in Addr(at, h)..(Addr(at, h) + h.size - 1) THEN v
                                ELSE memory[PoolOf(h)][i]]]
  BY <1>1, <1>3 DEF Write
<1>5. /\ h.size \in Nat /\ Addr(at, h) \in Nat /\ Addr(at, h) + h.size <= PoolCapacity
      /\ PoolOf(h) \in Pools /\ DOMAIN memory = Pools
  BY BlockInside DEF GuestHeap
<1>6. \A i \in Addresses :
        memory'[PoolOf(h)][i] = IF i \in Addr(at, h)..(Addr(at, h) + h.size - 1) THEN v
                                ELSE memory[PoolOf(h)][i]
  BY <1>4, <1>5
<1>7. ASSUME NEW i \in Nat, i < h.size PROVE memory'[PoolOf(h)][Addr(at, h) + i] = v
  <2>1. PICK x : x = Addr(at, h) + i
    OBVIOUS
  <2>2. x \in Addresses /\ x \in Addr(at, h)..(Addr(at, h) + h.size - 1)
    BY <1>5, <1>7, <2>1, GuestAssumption DEF Addresses
  <2> QED BY <1>6, <2>1, <2>2
<1>8. ASSUME NEW k \in held \ {h}, NEW i \in Nat, i < k.size
      PROVE  memory'[PoolOf(k)][Addr(at, k) + i] = memory[PoolOf(k)][Addr(at, k) + i]
  <2>1. CASE PoolOf(k) # PoolOf(h)
    BY <1>4, <2>1
  <2>2. CASE PoolOf(k) = PoolOf(h)
    <3>1. k.size \in Nat /\ Addr(at, k) \in Nat /\ Addr(at, k) + k.size <= PoolCapacity
      BY BlockInside
    <3>2. Addr(at, h) + h.size <= Addr(at, k) \/ Addr(at, k) + k.size <= Addr(at, h)
      BY <2>2, BlocksApart
    <3>3. PICK x : x = Addr(at, k) + i
      OBVIOUS
    <3>4. x \in Addresses /\ x \notin Addr(at, h)..(Addr(at, h) + h.size - 1)
      BY <1>5, <1>8, <3>1, <3>2, <3>3, GuestAssumption DEF Addresses
    <3> QED BY <1>6, <2>2, <3>3, <3>4
  <2> QED BY <2>1, <2>2
<1>9. Pos(at, n) = Pos(at, h)
  BY <1>3 DEF Pos
<1>10. DOMAIN memory' = DOMAIN memory
  BY <1>4
<1> QED BY <1>3, <1>4, <1>7, <1>8, <1>9, <1>10, ReplaceHeap

(* A migrated handle keeps its block.                                      *)
LEMMA MigrateHeap ==
  ASSUME NEW at, GuestHeap(at), NEW h \in held, NEW m \in remaps, migrate(h, m),
         m.era = h.era, Dated'
  PROVE  GuestHeap(at)'
<1>1. h \in Handles /\ h.region_id = m.region_id /\ h.offset \in DOMAIN m.mapping
  BY DEF GuestHeap, HandlesOK, migrate
<1>2. PICK g, e, o : g = m.new_generation /\ e = m.era + 1 /\ o = m.mapping[h.offset]
  OBVIOUS
<1>3. PICK n : n = [h EXCEPT !.generation = g, !.offset = o, !.era = e]
  OBVIOUS
<1>4. /\ n.region_id = h.region_id /\ n.era = e /\ n.offset = o /\ n.size = h.size
      /\ n.value = h.value
  BY <1>1, <1>3 DEF Handles, HandleOf
<1>5. held' = (held \ {h}) \cup {n} /\ UNCHANGED <<slots, remaps, era, memory>>
  BY <1>2, <1>3 DEF migrate
<1>6. n \in Handles
  <2>1. PICK A : n \in HandleOf(A)
    BY <1>5 DEF Dated
  <2>2. n.offset \in Nat
    BY <1>1, <1>2, <1>4 DEF GuestHeap, HandlesOK
  <2> QED BY <2>1, <2>2 DEF Handles, HandleOf
<1>7. Pos(at, n) = Pos(at, h)
  BY <1>1, <1>2, <1>4 DEF GuestHeap, Traced, Pos
<1>8. n.value # Unset => \A i \in Nat : i < h.size => memory'[PoolOf(h)][Addr(at, h) + i] = n.value
  BY <1>4, <1>5 DEF GuestHeap, Owned
<1> QED BY <1>4, <1>5, <1>6, <1>7, <1>8, ReplaceHeap

(* A new region has no blocks, and no handle names it yet.                 *)
LEMMA CreateHeap ==
  ASSUME IInv, NEW at, GuestHeap(at), NEW p \in Policies, NEW capacity \in Capacities,
         create_region(p, capacity), Dated'
  PROVE  \E to : GuestHeap(to)'
<1>1. UNCHANGED <<memory, held, remaps, era>>
  BY DEF create_region, history
<1>2. CASE slots' = slots
  <2>1. Steady /\ \A r \in DOMAIN slots : slots'[r].allocator = slots[r].allocator
    BY <1>2 DEF Steady
  <2> QED BY <1>1, <2>1, QuietHeap
<1>3. ASSUME NEW e, e.generation = 1, e.capacity = capacity, e.allocator = FreelistNew(capacity),
             slots' = Append(slots, e), next_id < MaxId
      PROVE  \E to : GuestHeap(to)'
  <2>1. PICK n \in Nat : n = Len(slots) /\ DOMAIN slots = 1..n
    BY DEF IInv, SlotsTyped
  <2>2. /\ DOMAIN slots' = 1..(n + 1) /\ slots'[n + 1] = e
        /\ \A i \in DOMAIN slots : slots'[i] = slots[i]
    <3>1. PICK A : slots \in Seq(Slot(A))
      BY DEF IInv, SlotsTyped
    <3> QED BY <1>3, <2>1, <3>1
  <2>3. DOMAIN slots \subseteq DOMAIN slots' /\ n + 1 \notin DOMAIN slots
        /\ \A i \in DOMAIN slots' : i \in DOMAIN slots \/ i = n + 1
    BY <2>1, <2>2
  <2>4. PICK to : to = [q \in Nat \X Nat \X Nat |-> IF q[1] = n + 1 THEN q[3] ELSE at[q]]
    OBVIOUS
  <2>5. ASSUME NEW r \in Nat, NEW g \in Nat, NEW o \in Nat
        PROVE  /\ r = n + 1 => to[<<r, g, o>>] = o
               /\ r # n + 1 => to[<<r, g, o>>] = at[<<r, g, o>>]
    BY <2>4
  <2>6. /\ \A i \in DOMAIN slots : i \in Nat /\ era[i] \in Nat
        /\ \A i \in DOMAIN slots' : era[i] \in Nat
    <3>1. DOMAIN slots' \subseteq 1..MaxId
      BY <1>3, <2>1, <2>3, SlotNumbers DEF IInv, TypeOK
    <3> QED BY <2>1, <2>3, <3>1, SlotNumbers DEF GuestHeap, HandlesOK, Dated
  <2>7. \A h \in held : h.region_id \in DOMAIN slots /\ h.era \in Nat /\ h.offset \in Nat
    BY DEF GuestHeap, HandlesOK, Dated, Handles, HandleOf
  <2>8. \A h \in held : Pos(to, h) = Pos(at, h)
    BY <2>3, <2>5, <2>6, <2>7 DEF Pos
  <2>9. HandlesOK'
    BY <1>1, <2>2, <2>3 DEF GuestHeap, HandlesOK
  <2>10. Traced(to)'
    <3>1. ASSUME NEW r \in DOMAIN slots', NEW o \in Nat PROVE to[<<r, era[r], o>>] = o
      <4>1. CASE r \in DOMAIN slots
        BY <2>2, <2>3, <2>5, <2>6, <4>1 DEF GuestHeap, Traced
      <4>2. CASE r = n + 1
        BY <2>1, <2>5, <2>6, <4>2
      <4> QED BY <2>3, <4>1, <4>2
    <3>2. ASSUME NEW m \in remaps, NEW o \in DOMAIN m.mapping
          PROVE  to[<<m.region_id, m.era, o>>] = to[<<m.region_id, m.era + 1, m.mapping[o]>>]
      <4>1. /\ m.region_id \in DOMAIN slots /\ m.region_id \in Nat
            /\ m.era \in Nat /\ m.era + 1 \in Nat
            /\ o \in Nat /\ m.mapping[o] \in Nat
        BY <2>6 DEF GuestHeap, HandlesOK, Dated
      <4>2. m.region_id # n + 1
        BY <2>3, <4>1
      <4> QED BY <2>5, <4>1, <4>2 DEF GuestHeap, Traced
    <3> QED BY <1>1, <3>1, <3>2 DEF Traced
  <2>11. Balances'
    <3>1. capacity \in Nat
      BY GuestAssumption
    <3>2. Balanced(e.allocator, e.capacity)
      BY <1>3, <3>1, NewBalanced
    <3> QED BY <1>3, <2>2, <2>3, <3>2 DEF GuestHeap, Balances
  <2>12. Owned(to)'
    <3>1. \A h \in held : /\ Pos(to, h) \in DOMAIN LiveOf(h) /\ LiveOf(h)[Pos(to, h)] = h.size
                          /\ h.value # Unset => \A i \in Nat : i < h.size =>
                               memory[PoolOf(h)][Addr(to, h) + i] = h.value
      BY <2>8 DEF GuestHeap, Owned, Addr
    <3>2. \A h, k \in held : h.region_id = k.region_id /\ Pos(to, h) = Pos(to, k) => h = k
      BY <2>8 DEF GuestHeap, Owned
    <3>3. \A h \in held : /\ Pos(to, h)' = Pos(to, h) /\ LiveOf(h)' = LiveOf(h)
                          /\ PoolOf(h)' = PoolOf(h) /\ Addr(to, h)' = Addr(to, h)
      BY <2>2, <2>7 DEF Pos, Addr, PoolOf, LiveOf
    <3>4. held' = held /\ memory' = memory
      BY <1>1
    <3>5. \A h \in held : Pos(to, h)' \in DOMAIN LiveOf(h)' /\ LiveOf(h)'[Pos(to, h)'] = h.size
      BY <3>1, <3>3
    <3>6. \A h \in held : h.value # Unset => \A i \in Nat : i < h.size =>
            memory'[PoolOf(h)'][Addr(to, h)' + i] = h.value
      BY <3>1, <3>3, <3>4
    <3>7. \A h, k \in held : h.region_id = k.region_id /\ Pos(to, h)' = Pos(to, k)' => h = k
      BY <3>2, <3>3
    <3> QED BY <3>4, <3>5, <3>6, <3>7 DEF Owned
  <2>13. DOMAIN memory' = Pools
    BY <1>1 DEF GuestHeap
  <2> QED BY <2>9, <2>10, <2>11, <2>12, <2>13 DEF GuestHeap
<1>4. \/ slots' = slots
      \/ /\ next_id < MaxId
         /\ \E e : /\ e.generation = 1 /\ e.capacity = capacity /\ e.allocator = FreelistNew(capacity)
                   /\ slots' = Append(slots, e)
  <2>1. ASSUME NEW band, NEW choice,
               slots' = Append(slots,
                 [id |-> next_id, generation |-> 1, pinned |-> FALSE, pinnable |-> p.pinnable,
                  pool_index |-> choice.pool, base_offset |-> used[choice.pool],
                  capacity |-> capacity, allocator |-> FreelistNew(capacity)])
        PROVE  \E e : /\ e.generation = 1 /\ e.capacity = capacity
                      /\ e.allocator = FreelistNew(capacity) /\ slots' = Append(slots, e)
    <3>1. PICK e : e = [id |-> next_id, generation |-> 1, pinned |-> FALSE, pinnable |-> p.pinnable,
                        pool_index |-> choice.pool, base_offset |-> used[choice.pool],
                        capacity |-> capacity, allocator |-> FreelistNew(capacity)]
      OBVIOUS
    <3> QED BY <2>1, <3>1
  <2> QED BY <2>1 DEF create_region
<1> QED BY <1>2, <1>3, <1>4

(* Compaction in place takes every block of its region, and what the       *)
(* handles stand for, to its packed offset, and touches no other region.   *)
LEMMA CompactHeap ==
  ASSUME IInv, NEW at, GuestHeap(at), NEW r, directory_compact(r), Dated'
  PROVE  \E to : GuestHeap(to)'
<1>1. r \in DOMAIN slots
  BY DEF directory_compact, Exists
<1>2. PICK e, a, C, b, g :
        /\ e = slots[r] /\ a = e.allocator /\ C = e.capacity /\ b = e.base_offset
        /\ g = NextGen(e.generation)
  OBVIOUS
<1>3. /\ C \in Nat /\ b \in Nat /\ g \in Nat \ {0} /\ r \in Nat \ {0} /\ b + C <= PoolCapacity
      /\ Balanced(a, C) /\ e.pool_index \in Pools /\ Movable(e)
  <2>1. e.generation \in Nat \ {0}
    BY <1>1, <1>2, SlotFacts DEF GuestHeap
  <2>2. g \in Nat \ {0}
    BY <1>2, <2>1 DEF NextGen
  <2> QED BY <1>1, <1>2, <2>2, SlotFacts DEF GuestHeap, Balances, Movable
<1>4. PICK w \in Live(C) : w = a.allocated /\ Apart(w, C)
  BY <1>3, BalancedApart
<1>5. \A o \in DOMAIN w : o \in Nat /\ w[o] \in Nat \ {0} /\ Packed(w, o) \in Nat
  BY <1>3, <1>4, LiveType, PackedApart
<1>6. PICK v : /\ v = FreelistRebuild(a, C) /\ Balanced(v, C) /\ PackedTo(v.allocated, w)
  BY <1>3, <1>4, RebuildBalanced
<1>7. /\ memory' = [memory EXCEPT ![e.pool_index] = Slid(memory[e.pool_index], e)]
      /\ slots' = [slots EXCEPT ![r].generation = g, ![r].allocator = v]
      /\ remaps' \subseteq remaps \cup {Remap(r)}
      /\ held' = held /\ era' = [era EXCEPT ![r] = era[r] + 1]
  BY <1>2, <1>6 DEF directory_compact
<1>8. /\ DOMAIN slots' = DOMAIN slots
      /\ \A i \in DOMAIN slots : /\ slots'[i].pool_index = slots[i].pool_index
                                 /\ slots'[i].base_offset = slots[i].base_offset
                                 /\ slots'[i].capacity = slots[i].capacity
      /\ slots'[r].generation = g /\ slots'[r].allocator = v
      /\ \A i \in DOMAIN slots \ {r} : slots'[i] = slots[i]
  <2>1. PICK A : slots \in Seq(Slot(A))
    BY DEF IInv, SlotsTyped
  <2>2. \A i \in DOMAIN slots : slots[i] \in Slot(A)
    BY <2>1, LenProperties, ElementOfSeq
  <2> QED BY <1>1, <1>7, <2>2 DEF Slot
<1>0. PICK t \in Nat : /\ t = era[r] /\ era'[r] = t + 1
                       /\ \A i \in DOMAIN slots : era[i] \in Nat /\ (i # r => era'[i] = era[i])
  BY <1>1, <1>7, SlotNumbers DEF GuestHeap, HandlesOK, Dated
<1>9. PICK to : to = [q \in Nat \X Nat \X Nat |->
                        IF q[1] # r THEN at[q] ELSE IF q[2] = t + 1 THEN q[3] ELSE Packed(w, at[q])]
  OBVIOUS
<1>10. ASSUME NEW s \in Nat, NEW d \in Nat, NEW o \in Nat
       PROVE  /\ s # r => to[<<s, d, o>>] = at[<<s, d, o>>]
              /\ s = r /\ d = t + 1 => to[<<s, d, o>>] = o
              /\ s = r /\ d # t + 1 => to[<<s, d, o>>] = Packed(w, at[<<s, d, o>>])
  BY <1>9
<1>11. \A i \in DOMAIN slots : i \in Nat /\ slots[i].generation \in Nat \ {0}
  BY SlotFacts DEF GuestHeap
<1>12. \A h \in held : /\ h.region_id \in DOMAIN slots /\ h.region_id \in Nat
                       /\ h.era \in Nat /\ h.offset \in Nat
                       /\ h.region_id = r => h.era # t + 1
  <2>1. \A h \in held : /\ h.region_id \in DOMAIN slots
                        /\ h.era \in Nat /\ h.offset \in Nat
                        /\ h.era <= era[h.region_id]
    BY DEF GuestHeap, HandlesOK, Dated, Handles, HandleOf
  <2> QED BY <1>0, <1>11, <2>1
<1>13. \A h \in held : /\ h.region_id # r => Pos(to, h) = Pos(at, h)
                       /\ h.region_id = r => Pos(to, h) = Packed(w, Pos(at, h))
  BY <1>10, <1>12 DEF Pos
<1>14. \A h \in held : h.region_id = r => Pos(at, h) \in DOMAIN w /\ w[Pos(at, h)] = h.size
  BY <1>2, <1>4 DEF GuestHeap, Owned, LiveOf
<1>15. HandlesOK'
  <2>1. ASSUME NEW m \in remaps', NEW o \in DOMAIN m.mapping
        PROVE  o \in Nat /\ m.mapping[o] \in Nat
    <3>1. CASE m \in remaps
      BY <3>1 DEF GuestHeap, HandlesOK
    <3>2. CASE m = Remap(r)
      <4>1. DOMAIN m.mapping = DOMAIN w /\ \A q \in DOMAIN w : m.mapping[q] = Packed(w, q)
        BY <1>2, <1>4, <3>2, PackedIs DEF Remap
      <4> QED BY <1>5, <4>1
    <3> QED BY <1>7, <3>1, <3>2
  <2>2. held' \in SUBSET Handles
    BY <1>7 DEF GuestHeap, HandlesOK
  <2> QED BY <2>1, <2>2 DEF HandlesOK
<1>16. Traced(to)'
  <2>1. ASSUME NEW s \in DOMAIN slots, NEW o \in Nat PROVE to[<<s, era'[s], o>>] = o
    <3>1. CASE s = r
      BY <1>0, <1>3, <1>10, <3>1
    <3>2. CASE s # r
      <4>1. era'[s] = era[s] /\ era[s] \in Nat /\ s \in Nat
        BY <1>0, <1>11, <3>2
      <4>2. at[<<s, era[s], o>>] = o
        BY DEF GuestHeap, Traced
      <4> QED BY <1>10, <3>2, <4>1, <4>2
    <3> QED BY <3>1, <3>2
  <2>2. ASSUME NEW m \in remaps', NEW o \in DOMAIN m.mapping
        PROVE  to[<<m.region_id, m.era, o>>] = to[<<m.region_id, m.era + 1, m.mapping[o]>>]
    <3>1. CASE m \in remaps
      <4>1. PICK s \in Nat, d \in Nat, f \in Nat, q \in Nat :
              /\ s = m.region_id /\ d = m.era /\ f = m.era + 1 /\ q = m.mapping[o]
              /\ s \in DOMAIN slots /\ f = d + 1 /\ f <= era[s]
        <5>1. /\ m.region_id \in DOMAIN slots /\ m.era \in Nat /\ m.mapping[o] \in Nat
              /\ m.era + 1 <= era[m.region_id]
          BY <3>1 DEF GuestHeap, HandlesOK, Dated
        <5> QED BY <1>11, <5>1
      <4>2. o \in Nat
        BY <3>1 DEF GuestHeap, HandlesOK
      <4>3. at[<<s, d, o>>] = at[<<s, f, q>>]
        <5>1. at[<<m.region_id, m.era, o>>] = at[<<m.region_id, m.era + 1, m.mapping[o]>>]
          BY <3>1 DEF GuestHeap, Traced
        <5> QED BY <4>1, <5>1, Zenon
      <4>4. s = r => d # t + 1 /\ f # t + 1
        BY <1>0, <4>1
      <4>5. to[<<s, d, o>>] = to[<<s, f, q>>]
        BY <1>10, <4>1, <4>2, <4>3, <4>4
      <4> QED BY <4>1, <4>5, Zenon
    <3>2. CASE m = Remap(r)
      <4>1. m.region_id = r /\ m.era = t /\ o \in DOMAIN w /\ m.mapping[o] = Packed(w, o)
        BY <1>0, <1>2, <1>4, <3>2, PackedIs DEF Remap
      <4>2. o \in Nat /\ Packed(w, o) \in Nat
        BY <1>5, <4>1
      <4>3. at[<<r, t, o>>] = o
        BY <1>0, <1>1, <4>2 DEF GuestHeap, Traced
      <4>4. to[<<r, t, o>>] = Packed(w, o)
        BY <1>3, <1>10, <4>2, <4>3
      <4>5. to[<<r, t + 1, Packed(w, o)>>] = Packed(w, o)
        BY <1>3, <1>10, <4>2
      <4> QED BY <4>1, <4>4, <4>5
    <3> QED BY <1>7, <3>1, <3>2
  <2> QED BY <1>8, <2>1, <2>2 DEF Traced
<1>17. Balances'
  <2>1. ASSUME NEW i \in DOMAIN slots
        PROVE  /\ slots'[i].generation \in Nat \ {0}
               /\ Balanced(slots'[i].allocator, slots'[i].capacity)
    <3>1. CASE i = r
      BY <1>2, <1>3, <1>6, <1>8, <3>1
    <3>2. CASE i # r
      BY <1>8, <3>2 DEF GuestHeap, Balances
    <3> QED BY <3>1, <3>2
  <2> QED BY <1>8, <2>1 DEF Balances
<1>18. (\A h \in held : Pos(to, h) \in DOMAIN LiveOf(h) /\ LiveOf(h)[Pos(to, h)] = h.size)'
  <2> SUFFICES ASSUME NEW h \in held
               PROVE  /\ Pos(to, h) \in DOMAIN slots'[h.region_id].allocator.allocated
                      /\ slots'[h.region_id].allocator.allocated[Pos(to, h)] = h.size
    BY <1>7 DEF Pos, LiveOf
  <2>1. CASE h.region_id = r
    BY <1>6, <1>8, <1>13, <1>14, <2>1 DEF PackedTo
  <2>2. CASE h.region_id # r
    BY <1>8, <1>12, <1>13, <2>2 DEF GuestHeap, Owned, LiveOf
  <2> QED BY <2>1, <2>2
<1>19. (\A h, k \in held : h.region_id = k.region_id /\ Pos(to, h) = Pos(to, k) => h = k)'
  <2> SUFFICES ASSUME NEW h \in held, NEW k \in held, h.region_id = k.region_id, Pos(to, h) = Pos(to, k)
               PROVE  h = k
    BY <1>7 DEF Pos
  <2>1. Pos(at, h) = Pos(at, k) => h = k
    BY DEF GuestHeap, Owned
  <2>2. CASE h.region_id # r
    BY <1>13, <2>1, <2>2
  <2>3. CASE h.region_id = r
    <3>1. PICK x \in DOMAIN w, y \in DOMAIN w :
            x = Pos(at, h) /\ y = Pos(at, k) /\ Packed(w, x) = Packed(w, y)
      BY <1>13, <1>14, <2>3
    <3>2. x \in Nat /\ y \in Nat /\ w[x] \in Nat \ {0} /\ w[y] \in Nat \ {0}
          /\ Packed(w, x) \in Nat /\ Packed(w, y) \in Nat
      BY <1>5
    <3>3. \A o, q \in DOMAIN w : o < q => Packed(w, o) + w[o] <= Packed(w, q)
      BY <1>3, <1>4, PackedApart
    <3>4. ~(x < y) /\ ~(y < x)
      BY <3>1, <3>2, <3>3
    <3> QED BY <2>1, <3>1, <3>2, <3>4
  <2> QED BY <2>2, <2>3
<1>20. /\ \A o \in DOMAIN w : \A i \in Nat : i < w[o] =>
            Slid(memory[e.pool_index], e)[b + Packed(w, o) + i] = memory[e.pool_index][b + o + i]
       /\ \A x \in Addresses : x < b \/ b + C <= x =>
            Slid(memory[e.pool_index], e)[x] = memory[e.pool_index][x]
  <2>1. Moved(Slid(memory[e.pool_index], e), memory[e.pool_index],
              e.allocator.allocated, e.base_offset, e.capacity)
    BY <1>3, SlidMoves
  <2>2. Moved(Slid(memory[e.pool_index], e), memory[e.pool_index], w, b, C)
    BY <1>2, <1>4, <2>1
  <2> QED BY <2>2 DEF Moved
<1>21. /\ memory'[e.pool_index] = Slid(memory[e.pool_index], e)
       /\ \A k \in Pools : k # e.pool_index => memory'[k] = memory[k]
       /\ DOMAIN memory' = Pools
  BY <1>3, <1>7 DEF GuestHeap
<1>22. ASSUME NEW h \in held, h.value # Unset, NEW i \in Nat, i < h.size
       PROVE  memory'[PoolOf(h)][slots[h.region_id].base_offset + Pos(to, h) + i] = h.value
  <2>1. memory[PoolOf(h)][Addr(at, h) + i] = h.value
    BY <1>22 DEF GuestHeap, Owned
  <2>2. /\ h.size \in Nat /\ Pos(at, h) \in Nat /\ Addr(at, h) \in Nat
        /\ slots[h.region_id].base_offset <= Addr(at, h)
        /\ Addr(at, h) + h.size <= slots[h.region_id].base_offset + slots[h.region_id].capacity
        /\ Addr(at, h) + h.size <= PoolCapacity
        /\ PoolOf(h) \in Pools
    BY BlockInside
  <2>3. CASE h.region_id = r
    <3>1. PICK o \in DOMAIN w : o = Pos(at, h) /\ w[o] = h.size /\ Pos(to, h) = Packed(w, o)
      BY <1>13, <1>14, <2>3
    <3>2. PoolOf(h) = e.pool_index /\ Addr(at, h) = b + o /\ slots[h.region_id].base_offset = b
      BY <1>2, <2>3, <3>1 DEF PoolOf, Addr
    <3>3. Slid(memory[e.pool_index], e)[b + Packed(w, o) + i] = memory[e.pool_index][b + o + i]
      BY <1>20, <1>22, <3>1
    <3> QED BY <1>21, <2>1, <3>1, <3>2, <3>3
  <2>4. CASE h.region_id # r
    <3>1. Pos(to, h) = Pos(at, h) /\ slots[h.region_id].base_offset + Pos(to, h) + i = Addr(at, h) + i
      BY <1>13, <2>4 DEF Addr
    <3>2. CASE PoolOf(h) # e.pool_index
      BY <1>21, <2>1, <2>2, <3>1, <3>2
    <3>3. CASE PoolOf(h) = e.pool_index
      <4>1. PICK s \in DOMAIN slots : s = h.region_id /\ s # r
        BY <1>12, <2>4
      <4>2. PICK d \in Nat, E \in Nat : d = slots[s].base_offset /\ E = slots[s].capacity
        BY SlotFacts DEF GuestHeap
      <4>3. (d..(d + E - 1)) \cap (b..(b + C - 1)) = {}
        BY <1>1, <1>2, <3>3, <4>1, <4>2 DEF IInv, RegionsDisjoint, Extent, PoolOf
      <4>4. PICK x \in Nat : x = Addr(at, h) + i
        BY <2>2
      <4>5. x \in d..(d + E - 1) /\ x \in Addresses
        BY <1>22, <2>2, <4>1, <4>2, <4>4, GuestAssumption DEF Addresses
      <4>6. x < b \/ b + C <= x
        <5>1. ~(x \in b..(b + C - 1))
          BY <4>3, <4>5
        <5> QED BY <1>3, <5>1
      <4>7. memory'[e.pool_index][x] = memory[e.pool_index][x]
        BY <1>20, <1>21, <4>5, <4>6
      <4> QED BY <2>1, <3>1, <3>3, <4>4, <4>7
    <3> QED BY <3>2, <3>3
  <2> QED BY <2>3, <2>4
<1>23. (\A h \in held : h.value # Unset =>
          \A i \in Nat : i < h.size => memory[PoolOf(h)][Addr(to, h) + i] = h.value)'
  <2> SUFFICES ASSUME NEW h \in held, h.value # Unset, NEW i \in Nat, i < h.size
               PROVE  memory'[slots'[h.region_id].pool_index]
                         [slots'[h.region_id].base_offset + Pos(to, h) + i] = h.value
    BY <1>7 DEF Pos, Addr, PoolOf
  <2> QED BY <1>8, <1>12, <1>22 DEF PoolOf
<1>24. Owned(to)'
  BY <1>18, <1>19, <1>23 DEF Owned
<1> QED BY <1>15, <1>16, <1>17, <1>21, <1>24 DEF GuestHeap

(* The blocks of the guest can be followed in every state, until a handle  *)
(* or a remap of an earlier wrap is obeyed.                                *)
Followed == misled \/ \E at : GuestHeap(at)

(* A facade starts without handles.                                        *)
LEMMA InitFollowed == Init => Followed
<1> SUFFICES ASSUME Init PROVE Followed
  OBVIOUS
<1>1. DOMAIN memory = Pools /\ DOMAIN slots = {} /\ held = {} /\ remaps = {}
  BY DEF Init
<1>2. PICK at : at = [q \in Nat |-> 0]
  OBVIOUS
<1>3. GuestHeap(at)
  BY <1>1, InitDated DEF GuestHeap, HandlesOK, Traced, Balances, Owned
<1> QED BY <1>3 DEF Followed

(* Only a step that obeys a handle or a remap of another era misleads.     *)
LEMMA MisledSteps ==
  ASSUME [Next]_vars
  PROVE  /\ misled => misled'
         /\ \A h \in held : Deallocate(h) /\ ~misled' => ~Outdated(h)
         /\ \A h \in held, v \in Values : Write(h, h.size, v) /\ ~misled' => ~Outdated(h)
         /\ \A h \in held, m \in remaps : migrate(h, m) /\ ~misled' => m.era = h.era
<1>1. ASSUME NEW h \in held, NEW v \in Values, NEW m \in remaps, misled,
             Deallocate(h) \/ Write(h, h.size, v) \/ migrate(h, m)
      PROVE  misled'
  BY <1>1, Zenon DEF Deallocate, Write, migrate
<1>2. ASSUME NEW p, NEW capacity, NEW r, NEW size, NEW h,
             \/ create_region(p, capacity) \/ Allocate(r, size) \/ pin(r) \/ directory_compact(r)
             \/ compact_refused(r) \/ Read(h) \/ UNCHANGED vars
      PROVE  misled' = misled
  BY <1>2 DEF create_region, Allocate, pin, directory_compact, compact_refused, Read, vars, history
<1>3. misled => misled'
  <2> SUFFICES ASSUME misled PROVE misled'
    OBVIOUS
  <2>1. ASSUME NEW p \in Policies, NEW capacity \in Capacities, create_region(p, capacity)
        PROVE  misled'
    BY <1>2, <2>1, Zenon
  <2>2. ASSUME NEW r \in returned, NEW size \in Sizes, Allocate(r, size) PROVE misled'
    BY <1>2, <2>2, Zenon
  <2>3. ASSUME NEW h \in held, Deallocate(h) PROVE misled'
    BY <2>3, Zenon DEF Deallocate
  <2>4. ASSUME NEW h \in held, NEW v \in Values, Write(h, h.size, v) PROVE misled'
    BY <2>4, Zenon DEF Write
  <2>5. ASSUME NEW h \in held, NEW m \in remaps, migrate(h, m) PROVE misled'
    BY <2>5, Zenon DEF migrate
  <2>6. ASSUME NEW h, Read(h) \/ UNCHANGED vars PROVE misled'
    BY <1>2, <2>6, Zenon
  <2>7. ASSUME NEW r \in returned, pin(r) \/ compact_region(r) \/ compact_refused(r)
        PROVE  misled'
    BY <1>2, <2>7, Zenon DEF compact_region
  <2> QED BY <2>1, <2>2, <2>3, <2>4, <2>5, <2>6, <2>7, Zenon DEF Next
<1>4. \A h \in held : Deallocate(h) /\ ~misled' => ~Outdated(h)
  BY Zenon DEF Deallocate
<1>5. \A h \in held, v \in Values : Write(h, h.size, v) /\ ~misled' => ~Outdated(h)
  BY Zenon DEF Write
<1>6. \A h \in held, m \in remaps : migrate(h, m) /\ ~misled' => m.era = h.era
  BY Zenon DEF migrate
<1> QED BY <1>3, <1>4, <1>5, <1>6, Zenon

(* Every step of the facade keeps track of the blocks.                     *)
LEMMA StepFollowed ==
  ASSUME IInv, CacheCurrent, Dated, Followed, [Next]_vars
  PROVE  Followed'
<1>0. Dated'
  BY StepDated
<1> SUFFICES ASSUME ~misled' PROVE \E to : GuestHeap(to)'
  BY Zenon DEF Followed
<1>1. PICK at : GuestHeap(at)
  BY MisledSteps, Zenon DEF Followed
<1>2. ASSUME NEW p \in Policies, NEW capacity \in Capacities, create_region(p, capacity)
      PROVE  \E to : GuestHeap(to)'
  BY <1>0, <1>1, <1>2, CreateHeap
<1>3. ASSUME NEW r, NEW size \in Sizes, Allocate(r, size) PROVE GuestHeap(at)'
  BY <1>0, <1>1, <1>3, AllocateHeap
<1>4. ASSUME NEW r, pin(r) PROVE GuestHeap(at)'
  BY <1>0, <1>1, <1>4, PinHeap
<1>5. ASSUME NEW r, compact_region(r) PROVE \E to : GuestHeap(to)'
  BY <1>0, <1>1, <1>5, CompactHeap DEF compact_region
<1>6. ASSUME NEW h \in held, Deallocate(h) PROVE GuestHeap(at)'
  <2>1. ~Outdated(h)
    BY <1>6, MisledSteps, Zenon
  <2> QED BY <1>0, <1>1, <1>6, <2>1, DeallocateHeap
<1>7. ASSUME NEW h \in held, NEW v \in Values, Write(h, h.size, v) PROVE GuestHeap(at)'
  <2>1. ~Outdated(h)
    BY <1>7, MisledSteps, Zenon
  <2> QED BY <1>0, <1>1, <1>7, <2>1, WriteHeap
<1>8. ASSUME NEW h \in held, NEW m \in remaps, migrate(h, m) PROVE GuestHeap(at)'
  <2>1. m.era = h.era
    BY <1>8, MisledSteps, Zenon
  <2> QED BY <1>0, <1>1, <1>8, <2>1, MigrateHeap
<1>9. ASSUME UNCHANGED <<slots, memory, held, remaps, era>> PROVE GuestHeap(at)'
  <2>1. Steady /\ \A i \in DOMAIN slots : slots'[i].allocator = slots[i].allocator
    BY <1>9 DEF Steady
  <2> QED BY <1>0, <1>1, <1>9, <2>1, QuietHeap
<1>10. ASSUME NEW r, NEW h, compact_refused(r) \/ Read(h) \/ UNCHANGED vars PROVE GuestHeap(at)'
  <2>1. UNCHANGED <<slots, memory, held, remaps, era>>
    BY <1>10 DEF compact_refused, Read, vars, history
  <2> QED BY <1>9, <2>1
<1> QED BY <1>2, <1>3, <1>4, <1>5, <1>6, <1>7, <1>8, <1>10 DEF Next

(* For any pools, regions and calls, and any width of the generation: what *)
(* the facade accepts reads back what its owner wrote, through the cache   *)
(* or not, over any number of in-place compactions whose copies overlap,   *)
(* and never the bytes of another block or region of the pool.  A handle   *)
(* as old as LastGen compactions is excepted, and so is every handle once  *)
(* such a handle, or a remap as old, was obeyed.                           *)
THEOREM GuestHandlesReadBack == Spec => []HandlesReadBack
<1>1. IInv /\ CacheCurrent /\ Dated /\ Followed => HandlesReadBack
  <2> SUFFICES ASSUME IInv, CacheCurrent, Dated, NEW at, GuestHeap(at), NEW h \in held,
                      Accepted(h), Fresh(h)
               PROVE  /\ Valid(h) /\ ~Outdated(h)
                      /\ h.value # Unset =>
                           \A i \in Reached(h, h.size) : memory[cached_resolve(h)[1]][i] = h.value
    BY Zenon DEF Followed, HandlesReadBack
  <2>1. Valid(h)
    BY DEF CacheCurrent, CacheCoherent, Accepted, Hit, Valid, Empty, Exists
  <2>2. ~Outdated(h)
    <3>1. PICK d \in Nat, e \in Nat : /\ d = era[h.region_id] /\ e = h.era /\ e <= d
                                      /\ LastGen \in Nat \ {0}
      BY SlotNumbers DEF Dated, HandleOf
    <3>2. Wrap(d, LastGen) = Wrap(e, LastGen) /\ d - e < LastGen
      BY <2>1, <3>1 DEF Dated, Valid, Exists, Fresh
    <3>3. e = d
      BY <3>1, <3>2, WrapNear
    <3> QED BY <3>1, <3>3 DEF Outdated
  <2>3. /\ cached_resolve(h)[1] = PoolOf(h)
        /\ Reached(h, h.size) = Addr(at, h)..(Addr(at, h) + h.size - 1)
    BY <2>2, ResolvesToBlock
  <2>4. h.size \in Nat /\ Addr(at, h) \in Nat
    BY BlockInside
  <2>5. ASSUME h.value # Unset, NEW i \in Addr(at, h)..(Addr(at, h) + h.size - 1)
        PROVE  memory[PoolOf(h)][i] = h.value
    <3>1. PICK j \in Nat : j < h.size /\ i = Addr(at, h) + j
      <4>1. i - Addr(at, h) \in Nat /\ i - Addr(at, h) < h.size /\ i = Addr(at, h) + (i - Addr(at, h))
        BY <2>4
      <4> QED BY <4>1
    <3> QED BY <2>5, <3>1 DEF GuestHeap, Owned
  <2> QED BY <2>1, <2>2, <2>3, <2>5
<1> QED BY <1>1, InitIInv, StepIInv, CacheInvariance, InitDated, StepDated, InitFollowed,
        StepFollowed, PTL DEF Spec
=============================================================================
