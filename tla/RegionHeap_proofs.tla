-------------------------- MODULE RegionHeap_proofs --------------------------
(***************************************************************************)
(* What holds inside a region for every capacity, allocator, set of        *)
(* requests, width of the generation and number of compactions.            *)
(*                                                                         *)
(* A handle may be compactions behind its block.  The invariant follows    *)
(* the blocks: there is a map `at` from an era and an offset of then to    *)
(* the offset the block has now, which agrees with every HandleRemap, and  *)
(* through which the callers' handles and the allocator's live blocks      *)
(* match one to one.  Once a handle or a remap of an earlier wrap of the   *)
(* generation was obeyed, only the allocator's own books are left.         *)
(***************************************************************************)
EXTENDS RegionHeap, Allocators_proofs

(* Where the block of handle h is now.                                     *)
Pos(at, h) == at[<<h.era, h.offset>>]

Handles == [generation : Nat \ {0}, era : Nat, offset : Nat, size : Nat,
            value : Values \cup {Unset}]

TypeOK ==
  /\ era \in Nat /\ generation = Wrap(era, LastGen)
  /\ held \in SUBSET Handles
  /\ \A h \in held : h.era <= era /\ h.generation = Wrap(h.era, LastGen)
  /\ \A m \in remaps :
       /\ m.era \in Nat /\ m.era + 1 <= era
       /\ m.new_generation = Wrap(m.era + 1, LastGen)
       /\ \A o \in DOMAIN m.mapping : o \in Nat /\ m.mapping[o] \in Nat

(* Blocks are where the current handles say, and a remap tells where a     *)
(* block went.                                                             *)
Traced(at) ==
  /\ \A o \in Nat : at[<<era, o>>] = o
  /\ \A m \in remaps : \A o \in DOMAIN m.mapping :
       at[<<m.era, o>>] = at[<<m.era + 1, m.mapping[o]>>]

(* Handles hold blocks inside the region, apart from each other, with what *)
(* was written there.                                                      *)
Kept(at) ==
  /\ \A h \in held : Pos(at, h) \in Nat /\ Pos(at, h) + h.size <= Capacity
  /\ \A h, k \in held : h # k =>
       Pos(at, h) + h.size <= Pos(at, k) \/ Pos(at, k) + k.size <= Pos(at, h)
  /\ \A h \in held : h.value # Unset =>
       \A i \in Pos(at, h)..(Pos(at, h) + h.size - 1) : memory[i] = h.value

(* The allocator's books know exactly the blocks of the handles; a bump    *)
(* allocator only knows where they end.                                    *)
FreelistBooks(at) ==
  /\ allocator.kind = "Freelist"
  /\ Balanced(allocator, Capacity)
  /\ \A h \in held : /\ Pos(at, h) \in DOMAIN allocator.allocated
                     /\ allocator.allocated[Pos(at, h)] = h.size
  /\ \A o \in DOMAIN allocator.allocated : \E h \in held : Pos(at, h) = o

SlabBooks ==
  /\ allocator.kind = "Slab"
  /\ Racked(allocator, Capacity)
  /\ era = 0 /\ remaps = {}
  /\ \A h \in held : /\ allocator.class_size # 0
                     /\ h.size = allocator.class_size
                     /\ h.offset \in Slots(allocator) \ Range(allocator.free_slots)
  /\ allocator.class_size # 0 =>
       \A o \in Slots(allocator) \ Range(allocator.free_slots) : \E h \in held : h.offset = o

BumpBooks ==
  /\ allocator \in [kind : {"Bump"}, used : Nat]
  /\ era = 0 /\ remaps = {}
  /\ \A h \in held : h.offset + h.size <= allocator.used

Booked(at) == FreelistBooks(at) \/ SlabBooks \/ BumpBooks

Heap(at) == TypeOK /\ Traced(at) /\ Kept(at) /\ Booked(at)

Adrift ==
  /\ misled
  /\ era \in Nat \ {0}
  /\ allocator.kind = "Freelist"
  /\ Balanced(allocator, Capacity)

Inv == \/ ~misled /\ \E at : Heap(at)
       \/ Adrift

(* The region's size and the largest u32 are naturals.                     *)
LEMMA CapacityType == Capacity \in Nat /\ MaxU32 \in Nat
BY CapacityAssumption, MaxU32Assumption

-----------------------------------------------------------------------------
(* The invariant *)

(* A handle of this era points at its block, and before the first          *)
(* compaction all are.                                                     *)
LEMMA CurrentPos ==
  ASSUME NEW at, TypeOK, Traced(at), NEW h \in held
  PROVE  /\ h.era = era => Pos(at, h) = h.offset
         /\ era = 0 => h.era = era
<1>1. h.offset \in Nat /\ h.era \in Nat /\ h.era <= era
  BY DEF TypeOK, Handles
<1>2. h.era = era => at[<<h.era, h.offset>>] = h.offset
  BY <1>1 DEF Traced
<1> QED BY <1>1, <1>2 DEF Pos

(* A new region's allocator has no live block.                             *)
LEMMA InitHeap == Init => Inv
<1> SUFFICES ASSUME Init PROVE Inv
  OBVIOUS
<1>1. PICK at : at = [p \in Nat \X Nat |-> p[2]]
  OBVIOUS
<1>2. TypeOK /\ Traced(at) /\ Kept(at)
  BY <1>1, LastGenAssumption, WrapZero DEF Init, TypeOK, Traced, Kept
<1>3. ASSUME allocator = BumpNew PROVE Booked(at)
  BY <1>3 DEF BumpNew, Init, BumpBooks, Booked
<1>4. ASSUME allocator = FreelistNew(Capacity) PROVE Booked(at)
  <2>1. Balanced(allocator, Capacity)
    BY <1>4, CapacityType, NewBalanced
  <2>2. allocator.kind = "Freelist" /\ DOMAIN allocator.allocated = {}
    BY <1>4 DEF FreelistNew
  <2> QED BY <2>1, <2>2 DEF Init, FreelistBooks, Booked
<1>5. ASSUME NEW c0 \in 0..MaxU32, allocator = SlabNew(Capacity, c0) PROVE Booked(at)
  <2>1. PICK c \in Nat : allocator = SlabNew(Capacity, c)
    BY <1>5, CapacityType
  <2>2. /\ Racked(allocator, Capacity) /\ allocator.class_size = c
        /\ c # 0 => Range(allocator.free_slots) = Slots(allocator)
    BY <2>1, CapacityType, SlabNewRacked
  <2>3. allocator.kind = "Slab"
    BY <2>1 DEF SlabNew
  <2> QED BY <2>2, <2>3 DEF Init, SlabBooks, Booked
<1>6. Booked(at)
  BY <1>3, <1>4, <1>5, KindsAssumption DEF Init
<1> QED BY <1>2, <1>6 DEF Heap, Inv, Init

(* A handle to a block apart from all others joins the held ones.          *)
LEMMA JoinKept ==
  ASSUME NEW at, TypeOK, Traced(at), Kept(at), NEW n \in Handles,
         n.generation = generation, n.era = era, n.value = Unset,
         n.offset + n.size <= Capacity,
         \A h \in held : \/ Pos(at, h) + h.size <= n.offset
                         \/ n.offset + n.size <= Pos(at, h),
         held' = held \cup {n}, UNCHANGED <<memory, generation, remaps, era>>
  PROVE  TypeOK' /\ Traced(at)' /\ Kept(at)' /\ Pos(at, n) = n.offset
<1>1. n.offset \in Nat /\ n.size \in Nat /\ n.generation \in Nat \ {0}
  BY DEF Handles
<1>2. Pos(at, n) = n.offset
  BY <1>1 DEF Traced, Pos
<1>3. era \in Nat /\ era <= era /\ generation = Wrap(era, LastGen)
  BY DEF TypeOK
<1>4. TypeOK'
  BY <1>3 DEF TypeOK
<1>5. Traced(at)'
  BY DEF Traced
<1>6. (\A h \in held : Pos(at, h) \in Nat /\ Pos(at, h) + h.size <= Capacity)'
  BY <1>1, <1>2 DEF Kept, Pos
<1>7. (\A h, k \in held : h # k =>
         Pos(at, h) + h.size <= Pos(at, k) \/ Pos(at, k) + k.size <= Pos(at, h))'
  <2> SUFFICES ASSUME NEW h \in held', NEW k \in held', h # k
               PROVE  Pos(at, h) + h.size <= Pos(at, k) \/ Pos(at, k) + k.size <= Pos(at, h)
    BY DEF Pos
  <2> QED BY <1>2 DEF Kept
<1>8. (\A h \in held : h.value # Unset =>
         \A i \in Pos(at, h)..(Pos(at, h) + h.size - 1) : memory[i] = h.value)'
  <2> SUFFICES ASSUME NEW h \in held', h.value # Unset,
                      NEW i \in Pos(at, h)..(Pos(at, h) + h.size - 1)
               PROVE  memory[i] = h.value
    BY DEF Pos
  <2>1. h \in held
    OBVIOUS
  <2> QED BY <2>1 DEF Kept
<1>9. Kept(at)'
  BY <1>6, <1>7, <1>8 DEF Kept
<1> QED BY <1>2, <1>4, <1>5, <1>9

(* The handle an allocation returns.                                       *)
Handle(o, size) == [generation |-> generation, era |-> era, offset |-> o, size |-> size,
                    value |-> Unset]

(* A new block was free: it is apart from the others, inside the region, and*)
(* joins the books.                                                        *)
LEMMA AllocateHeap ==
  ASSUME NEW at, Heap(at), NEW size \in Sizes, NEW align \in Aligns, Allocate(size, align)
  PROVE  Heap(at)'
<1>0. /\ TypeOK /\ Traced(at) /\ Kept(at) /\ Booked(at)
      /\ generation \in Nat \ {0} /\ era \in Nat
  BY LastGenAssumption, WrapNext DEF Heap, TypeOK
<1>1. size \in Nat /\ align \in Nat /\ Capacity \in Nat
  BY RequestsAssumption, CapacityType
<1>2. PICK r : r = alloc(allocator, Capacity, size, align)
  OBVIOUS
<1>3. /\ r.offset # NoOffset /\ allocator' = r.state
      /\ held' = held \cup {Handle(r.offset, size)}
      /\ UNCHANGED <<memory, generation, remaps, era>>
  BY <1>2 DEF Allocate, Handle
<1>4. ASSUME NEW o \in Nat, r.offset = o
      PROVE  /\ Handle(o, size) \in Handles /\ Handle(o, size).generation = generation
             /\ Handle(o, size).era = era /\ Handle(o, size).value = Unset /\ Handle(o, size).offset = o
             /\ Handle(o, size).size = size
  BY <1>0, <1>1 DEF Handle, Handles
(* the block is apart from the held ones *)
<1>5. ASSUME NEW o \in Nat, r.offset = o, o + size <= Capacity,
             \A h \in held : Pos(at, h) + h.size <= o \/ o + size <= Pos(at, h)
      PROVE  TypeOK' /\ Traced(at)' /\ Kept(at)' /\ Pos(at, Handle(o, size)) = o
  <2>1. PICK n \in Handles : n = Handle(o, size) /\ n.generation = generation /\ n.era = era
                             /\ n.value = Unset /\ n.offset = o /\ n.size = size
    BY <1>4, <1>5
  <2>2. held' = held \cup {n} /\ n.offset + n.size <= Capacity
    BY <1>3, <1>5, <2>1
  <2>3. \A h \in held : Pos(at, h) + h.size <= n.offset \/ n.offset + n.size <= Pos(at, h)
    BY <1>5, <2>1
  <2>4. TypeOK' /\ Traced(at)' /\ Kept(at)' /\ Pos(at, n) = n.offset
    BY <1>0, <1>3, <2>1, <2>2, <2>3, JoinKept
  <2> QED BY <2>1, <2>4
<1>6. \A h \in held : Pos(at, h) \in Nat /\ h.size \in Nat /\ h.offset \in Nat
  BY <1>0 DEF Kept, TypeOK, Handles
<1>7. CASE FreelistBooks(at)
  <2>1. r = FreelistAlloc(allocator, size, align) /\ Balanced(allocator, Capacity)
    BY <1>2, <1>7 DEF alloc, FreelistBooks
  <2>2. Gained(allocator, r, size, align, Capacity)
    BY <1>1, <1>3, <2>1, AllocBalanced
  <2>3. PICK o \in Nat : o = r.offset /\ o + size <= Capacity
    BY <1>1, <2>2 DEF Gained
  <2>4. PICK w \in Live(Capacity) : w = allocator.allocated
    BY <1>1, <2>1, BalancedApart
  <2>5. \A h \in held : Pos(at, h) + h.size <= o \/ o + size <= Pos(at, h)
    <3> SUFFICES ASSUME NEW h \in held PROVE Pos(at, h) + h.size <= o \/ o + size <= Pos(at, h)
      OBVIOUS
    <3>1. PICK p \in Nat, s \in Nat : p = Pos(at, h) /\ s = h.size /\ p \in DOMAIN w /\ w[p] = s
      BY <1>6, <1>7, <2>4 DEF FreelistBooks
    <3>2. \A c \in Nat : o <= c /\ c < o + size => ~(p <= c /\ c < p + s)
      BY <2>2, <2>3, <2>4, <3>1 DEF Gained, InLive
    <3>3. s # 0 /\ size # 0
      BY <1>1, <2>2, <3>1, LiveType DEF Gained
    <3>4. ~(o <= p /\ p < o + size) /\ ~(p <= o /\ o < p + s)
      BY <1>1, <3>2, <3>3
    <3> QED BY <1>1, <3>1, <3>4
  <2>6. TypeOK' /\ Traced(at)' /\ Kept(at)' /\ Pos(at, Handle(o, size)) = o
    BY <1>5, <2>3, <2>5
  <2>7. allocator'.allocated = Grown(w, o, size) /\ Balanced(allocator', Capacity) /\ o \notin DOMAIN w
    BY <1>3, <2>2, <2>3, <2>4 DEF Gained
  <2>8. PICK v : v = Grown(w, o, size) /\ DOMAIN v = DOMAIN w \cup {o} /\ v[o] = size
                 /\ \A x \in DOMAIN w : v[x] = w[x]
    BY <2>7 DEF Grown
  <2>9. (\A h \in held : Pos(at, h) \in DOMAIN v /\ v[Pos(at, h)] = h.size)'
    <3> SUFFICES ASSUME NEW h \in held' PROVE Pos(at, h) \in DOMAIN v /\ v[Pos(at, h)] = h.size
      BY DEF Pos
    <3>1. CASE h \in held
      BY <1>7, <2>4, <2>8, <3>1 DEF FreelistBooks
    <3>2. CASE h = Handle(o, size)
      BY <1>4, <2>3, <2>6, <2>8, <3>2
    <3> QED BY <1>3, <2>3, <3>1, <3>2
  <2>10. \A x \in DOMAIN v : \E h \in held' : Pos(at, h) = x
    <3> SUFFICES ASSUME NEW x \in DOMAIN v PROVE \E h \in held' : Pos(at, h) = x
      OBVIOUS
    <3>1. CASE x \in DOMAIN w
      BY <1>3, <1>7, <2>4, <3>1 DEF FreelistBooks
    <3>2. CASE x = o
      BY <1>3, <2>3, <2>6, <3>2
    <3> QED BY <2>8, <3>1, <3>2
  <2>11. FreelistBooks(at)'
    <3>1. allocator'.kind = "Freelist"
      BY <2>7 DEF Balanced
    <3> QED BY <2>7, <2>8, <2>9, <2>10, <3>1 DEF FreelistBooks, Pos
  <2> QED BY <2>6, <2>11 DEF Heap, Booked
<1>8. CASE SlabBooks
  <2>1. r = SlabAlloc(allocator, size) /\ Racked(allocator, Capacity)
    BY <1>2, <1>8 DEF alloc, SlabBooks
  <2>2. /\ Racked(r.state, Capacity)
        /\ size = allocator.class_size /\ allocator.class_size # 0
        /\ r.state.class_size = allocator.class_size /\ r.state.n_slots = allocator.n_slots
        /\ r.offset \in Range(allocator.free_slots)
        /\ Range(r.state.free_slots) = Range(allocator.free_slots) \ {r.offset}
    BY <1>1, <1>3, <2>1, SlabAllocRacked
  <2>3. PICK o \in Nat : o = r.offset /\ o \in Slots(allocator) /\ o + size <= Capacity
    <3>1. r.offset \in Slots(allocator) /\ r.offset \in Nat
      BY <2>1, <2>2 DEF Racked, Slots
    <3>2. r.offset + size <= Capacity
      BY <1>1, <2>1, <2>2, <3>1, SlotInside
    <3> QED BY <3>1, <3>2
  <2>4. \A h \in held : Pos(at, h) = h.offset
    BY <1>0, <1>8, CurrentPos DEF SlabBooks
  <2>5. \A h \in held : Pos(at, h) + h.size <= o \/ o + size <= Pos(at, h)
    <3> SUFFICES ASSUME NEW h \in held PROVE h.offset + h.size <= o \/ o + size <= h.offset
      BY <2>4
    <3>1. h.offset \in Slots(allocator) /\ h.offset # o /\ h.size = size /\ h.offset \in Nat
      BY <1>6, <1>8, <2>2, <2>3 DEF SlabBooks
    <3>2. h.offset < o => h.offset + size <= o
      BY <1>1, <2>1, <2>2, <2>3, <3>1, SlotsApart
    <3>3. o < h.offset => o + size <= h.offset
      BY <1>1, <2>1, <2>2, <2>3, <3>1, SlotsApart
    <3> QED BY <3>1, <3>2, <3>3
  <2>6. TypeOK' /\ Traced(at)' /\ Kept(at)'
    BY <1>5, <2>3, <2>5
  <2>7. Slots(allocator') = Slots(allocator)
    BY <1>3, <2>2 DEF Slots
  <2>8. (\A h \in held : /\ allocator.class_size # 0
                         /\ h.size = allocator.class_size
                         /\ h.offset \in Slots(allocator) \ Range(allocator.free_slots))'
    <3> SUFFICES ASSUME NEW h \in held'
                 PROVE  /\ allocator'.class_size # 0
                        /\ h.size = allocator'.class_size
                        /\ h.offset \in Slots(allocator') \ Range(allocator'.free_slots)
      BY DEF Slots
    <3>1. CASE h \in held
      BY <1>3, <1>8, <2>2, <2>7, <3>1 DEF SlabBooks
    <3>2. CASE h = Handle(o, size)
      <4>1. h.offset = o /\ h.size = size
        BY <1>4, <2>3, <3>2
      <4> QED BY <1>3, <2>2, <2>3, <2>7, <4>1
    <3> QED BY <1>3, <2>3, <3>1, <3>2
  <2>9. ASSUME NEW x \in Slots(allocator') \ Range(allocator'.free_slots)
        PROVE  \E h \in held' : h.offset = x
    <3>1. CASE x = o
      <4>1. Handle(o, size) \in held' /\ Handle(o, size).offset = o
        BY <1>3, <1>4, <2>3
      <4> QED BY <3>1, <4>1
    <3>2. CASE x # o
      <4>1. x \in Slots(allocator) \ Range(allocator.free_slots)
        BY <1>3, <2>2, <2>3, <2>7, <3>2
      <4> QED BY <1>3, <1>8, <2>2, <4>1 DEF SlabBooks
    <3> QED BY <3>1, <3>2
  <2>10. SlabBooks'
    <3>1. allocator'.kind = "Slab" /\ Racked(allocator', Capacity)
      BY <1>3, <2>2 DEF Racked
    <3>2. era' = 0 /\ remaps' = {}
      BY <1>3, <1>8 DEF SlabBooks
    <3> QED BY <2>8, <2>9, <3>1, <3>2 DEF SlabBooks
  <2> QED BY <2>6, <2>10 DEF Heap, Booked
<1>9. CASE BumpBooks
  <2>0. allocator \in [kind : {"Bump"}, used : Nat] /\ allocator.used \in Nat /\ allocator.kind = "Bump"
    BY <1>9 DEF BumpBooks
  <2>1. r = BumpAlloc(allocator, Capacity, size, align)
    BY <1>2, <2>0 DEF alloc
  <2>2. PICK v : v = align_up(allocator.used, align)
    OBVIOUS
  <2>3. /\ v # NoOffset /\ v + size <= Capacity
        /\ r = [offset |-> v, state |-> [allocator EXCEPT !.used = v + size]]
    BY <1>3, <2>1, <2>2 DEF BumpAlloc
  <2>4. v \in Nat /\ v >= allocator.used
    BY <1>1, <2>0, <2>2, <2>3, AlignUpLeast
  <2>5. PICK o \in Nat : o = v /\ o = r.offset /\ o >= allocator.used /\ o + size <= Capacity
    BY <2>3, <2>4
  <2>6. \A h \in held : Pos(at, h) = h.offset
    BY <1>0, <1>9, CurrentPos DEF BumpBooks
  <2>7. \A h \in held : Pos(at, h) + h.size <= o
    <3> SUFFICES ASSUME NEW h \in held PROVE h.offset + h.size <= o
      BY <2>6
    <3>1. h.offset + h.size <= allocator.used /\ h.offset \in Nat /\ h.size \in Nat
      BY <1>6, <1>9 DEF BumpBooks
    <3> QED BY <2>0, <2>5, <3>1
  <2>8. TypeOK' /\ Traced(at)' /\ Kept(at)'
    BY <1>5, <2>5, <2>7
  <2>9. PICK u \in Nat : u = o + size
    BY <1>1
  <2>10. allocator' = [kind |-> "Bump", used |-> u]
    BY <1>3, <2>0, <2>3, <2>5, <2>9
  <2>11. ASSUME NEW h \in held' PROVE h.offset + h.size <= u
    <3>1. CASE h \in held
      <4>1. h.offset + h.size <= o /\ h.offset \in Nat /\ h.size \in Nat
        BY <1>6, <2>6, <2>7, <3>1
      <4> QED BY <1>1, <2>9, <4>1
    <3>2. CASE h = Handle(o, size)
      <4>1. h.offset = o /\ h.size = size
        BY <1>4, <2>5, <3>2
      <4> QED BY <2>9, <4>1
    <3> QED BY <1>3, <2>5, <3>1, <3>2
  <2>12. BumpBooks'
    <3>1. era' = 0 /\ remaps' = {}
      BY <1>3, <1>9 DEF BumpBooks
    <3> QED BY <2>10, <2>11, <3>1 DEF BumpBooks
  <2> QED BY <2>8, <2>12 DEF Heap, Booked
<1> QED BY <1>0, <1>7, <1>8, <1>9 DEF Booked

(* Freeing a current handle's block takes exactly that block off the books.*)
LEMMA DeallocateHeap ==
  ASSUME NEW at, Heap(at), NEW h \in held, Deallocate(h), h.era = era
  PROVE  Heap(at)'
<1>0. TypeOK /\ Traced(at) /\ Kept(at) /\ Booked(at)
  BY DEF Heap
<1>1. /\ can_dealloc(allocator, h.offset)
      /\ allocator' = dealloc(allocator, h.offset)
      /\ held' = held \ {h}
      /\ UNCHANGED <<memory, generation, remaps, era>>
  BY DEF Deallocate
<1>2. Pos(at, h) = h.offset
  BY <1>0, CurrentPos
<1>3. TypeOK' /\ Traced(at)' /\ Kept(at)'
  BY <1>0, <1>1 DEF TypeOK, Traced, Kept, Pos
<1>4. \A k \in held : Pos(at, k) \in Nat /\ k.size \in Nat /\ k.offset \in Nat
  BY <1>0 DEF Kept, TypeOK, Handles
(* no other block of a size other than 0 is at the same offset *)
<1>5. ASSUME NEW k \in held, k # h, k.size # 0, h.size # 0 PROVE Pos(at, k) # Pos(at, h)
  <2>1. Pos(at, h) + h.size <= Pos(at, k) \/ Pos(at, k) + k.size <= Pos(at, h)
    BY <1>0, <1>5 DEF Kept
  <2> QED BY <1>4, <1>5, <2>1
<1>6. CASE FreelistBooks(at)
  <2>1. Capacity \in Nat /\ Balanced(allocator, Capacity)
    BY <1>6, CapacityType DEF FreelistBooks
  <2>2. PICK w \in Live(Capacity) : w = allocator.allocated
    BY <2>1, BalancedApart
  <2>3. PICK o \in DOMAIN w : o = h.offset /\ allocator' = FreelistDealloc(allocator, o)
    BY <1>1, <1>6, <2>2 DEF FreelistBooks, can_dealloc, dealloc
  <2>4. Balanced(allocator', Capacity) /\ allocator'.allocated = Shrunk(w, o)
    BY <2>1, <2>2, <2>3, DeallocBalanced
  <2>5. PICK v : v = Shrunk(w, o) /\ DOMAIN v = DOMAIN w \ {o} /\ \A x \in DOMAIN v : v[x] = w[x]
    <3>1. PICK v : v = Shrunk(w, o)
      OBVIOUS
    <3>2. DOMAIN v = DOMAIN w \ {o} /\ \A x \in DOMAIN w \ {o} : v[x] = w[x]
      BY <3>1 DEF Shrunk
    <3> QED BY <3>1, <3>2
  <2>6. \A k \in held : Pos(at, k) \in DOMAIN w /\ w[Pos(at, k)] = k.size
    BY <1>6, <2>2 DEF FreelistBooks
  <2>7. \A k \in held : k.size # 0
    BY <2>1, <2>6, LiveType
  <2>8. \A k \in held' : Pos(at, k) \in DOMAIN v /\ v[Pos(at, k)] = k.size
    BY <1>1, <1>2, <1>5, <2>3, <2>5, <2>6, <2>7
  <2>9. \A x \in DOMAIN v : \E k \in held' : Pos(at, k) = x
    BY <1>1, <1>2, <1>6, <2>2, <2>3, <2>5 DEF FreelistBooks
  <2>10. FreelistBooks(at)'
    <3>1. allocator'.kind = "Freelist"
      BY <2>4 DEF Balanced
    <3> QED BY <2>4, <2>5, <2>8, <2>9, <3>1 DEF FreelistBooks, Pos
  <2> QED BY <1>3, <2>10 DEF Heap, Booked
<1>7. CASE SlabBooks
  <2>1. /\ Racked(allocator, Capacity) /\ SlabCanFree(allocator, h.offset) /\ h.offset \in Nat
        /\ allocator' = SlabDealloc(allocator, h.offset)
    BY <1>1, <1>4, <1>7 DEF SlabBooks, can_dealloc, dealloc
  <2>2. PICK o \in Nat : o = h.offset
    BY <2>1
  <2>3. /\ Racked(allocator', Capacity)
        /\ allocator'.class_size = allocator.class_size /\ allocator'.n_slots = allocator.n_slots
        /\ Range(allocator'.free_slots) = Range(allocator.free_slots) \cup {o}
    BY <2>1, <2>2, CapacityType, SlabDeallocRacked
  <2>4. Slots(allocator') = Slots(allocator)
    BY <2>3 DEF Slots
  <2>5. \A k \in held : Pos(at, k) = k.offset
    BY <1>0, <1>7, CurrentPos DEF SlabBooks
  <2>6. ASSUME NEW k \in held'
        PROVE  /\ allocator'.class_size # 0
               /\ k.size = allocator'.class_size
               /\ k.offset \in Slots(allocator') \ Range(allocator'.free_slots)
    <3>1. k \in held /\ k # h
      BY <1>1
    <3>2. /\ allocator.class_size # 0 /\ k.size = allocator.class_size /\ h.size = allocator.class_size
          /\ k.offset \in Slots(allocator) \ Range(allocator.free_slots)
      BY <1>7, <3>1 DEF SlabBooks
    <3>3. k.offset # o
      BY <1>2, <1>5, <2>2, <2>5, <3>1, <3>2
    <3> QED BY <2>3, <2>4, <3>2, <3>3
  <2>7. ASSUME allocator.class_size # 0, NEW x \in Slots(allocator') \ Range(allocator'.free_slots)
        PROVE  \E k \in held' : k.offset = x
    <3>1. x \in Slots(allocator) \ Range(allocator.free_slots) /\ x # o
      BY <2>3, <2>4
    <3> QED BY <1>1, <1>7, <2>2, <2>7, <3>1 DEF SlabBooks
  <2>8. SlabBooks'
    <3>1. allocator'.kind = "Slab" /\ era' = 0 /\ remaps' = {}
      BY <1>1, <1>7, <2>3 DEF SlabBooks, Racked
    <3> QED BY <2>3, <2>6, <2>7, <3>1 DEF SlabBooks
  <2> QED BY <1>3, <2>8 DEF Heap, Booked
<1>8. CASE BumpBooks
  <2>1. allocator' = allocator
    BY <1>1, <1>8 DEF BumpBooks, dealloc
  <2>2. BumpBooks'
    BY <1>1, <1>8, <2>1 DEF BumpBooks
  <2> QED BY <1>3, <2>2 DEF Heap, Booked
<1> QED BY <1>0, <1>6, <1>7, <1>8 DEF Booked

(* A handle is replaced by one to the same block.                          *)
LEMMA ReplaceHeap ==
  ASSUME NEW at, Heap(at), NEW h \in held, NEW n \in Handles, n.era <= era,
         n.generation = Wrap(n.era, LastGen),
         Pos(at, n) = Pos(at, h), n.size = h.size,
         held' = (held \ {h}) \cup {n}, UNCHANGED <<allocator, generation, remaps, era>>,
         n.value # Unset =>
           \A i \in Pos(at, h)..(Pos(at, h) + h.size - 1) : memory'[i] = n.value,
         \A k \in held \ {h} : \A i \in Pos(at, k)..(Pos(at, k) + k.size - 1) : memory'[i] = memory[i]
  PROVE  Heap(at)'
<1>0. TypeOK /\ Traced(at) /\ Kept(at) /\ Booked(at)
  BY DEF Heap
<1>1. TypeOK' /\ Traced(at)'
  BY <1>0 DEF TypeOK, Traced
<1>2. (\A k \in held : Pos(at, k) \in Nat /\ Pos(at, k) + k.size <= Capacity)'
  BY <1>0 DEF Kept, Pos
<1>3. ASSUME NEW k \in held', NEW l \in held', k # l
      PROVE  Pos(at, k) + k.size <= Pos(at, l) \/ Pos(at, l) + l.size <= Pos(at, k)
  <2>1. CASE k # n /\ l # n
    BY <1>0, <1>3, <2>1 DEF Kept
  <2>2. CASE k = n
    <3>1. l \in held /\ l # h
      BY <1>3, <2>2
    <3>2. Pos(at, h) + h.size <= Pos(at, l) \/ Pos(at, l) + l.size <= Pos(at, h)
      BY <1>0, <3>1 DEF Kept
    <3> QED BY <2>2, <3>2
  <2>3. CASE l = n
    <3>1. k \in held /\ k # h
      BY <1>3, <2>3
    <3>2. Pos(at, h) + h.size <= Pos(at, k) \/ Pos(at, k) + k.size <= Pos(at, h)
      BY <1>0, <3>1 DEF Kept
    <3> QED BY <2>3, <3>2
  <2> QED BY <2>1, <2>2, <2>3
<1>4. ASSUME NEW k \in held', k.value # Unset,
             NEW i \in Pos(at, k)..(Pos(at, k) + k.size - 1)
      PROVE  memory'[i] = k.value
  <2>1. CASE k = n
    BY <1>4, <2>1
  <2>2. CASE k # n
    <3>1. k \in held \ {h}
      BY <2>2
    <3>2. memory[i] = k.value
      BY <1>0, <1>4, <3>1 DEF Kept
    <3> QED BY <3>1, <3>2
  <2> QED BY <2>1, <2>2
<1>5. Kept(at)'
  BY <1>2, <1>3, <1>4 DEF Kept, Pos
<1>6. era = 0 => n.offset = h.offset
  <2> SUFFICES ASSUME era = 0 PROVE n.offset = h.offset
    OBVIOUS
  <2>1. n.era \in Nat /\ n.offset \in Nat /\ Pos(at, h) = h.offset
    BY <1>0, CurrentPos DEF Handles
  <2>2. n.era = era
    BY <2>1
  <2> QED BY <1>0, <2>1, <2>2 DEF Traced, Pos
<1>7. ASSUME NEW k \in held' PROVE \E l \in held : Pos(at, k) = Pos(at, l) /\ k.size = l.size
                                   /\ (era = 0 => k.offset = l.offset)
  BY <1>6
<1>8. ASSUME NEW l \in held PROVE \E k \in held' : Pos(at, k) = Pos(at, l)
                                  /\ (era = 0 => k.offset = l.offset)
  BY <1>6
<1>9. CASE FreelistBooks(at)
  <2>1. \A k \in held' : /\ Pos(at, k) \in DOMAIN allocator.allocated
                         /\ allocator.allocated[Pos(at, k)] = k.size
    BY <1>7, <1>9 DEF FreelistBooks
  <2>2. \A o \in DOMAIN allocator.allocated : \E k \in held' : Pos(at, k) = o
    BY <1>8, <1>9 DEF FreelistBooks
  <2>3. FreelistBooks(at)'
    BY <1>9, <2>1, <2>2 DEF FreelistBooks, Pos
  <2> QED BY <1>1, <1>5, <2>3 DEF Heap, Booked
<1>10. CASE SlabBooks
  <2>1. SlabBooks'
    BY <1>7, <1>8, <1>10 DEF SlabBooks
  <2> QED BY <1>1, <1>5, <2>1 DEF Heap, Booked
<1>11. CASE BumpBooks
  <2>1. BumpBooks'
    BY <1>7, <1>11 DEF BumpBooks
  <2> QED BY <1>1, <1>5, <2>1 DEF Heap, Booked
<1> QED BY <1>0, <1>9, <1>10, <1>11 DEF Booked

(* A write changes the bytes of its own block only.                        *)
LEMMA WriteHeap ==
  ASSUME NEW at, Heap(at), NEW h \in held, NEW v \in Values, Write(h, v), h.era = era
  PROVE  Heap(at)'
<1>0. TypeOK /\ Traced(at) /\ Kept(at)
  BY DEF Heap
<1>1. /\ h \in Handles /\ h.offset \in Nat /\ h.size \in Nat
      /\ h.era <= era /\ h.generation = Wrap(h.era, LastGen)
  BY <1>0 DEF TypeOK, Handles
<1>2. Pos(at, h) = h.offset
  BY <1>0, CurrentPos
<1>3. PICK n \in Handles : n = [h EXCEPT !.value = v] /\ n.generation = h.generation
                           /\ n.era = h.era /\ n.offset = h.offset /\ n.size = h.size /\ n.value = v
  <2>1. [h EXCEPT !.value = v] \in Handles
    BY <1>1 DEF Handles
  <2>2. /\ [h EXCEPT !.value = v].generation = h.generation /\ [h EXCEPT !.value = v].era = h.era
        /\ [h EXCEPT !.value = v].offset = h.offset
        /\ [h EXCEPT !.value = v].size = h.size /\ [h EXCEPT !.value = v].value = v
    BY <1>1 DEF Handles
  <2> QED BY <2>1, <2>2
<1>4. /\ h.offset + h.size <= Capacity
      /\ memory' = [i \in Cells |-> IF i \in Block(h) THEN v ELSE memory[i]]
      /\ held' = (held \ {h}) \cup {n}
      /\ UNCHANGED <<allocator, generation, remaps, era>>
  BY <1>3 DEF Write
<1>5. \A i \in Pos(at, h)..(Pos(at, h) + h.size - 1) : memory'[i] = n.value
  <2> SUFFICES ASSUME NEW i \in h.offset..(h.offset + h.size - 1) PROVE memory'[i] = v
    BY <1>2, <1>3
  <2>1. i \in Cells /\ i \in Block(h)
    BY <1>1, <1>4, CapacityType DEF Cells, Block
  <2> QED BY <1>4, <2>1
<1>6. ASSUME NEW k \in held \ {h}, NEW i \in Pos(at, k)..(Pos(at, k) + k.size - 1)
      PROVE  memory'[i] = memory[i]
  <2>1. Pos(at, h) + h.size <= Pos(at, k) \/ Pos(at, k) + k.size <= Pos(at, h)
    BY <1>0 DEF Kept
  <2>2. Pos(at, k) \in Nat /\ k.size \in Nat /\ Pos(at, k) + k.size <= Capacity
    BY <1>0 DEF Kept, TypeOK, Handles
  <2>3. i \notin Block(h)
    BY <1>1, <1>2, <2>1, <2>2 DEF Block
  <2>4. i \in Cells
    BY <2>2, CapacityType DEF Cells
  <2> QED BY <1>4, <2>3, <2>4
<1>7. Pos(at, n) = Pos(at, h)
  BY <1>3 DEF Pos
<1>8. n.era <= era /\ n.generation = Wrap(n.era, LastGen) /\ n.size = h.size
  BY <1>1, <1>3
<1> QED BY <1>4, <1>5, <1>6, <1>7, <1>8, ReplaceHeap

(* A remap gives a handle of its old generation the block's place in the   *)
(* new one.                                                                *)
LEMMA MigrateHeap ==
  ASSUME NEW at, Heap(at), NEW h \in held, NEW m \in remaps, migrate(h, m),
         m.era = h.era
  PROVE  Heap(at)'
<1>0. TypeOK /\ Traced(at) /\ Kept(at)
  BY DEF Heap
<1>1. h \in Handles /\ h.offset \in DOMAIN m.mapping
  BY <1>0 DEF TypeOK, migrate
<1>2. PICK g \in Nat \ {0}, e \in Nat, o \in Nat :
        /\ g = m.new_generation /\ e = m.era + 1 /\ o = m.mapping[h.offset]
        /\ g = Wrap(e, LastGen) /\ e <= era
  <2>1. /\ m.era \in Nat /\ m.era + 1 <= era /\ m.new_generation = Wrap(m.era + 1, LastGen)
        /\ m.mapping[h.offset] \in Nat
    BY <1>0, <1>1 DEF TypeOK
  <2>2. PICK e \in Nat : e = m.era + 1
    BY <2>1
  <2>3. Wrap(e, LastGen) \in Nat \ {0}
    BY LastGenAssumption, WrapNext
  <2> QED BY <2>1, <2>2, <2>3
<1>3. PICK n \in Handles : n = [h EXCEPT !.generation = g, !.offset = o, !.era = e]
                           /\ n.generation = g /\ n.era = e
                           /\ n.offset = o /\ n.size = h.size /\ n.value = h.value
  <2> DEFINE x == [h EXCEPT !.generation = g, !.offset = o, !.era = e]
  <2>1. x \in Handles
    BY <1>1 DEF Handles
  <2>2. x.generation = g /\ x.era = e /\ x.offset = o /\ x.size = h.size /\ x.value = h.value
    BY <1>1 DEF Handles
  <2> QED BY <2>1, <2>2
<1>4. /\ held' = (held \ {h}) \cup {n}
      /\ UNCHANGED <<allocator, memory, generation, remaps, era>>
  BY <1>2, <1>3 DEF migrate
<1>5. Pos(at, n) = Pos(at, h)
  BY <1>0, <1>1, <1>2, <1>3 DEF Traced, Pos
<1>6. n.value # Unset => \A i \in Pos(at, h)..(Pos(at, h) + h.size - 1) : memory'[i] = n.value
  BY <1>0, <1>3, <1>4 DEF Kept
<1>7. \A k \in held \ {h} : \A i \in Pos(at, k)..(Pos(at, k) + k.size - 1) : memory'[i] = memory[i]
  BY <1>4
<1> QED BY <1>2, <1>3, <1>4, <1>5, <1>6, <1>7, ReplaceHeap

(* Compaction copies each live block whole.                                *)
LEMMA CompactCopies ==
  ASSUME Balanced(allocator, Capacity), NEW w, w = allocator.allocated,
         NEW o \in DOMAIN w, NEW i \in Nat, Packed(w, o) <= i, i < Packed(w, o) + w[o]
  PROVE  CompactedMemory[i] = memory[o + i - Packed(w, o)]
<1>1. Capacity \in Nat /\ w \in Live(Capacity) /\ Apart(w, Capacity)
  BY CapacityType, BalancedApart
<1>2. \A q \in DOMAIN w : q \in Nat /\ w[q] \in Nat \ {0}
  BY <1>1, LiveType
<1>3. /\ \A q \in DOMAIN w : Packed(w, q) \in Nat /\ Packed(w, q) <= q
      /\ \A p, q \in DOMAIN w : p < q => Packed(w, p) + w[p] <= Packed(w, q)
      /\ \A q \in DOMAIN w : Packed(w, q) + w[q] <= SumOf(w, DOMAIN w)
      /\ SumOf(w, DOMAIN w) \in Nat /\ SumOf(w, DOMAIN w) <= Capacity
  BY <1>1, PackedApart
<1>4. \A q : PackedOffset(allocator, q) = Packed(w, q)
  BY PackedIs
<1> DEFINE src == {q \in DOMAIN allocator.allocated :
                     i - PackedOffset(allocator, q) \in 0..(allocator.allocated[q] - 1)}
<1>5. i \in Cells
  <2>1. Packed(w, o) + w[o] <= SumOf(w, DOMAIN w) /\ w[o] \in Nat /\ Packed(w, o) \in Nat
    BY <1>2, <1>3
  <2> QED BY <1>1, <1>3, <2>1 DEF Cells
<1>6. \A q : q \in src <=> (q \in DOMAIN w /\ Packed(w, q) <= i /\ i < Packed(w, q) + w[q])
  <2> SUFFICES ASSUME NEW q \in DOMAIN w
               PROVE  i - Packed(w, q) \in 0..(w[q] - 1) <=> (Packed(w, q) <= i /\ i < Packed(w, q) + w[q])
    BY <1>4
  <2>1. w[q] \in Nat /\ Packed(w, q) \in Nat
    BY <1>2, <1>3
  <2> QED BY <2>1
<1>7. o \in src
  BY <1>6
<1>8. ASSUME NEW q \in src PROVE q = o
  <2>1. q \in DOMAIN w /\ Packed(w, q) <= i /\ i < Packed(w, q) + w[q]
    BY <1>6
  <2>2. /\ w[q] \in Nat /\ Packed(w, q) \in Nat /\ w[o] \in Nat /\ Packed(w, o) \in Nat
        /\ q \in Nat /\ o \in Nat
    BY <1>2, <1>3, <2>1
  <2>3. ~(q < o) /\ ~(o < q)
    BY <1>3, <2>1, <2>2
  <2> QED BY <2>2, <2>3
<1>9. PICK q : q = CHOOSE q0 \in src : TRUE
  OBVIOUS
<1>10. q = o /\ src # {}
  <2> HIDE DEF src
  <2> QED BY <1>7, <1>8, <1>9
<1>11. CompactedMemory[i] = IF src = {} THEN 0
         ELSE memory[(CHOOSE q0 \in src : TRUE) + i - PackedOffset(allocator, CHOOSE q0 \in src : TRUE)]
  BY <1>5 DEF CompactedMemory
<1>12. CompactedMemory[i] = memory[q + i - PackedOffset(allocator, q)]
  <2> HIDE DEF src
  <2> QED BY <1>9, <1>10, <1>11
<1> QED BY <1>4, <1>10, <1>12

(* Compaction takes every block, and what the callers' handles stand for,  *)
(* to its packed offset.                                                   *)
LEMMA CompactHeap ==
  ASSUME NEW at, Heap(at), Compact
  PROVE  \E to : Heap(to)'
<1>0. TypeOK /\ Traced(at) /\ Kept(at) /\ Booked(at) /\ era \in Nat
  BY DEF Heap, TypeOK
<1>1. /\ allocator.kind = "Freelist"
      /\ memory' = CompactedMemory
      /\ generation' = NextGen(generation)
      /\ era' = era + 1
      /\ allocator' = FreelistRebuild(allocator, Capacity)
      /\ remaps' \subseteq remaps \cup {Remap}
      /\ held' = held
  BY DEF Compact
<1>2. FreelistBooks(at)
  BY <1>0, <1>1 DEF Booked, SlabBooks, BumpBooks
<1>3. Capacity \in Nat /\ Balanced(allocator, Capacity)
  BY <1>2, CapacityType DEF FreelistBooks
<1>4. PICK w \in Live(Capacity) : w = allocator.allocated /\ Apart(w, Capacity)
  BY <1>3, BalancedApart
<1>5. \A o \in DOMAIN w : o \in Nat /\ w[o] \in Nat \ {0}
  BY <1>3, LiveType
<1>6. /\ \A o \in DOMAIN w : Packed(w, o) \in Nat /\ Packed(w, o) <= o
      /\ \A o, q \in DOMAIN w : o < q => Packed(w, o) + w[o] <= Packed(w, q)
      /\ \A o \in DOMAIN w : Packed(w, o) + w[o] <= SumOf(w, DOMAIN w)
      /\ SumOf(w, DOMAIN w) \in Nat /\ SumOf(w, DOMAIN w) <= Capacity
  BY <1>3, <1>4, PackedApart
<1>7. Balanced(allocator', Capacity) /\ PackedTo(allocator'.allocated, w) /\ allocator'.kind = "Freelist"
  BY <1>1, <1>3, <1>4, RebuildBalanced
<1>8. \A h \in held : /\ Pos(at, h) \in DOMAIN w /\ w[Pos(at, h)] = h.size
                      /\ h.era \in Nat /\ h.era <= era /\ h.generation = Wrap(h.era, LastGen)
                      /\ h.offset \in Nat
  BY <1>0, <1>2, <1>4 DEF FreelistBooks, TypeOK, Handles
<1>9. PICK to : to = [p \in Nat \X Nat |-> IF p[1] = era + 1 THEN p[2] ELSE Packed(w, at[p])]
  OBVIOUS
<1>10. ASSUME NEW g \in Nat, NEW o \in Nat
       PROVE  /\ g = era + 1 => to[<<g, o>>] = o
              /\ g # era + 1 => to[<<g, o>>] = Packed(w, at[<<g, o>>])
  BY <1>9
<1>11. \A h \in held : Pos(to, h) = Packed(w, Pos(at, h))
  <2> SUFFICES ASSUME NEW h \in held PROVE to[<<h.era, h.offset>>] = Packed(w, at[<<h.era, h.offset>>])
    BY DEF Pos
  <2>1. h.era \in Nat /\ h.offset \in Nat /\ h.era # era + 1
    BY <1>0, <1>8
  <2> QED BY <1>10, <2>1
<1>12. TypeOK'
  <2>1. era' \in Nat /\ \A e \in Nat : e <= era => e <= era'
    BY <1>0, <1>1
  <2>2. generation' = Wrap(era', LastGen)
    BY <1>0, <1>1, LastGenAssumption, WrapNext DEF TypeOK, NextGen
  <2>3. \A h \in held : h.era <= era' /\ h.generation = Wrap(h.era, LastGen)
    BY <1>8, <2>1
  <2>4. ASSUME NEW m \in remaps'
        PROVE  /\ m.era \in Nat /\ m.era + 1 <= era'
               /\ m.new_generation = Wrap(m.era + 1, LastGen)
               /\ \A o \in DOMAIN m.mapping : o \in Nat /\ m.mapping[o] \in Nat
    <3>1. CASE m \in remaps
      <4>1. /\ m.era \in Nat /\ m.era + 1 <= era /\ m.new_generation = Wrap(m.era + 1, LastGen)
            /\ \A o \in DOMAIN m.mapping : o \in Nat /\ m.mapping[o] \in Nat
        BY <1>0, <3>1 DEF TypeOK
      <4>2. m.era + 1 \in Nat
        BY <4>1
      <4> QED BY <2>1, <4>1, <4>2
    <3>2. CASE m = Remap
      <4>1. /\ m.era = era /\ m.new_generation = generation'
            /\ DOMAIN m.mapping = DOMAIN w
            /\ \A o \in DOMAIN w : m.mapping[o] = Packed(w, o)
        BY <1>1, <1>4, <3>2, PackedIs DEF Remap
      <4> QED BY <1>0, <1>1, <1>5, <1>6, <2>2, <4>1
    <3> QED BY <1>1, <3>1, <3>2
  <2>5. held' \in SUBSET Handles
    BY <1>0, <1>1 DEF TypeOK
  <2> QED BY <1>1, <2>1, <2>2, <2>3, <2>4, <2>5 DEF TypeOK
<1>13. Traced(to)'
  <2>1. \A o \in Nat : to[<<era', o>>] = o
    BY <1>0, <1>1, <1>10
  <2>2. ASSUME NEW m \in remaps', NEW o \in DOMAIN m.mapping
        PROVE  to[<<m.era, o>>] = to[<<m.era + 1, m.mapping[o]>>]
    <3>0. o \in Nat
      BY <1>12, <2>2 DEF TypeOK
    <3>1. CASE m \in remaps
      <4>1. PICK g \in Nat, e \in Nat, q \in Nat :
              /\ g = m.era /\ e = m.era + 1 /\ q = m.mapping[o]
              /\ g # era + 1 /\ e # era + 1
        BY <1>0, <3>1 DEF TypeOK
      <4>2. at[<<g, o>>] = at[<<e, q>>]
        BY <1>0, <3>1, <4>1 DEF Traced
      <4> QED BY <1>10, <3>0, <4>1, <4>2
    <3>2. CASE m = Remap
      <4>1. /\ m.era = era
            /\ o \in DOMAIN w /\ m.mapping[o] = Packed(w, o)
        BY <1>4, <3>2, PackedIs DEF Remap
      <4>2. Packed(w, o) \in Nat /\ at[<<era, o>>] = o
        BY <1>0, <1>6, <3>0, <4>1 DEF Traced
      <4>3. to[<<era, o>>] = Packed(w, o)
        BY <1>0, <1>10, <3>0, <4>2
      <4>4. to[<<era + 1, Packed(w, o)>>] = Packed(w, o)
        BY <1>0, <1>10, <4>2
      <4> QED BY <4>1, <4>3, <4>4
    <3> QED BY <1>1, <3>1, <3>2
  <2> QED BY <2>1, <2>2 DEF Traced
<1>14. Kept(to)'
  <2>1. \A h \in held : Pos(to, h) \in Nat /\ Pos(to, h) + h.size <= Capacity
    <3> SUFFICES ASSUME NEW h \in held PROVE Pos(to, h) \in Nat /\ Pos(to, h) + h.size <= Capacity
      OBVIOUS
    <3>1. PICK p \in DOMAIN w : p = Pos(at, h) /\ w[p] = h.size /\ Pos(to, h) = Packed(w, p)
      BY <1>8, <1>11
    <3>2. Packed(w, p) \in Nat /\ w[p] \in Nat /\ Packed(w, p) + w[p] <= SumOf(w, DOMAIN w)
      BY <1>5, <1>6
    <3> QED BY <1>3, <1>6, <3>1, <3>2
  <2>2. ASSUME NEW h \in held, NEW k \in held, h # k
        PROVE  Pos(to, h) + h.size <= Pos(to, k) \/ Pos(to, k) + k.size <= Pos(to, h)
    <3>1. PICK p \in DOMAIN w : p = Pos(at, h) /\ w[p] = h.size /\ Pos(to, h) = Packed(w, p)
      BY <1>8, <1>11
    <3>2. PICK q \in DOMAIN w : q = Pos(at, k) /\ w[q] = k.size /\ Pos(to, k) = Packed(w, q)
      BY <1>8, <1>11
    <3>3. p \in Nat /\ q \in Nat /\ w[p] \in Nat \ {0} /\ w[q] \in Nat \ {0}
      BY <1>5
    <3>4. p + w[p] <= q \/ q + w[q] <= p
      BY <1>0, <2>2, <3>1, <3>2 DEF Kept
    <3>5. p < q \/ q < p
      BY <3>3, <3>4
    <3> QED BY <1>6, <3>1, <3>2, <3>5
  <2>3. ASSUME NEW h \in held, h.value # Unset, NEW i \in Pos(to, h)..(Pos(to, h) + h.size - 1)
        PROVE  memory'[i] = h.value
    <3>1. PICK p \in DOMAIN w : p = Pos(at, h) /\ w[p] = h.size /\ Pos(to, h) = Packed(w, p)
      BY <1>8, <1>11
    <3>2. Packed(w, p) \in Nat /\ w[p] \in Nat /\ p \in Nat
      BY <1>5, <1>6
    <3>3. i \in Nat /\ Packed(w, p) <= i /\ i < Packed(w, p) + w[p]
      BY <3>1, <3>2
    <3>4. memory'[i] = memory[p + i - Packed(w, p)]
      BY <1>1, <1>3, <1>4, <3>3, CompactCopies
    <3>5. p + i - Packed(w, p) \in Pos(at, h)..(Pos(at, h) + h.size - 1)
      BY <3>1, <3>2, <3>3
    <3> QED BY <1>0, <2>3, <3>4, <3>5 DEF Kept
  <2> QED BY <1>1, <2>1, <2>2, <2>3 DEF Kept, Pos
<1>15. FreelistBooks(to)'
  <2>1. PICK v : v = allocator'.allocated /\ PackedTo(v, w)
    BY <1>7
  <2>2. \A h \in held : Pos(to, h) \in DOMAIN v /\ v[Pos(to, h)] = h.size
    BY <1>8, <1>11, <2>1 DEF PackedTo
  <2>3. ASSUME NEW n \in DOMAIN v PROVE \E h \in held : Pos(to, h) = n
    <3>1. PICK o \in DOMAIN w : n = Packed(w, o)
      BY <2>1 DEF PackedTo
    <3>2. PICK h \in held : Pos(at, h) = o
      BY <1>2, <1>4 DEF FreelistBooks
    <3> QED BY <1>11, <3>1, <3>2
  <2> QED BY <1>1, <1>7, <2>1, <2>2, <2>3 DEF FreelistBooks, Pos
<1> QED BY <1>12, <1>13, <1>14, <1>15 DEF Heap, Booked

(* Obeying a handle or a remap of an earlier wrap leaves the books of a    *)
(* freelist balanced.                                                      *)
LEMMA DriftHeap ==
  ASSUME allocator.kind = "Freelist", Balanced(allocator, Capacity), [Next]_vars
  PROVE  allocator'.kind = "Freelist" /\ Balanced(allocator', Capacity)
<1>1. Capacity \in Nat
  BY CapacityType
<1>2. ASSUME NEW size \in Sizes, NEW align \in Aligns, Allocate(size, align)
      PROVE  Balanced(allocator', Capacity)
  <2>1. PICK r : /\ r = FreelistAlloc(allocator, size, align)
                 /\ r.offset # NoOffset /\ allocator' = r.state
    BY <1>2 DEF Allocate, alloc
  <2>2. size \in Nat /\ align \in Nat
    BY RequestsAssumption
  <2> QED BY <1>1, <2>1, <2>2, AllocBalanced DEF Gained
<1>3. ASSUME NEW h \in held, Deallocate(h) PROVE Balanced(allocator', Capacity)
  <2>1. h.offset \in DOMAIN allocator.allocated /\ allocator' = FreelistDealloc(allocator, h.offset)
    BY <1>3 DEF Deallocate, can_dealloc, dealloc
  <2> QED BY <1>1, <2>1, DeallocBalanced
<1>4. CASE Compact
  BY <1>1, <1>4, RebuildBalanced DEF Compact
<1>5. Balanced(allocator', Capacity)
  BY <1>2, <1>3, <1>4 DEF Next, Write, migrate, vars
<1> QED BY <1>5 DEF Balanced

(* Every step keeps the invariant.                                         *)
LEMMA NextHeap == Inv /\ [Next]_vars => Inv'
<1> SUFFICES ASSUME Inv, [Next]_vars PROVE Inv'
  OBVIOUS
<1>1. ASSUME Adrift PROVE Adrift'
  <2>1. allocator'.kind = "Freelist" /\ Balanced(allocator', Capacity)
    BY <1>1, DriftHeap DEF Adrift
  <2>2. misled /\ era \in Nat \ {0}
    BY <1>1 DEF Adrift
  <2>3. misled'
    <3>1. CASE \E h \in held : Deallocate(h)
      BY <2>2, <3>1, Zenon DEF Deallocate
    <3>2. CASE \E h \in held : \E v \in Values : Write(h, v)
      BY <2>2, <3>2, Zenon DEF Write
    <3>3. CASE \E h \in held : \E m \in remaps : migrate(h, m)
      BY <2>2, <3>3, Zenon DEF migrate
    <3>4. CASE \/ \E size \in Sizes, align \in Aligns : Allocate(size, align)
               \/ Compact
               \/ UNCHANGED vars
      BY <2>2, <3>4, Zenon DEF Allocate, Compact, vars
    <3> QED BY <3>1, <3>2, <3>3, <3>4, Zenon DEF Next
  <2>4. era' = era \/ era' = era + 1
    BY DEF Next, Allocate, Compact, Deallocate, Write, migrate, vars
  <2> QED BY <2>1, <2>2, <2>3, <2>4 DEF Adrift
<1>2. ASSUME NEW at, Heap(at), ~misled PROVE Inv'
  <2>1. ASSUME NEW size \in Sizes, NEW align \in Aligns, Allocate(size, align) PROVE Inv'
    <3>1. Heap(at)' /\ ~misled'
      BY <1>2, <2>1, AllocateHeap DEF Allocate
    <3> QED BY <3>1 DEF Inv
  <2>2. CASE Compact
    <3>1. (\E to : Heap(to)') /\ ~misled'
      BY <1>2, <2>2, CompactHeap DEF Compact
    <3> QED BY <3>1 DEF Inv
  (* a handle or a remap of an earlier era, which only the freelist has had *)
  <2>3. ASSUME NEW e \in Nat, e <= era, e # era, Next, misled', era' = era PROVE Inv'
    <3>1. era \in Nat \ {0} /\ Booked(at)
      BY <1>2, <2>3 DEF Heap, TypeOK
    <3>2. FreelistBooks(at)
      BY <3>1 DEF Booked, SlabBooks, BumpBooks
    <3>3. allocator'.kind = "Freelist" /\ Balanced(allocator', Capacity)
      BY <2>3, <3>2, DriftHeap DEF FreelistBooks
    <3> QED BY <2>3, <3>1, <3>3 DEF Inv, Adrift
  <2>4. \A h \in held : h.era \in Nat /\ h.era <= era
    BY <1>2 DEF Heap, TypeOK, Handles
  <2>5. ASSUME NEW h \in held, Deallocate(h), Next PROVE Inv'
    <3>1. CASE h.era = era
      <4>1. Heap(at)' /\ ~misled'
        BY <1>2, <2>5, <3>1, DeallocateHeap DEF Deallocate
      <4> QED BY <4>1 DEF Inv
    <3>2. CASE h.era # era
      BY <2>3, <2>4, <2>5, <3>2 DEF Deallocate
    <3> QED BY <3>1, <3>2
  <2>6. ASSUME NEW h \in held, NEW v \in Values, Write(h, v), Next PROVE Inv'
    <3>1. CASE h.era = era
      <4>1. Heap(at)' /\ ~misled'
        BY <1>2, <2>6, <3>1, WriteHeap DEF Write
      <4> QED BY <4>1 DEF Inv
    <3>2. CASE h.era # era
      BY <2>3, <2>4, <2>6, <3>2 DEF Write
    <3> QED BY <3>1, <3>2
  <2>7. ASSUME NEW h \in held, NEW m \in remaps, migrate(h, m), Next PROVE Inv'
    <3>1. CASE m.era = h.era
      <4>1. Heap(at)' /\ ~misled'
        BY <1>2, <2>7, <3>1, MigrateHeap DEF migrate
      <4> QED BY <4>1 DEF Inv
    <3>2. CASE m.era # h.era
      <4>1. m.era \in Nat /\ m.era + 1 <= era /\ era \in Nat
        BY <1>2, <2>7 DEF Heap, TypeOK
      <4>2. m.era <= era /\ m.era # era
        BY <4>1
      <4> QED BY <2>3, <2>7, <3>2, <4>1, <4>2 DEF migrate
    <3> QED BY <3>1, <3>2
  <2>8. CASE UNCHANGED vars
    <3>1. TypeOK' /\ Traced(at)' /\ Kept(at)'
      BY <1>2, <2>8 DEF vars, Heap, TypeOK, Traced, Kept, Handles, Pos
    <3>2. Booked(at)'
      BY <1>2, <2>8 DEF vars, Heap, Booked, FreelistBooks, SlabBooks, BumpBooks, Pos
    <3>3. Heap(at)' /\ ~misled'
      BY <1>2, <2>8, <3>1, <3>2 DEF Heap, vars
    <3> QED BY <3>3 DEF Inv
  <2> QED BY <2>1, <2>2, <2>5, <2>6, <2>7, <2>8 DEF Next
<1> QED BY <1>1, <1>2 DEF Inv

(* The blocks can be followed in every state.                              *)
LEMMA HeapFollowed == Spec => []Inv
BY InitHeap, NextHeap, PTL DEF Spec

(* The region's books balance, whatever happened to it.                    *)
LEMMA InvBalanced ==
  ASSUME Inv, allocator.kind = "Freelist"
  PROVE  Capacity \in Nat /\ Balanced(allocator, Capacity)
BY CapacityType DEF Inv, Adrift, Heap, Booked, FreelistBooks, SlabBooks, BumpBooks

-----------------------------------------------------------------------------
(* The handles *)

(* A handle that passes the generation check reads back exactly what its   *)
(* owner wrote through compactions and migrations, in a region of any size *)
(* and with any allocator, unless it is as old as a wrap of the generation *)
(* or a handle or remap as old was obeyed before.                          *)
THEOREM HandlesAlwaysReadBack == Spec => []HandlesReadBack
<1>1. Inv => HandlesReadBack
  <2> SUFFICES ASSUME NEW at, Heap(at), NEW h \in held, Valid(h), Fresh(h), h.value # Unset,
                      NEW i \in Block(h)
               PROVE  memory[i] = h.value
    BY DEF Inv, Adrift, HandlesReadBack
  <2>1. TypeOK /\ Traced(at) /\ Kept(at)
    BY DEF Heap
  <2>2. /\ h.era \in Nat /\ era \in Nat /\ h.era <= era /\ era - h.era < LastGen
        /\ Wrap(era, LastGen) = Wrap(h.era, LastGen)
    BY <2>1 DEF TypeOK, Handles, Valid, Fresh
  <2>3. h.era = era
    BY <2>2, LastGenAssumption, WrapNear
  <2>4. Pos(at, h) = h.offset
    BY <2>1, <2>3, CurrentPos
  <2> QED BY <2>1, <2>4 DEF Kept, Block
<1> QED BY <1>1, HeapFollowed, PTL

(* A slot on the free stack cannot be freed, any other slot can.           *)
LEMMA SlabFrees ==
  ASSUME NEW C \in Nat, NEW a, Racked(a, C), NEW o \in Nat
  PROVE  SlabCanFree(a, o) <=> (a.class_size # 0 /\ o \in Slots(a) \ Range(a.free_slots))
<1>1. a.free_slots \in Seq(Nat)
  BY DEF Racked
<1>2. Contains(a.free_slots, o) <=> o \in Range(a.free_slots)
  BY <1>1 DEF Contains, Range
<1> QED BY <1>2 DEF SlabCanFree, Slots

(* Until a compaction moves blocks, a free succeeds exactly on the offsets *)
(* that callers hold, for the freelist and for the slab.                   *)
THEOREM OnlyLiveBlocksFreed == Spec => []FreesOnlyLive
<1>1. Inv => FreesOnlyLive
  <2> SUFFICES ASSUME NEW at, Heap(at), era = 0, allocator.kind # "Bump", NEW o \in Cells
               PROVE  can_dealloc(allocator, o) <=> \E h \in held : h.offset = o
    BY DEF Inv, Adrift, FreesOnlyLive
  <2>1. TypeOK /\ Traced(at) /\ Booked(at) /\ Capacity \in Nat
    BY CapacityType DEF Heap
  <2>2. \A h \in held : Pos(at, h) = h.offset
    BY <2>1, CurrentPos
  <2>3. o \in Nat
    BY <2>1 DEF Cells
  <2>4. CASE FreelistBooks(at)
    <3>1. can_dealloc(allocator, o) <=> o \in DOMAIN allocator.allocated
      BY <2>4 DEF FreelistBooks, can_dealloc
    <3> QED BY <2>2, <2>4, <3>1 DEF FreelistBooks
  <2>5. CASE SlabBooks
    <3>1. can_dealloc(allocator, o) <=> SlabCanFree(allocator, o)
      BY <2>5 DEF SlabBooks, can_dealloc
    <3>2. SlabCanFree(allocator, o)
            <=> (allocator.class_size # 0 /\ o \in Slots(allocator) \ Range(allocator.free_slots))
      BY <2>1, <2>3, <2>5, SlabFrees DEF SlabBooks
    <3> QED BY <2>5, <3>1, <3>2 DEF SlabBooks
  <2>6. ~BumpBooks
    BY DEF BumpBooks
  <2> QED BY <2>1, <2>4, <2>5, <2>6 DEF Booked
<1> QED BY <1>1, HeapFollowed, PTL

-----------------------------------------------------------------------------
(* The freelist *)

(* The freelist's books always balance: sorted free blocks that do not     *)
(* touch, every byte in exactly one block, and used the sum of the live    *)
(* blocks, after any sequence of allocations, frees and compactions.       *)
THEOREM FreelistAlwaysTiles == Spec => []FreelistTiles
<1>1. Inv => FreelistTiles
  <2> SUFFICES ASSUME Inv, allocator.kind = "Freelist" PROVE FreelistTiles
    BY DEF FreelistTiles
  <2>1. PICK free, w : free = allocator.free /\ w = allocator.allocated
    OBVIOUS
  <2>2. /\ Capacity \in Nat /\ w \in Live(Capacity) /\ free \in Seq(Blocks)
        /\ FreeList(free, {}) \/ (Capacity = 0 /\ free = << <<0, 0>> >>)
        /\ Tiled(free, w, Capacity)
        /\ allocator.used = SumOf(w, DOMAIN w)
    BY <2>1, InvBalanced DEF Balanced
  <2>3. \A o \in DOMAIN w : o \in Nat /\ w[o] \in Nat \ {0}
    BY <2>2, LiveType
  <2>4. \A i \in DOMAIN free : free[i] \in Blocks /\ free[i][1] \in Nat /\ free[i][2] \in Nat
    BY <2>2 DEF Blocks
  <2> DEFINE FreeCells(i) == free[i][1]..(free[i][1] + free[i][2] - 1)
             LiveCells(o) == o..(o + w[o] - 1)
  <2>5. \A i \in DOMAIN free : \A c : c \in FreeCells(i) <=>
          (c \in Nat /\ free[i][1] <= c /\ c < End(free[i]))
    BY <2>4 DEF End
  <2>6. \A o \in DOMAIN w : \A c : c \in LiveCells(o) <=> (c \in Nat /\ o <= c /\ c < o + w[o])
    BY <2>3
  <2> HIDE DEF FreeCells, LiveCells
  <2>7. \A i \in 1..(Len(free) - 1) : free[i][1] + free[i][2] < free[i + 1][1]
    <3> SUFFICES ASSUME NEW i \in 1..(Len(free) - 1)
                 PROVE  free[i][1] + free[i][2] < free[i + 1][1]
      OBVIOUS
    <3>1. i \in DOMAIN free /\ i + 1 \in DOMAIN free /\ i < i + 1
      BY <2>2
    <3>2. CASE FreeList(free, {})
      <4>1. End(free[i]) <= free[i + 1][1] /\ End(free[i]) # free[i + 1][1]
        BY <3>1, <3>2 DEF FreeList, Sorted
      <4> QED BY <2>4, <3>1, <4>1 DEF End
    <3>3. CASE free = << <<0, 0>> >>
      BY <3>3
    <3> QED BY <2>2, <3>2, <3>3
  <2>8. \A i \in DOMAIN free, o \in DOMAIN w : FreeCells(i) \cap LiveCells(o) = {}
    <3> SUFFICES ASSUME NEW i \in DOMAIN free, NEW o \in DOMAIN w,
                        NEW c, c \in FreeCells(i), c \in LiveCells(o)
                 PROVE  FALSE
      OBVIOUS
    <3>1. c \in Nat /\ InFree(free, c) /\ InLive(w, c)
      BY <2>5, <2>6 DEF InFree, InLive
    <3> QED BY <2>2, <3>1 DEF Tiled
  <2>9. \A o, q \in DOMAIN w : o # q => LiveCells(o) \cap LiveCells(q) = {}
    <3> SUFFICES ASSUME NEW o \in DOMAIN w, NEW q \in DOMAIN w, o # q,
                        NEW c, c \in LiveCells(o), c \in LiveCells(q)
                 PROVE  FALSE
      OBVIOUS
    <3>1. /\ o \in Nat /\ q \in Nat /\ w[o] \in Nat /\ w[q] \in Nat
          /\ c \in Nat /\ o <= c /\ c < o + w[o] /\ q <= c /\ c < q + w[q]
      BY <2>3, <2>6
    <3>2. o < q => o + w[o] <= q
      BY <2>2 DEF Tiled
    <3>3. q < o => q + w[q] <= o
      BY <2>2 DEF Tiled
    <3> QED BY <3>1, <3>2, <3>3
  <2>10. UNION ({FreeCells(i) : i \in DOMAIN free} \cup {LiveCells(o) : o \in DOMAIN w}) = Cells
    <3>1. \A c : c \in Cells <=> (c \in Nat /\ c < Capacity)
      BY <2>2 DEF Cells
    <3>2. \A c \in Nat : InFree(free, c) <=> \E i \in DOMAIN free : c \in FreeCells(i)
      BY <2>5 DEF InFree
    <3>3. \A c \in Nat : InLive(w, c) <=> \E o \in DOMAIN w : c \in LiveCells(o)
      BY <2>6 DEF InLive
    <3>4. \A c : ((\E i \in DOMAIN free : c \in FreeCells(i)) \/ (\E o \in DOMAIN w : c \in LiveCells(o)))
                 => c \in Nat
      BY <2>5, <2>6
    <3>5. \A c : c \in Cells <=>
            ((\E i \in DOMAIN free : c \in FreeCells(i)) \/ (\E o \in DOMAIN w : c \in LiveCells(o)))
      BY <2>2, <3>1, <3>2, <3>3, <3>4 DEF Tiled
    <3> QED BY <3>5
  <2>11. allocator.used = MapThenSumSet(LAMBDA o : allocator.allocated[o], DOMAIN allocator.allocated)
    BY <2>1, <2>2 DEF SumOf, MapThenSumSet, MapThenFoldSet
  <2> USE DEF FreeCells, LiveCells
  <2> QED BY <2>1, <2>7, <2>8, <2>9, <2>10, <2>11 DEF FreelistTiles, BlockCells
<1> QED BY <1>1, HeapFollowed, PTL

(* An allocation fails only when no aligned gap is large enough: after any *)
(* history, first fit, its early return on overflow, padding and           *)
(* coalescing lose no free bytes but those align_up cannot round to.       *)
THEOREM NoGapMissed == Spec => []NoFalseFailure
<1>1. Inv => NoFalseFailure
  <2> SUFFICES ASSUME Inv, allocator.kind = "Freelist", NEW size \in 1..Capacity,
                      NEW align \in Aligns, IsPowerOfTwo(align),
                      alloc(allocator, Capacity, size, align).offset = NoOffset,
                      NEW o \in Cells, o % align = 0, o + size <= Capacity,
                      o + align - 1 <= MaxU32,
                      \A q \in DOMAIN allocator.allocated :
                         (o..(o + size - 1)) \cap BlockCells(q) = {}
               PROVE  FALSE
    BY DEF NoFalseFailure
  <2>1. Balanced(allocator, Capacity) /\ Capacity \in 0..MaxU32 /\ Capacity \in Nat
    BY InvBalanced, CapacityAssumption
  <2>2. size \in Nat \ {0} /\ align \in Nat /\ o \in Nat
    BY <2>1, RequestsAssumption DEF Cells
  <2>3. \A q \in DOMAIN allocator.allocated : q \in Nat /\ allocator.allocated[q] \in Nat
    <3>1. allocator.allocated \in Live(Capacity)
      BY <2>1, BalancedApart
    <3> QED BY <2>1, <3>1, LiveType
  <2>4. ASSUME NEW c \in Nat, o <= c, c < o + size, InLive(allocator.allocated, c) PROVE FALSE
    <3>1. PICK q \in DOMAIN allocator.allocated : q <= c /\ c < q + allocator.allocated[q]
      BY <2>4 DEF InLive
    <3>2. c \in o..(o + size - 1)
      BY <2>2, <2>4
    <3>3. c \in BlockCells(q)
      BY <2>3, <3>1 DEF BlockCells
    <3> QED BY <3>2, <3>3
  <2>5. alloc(allocator, Capacity, size, align) = FreelistAlloc(allocator, size, align)
    BY DEF alloc
  <2> QED BY <2>1, <2>2, <2>4, <2>5, AllocFindsGap
<1> QED BY <1>1, HeapFollowed, PTL

(* A compaction leaves every free byte in one block behind the live ones,  *)
(* and no other step moves a block.                                        *)
THEOREM CompactionAlwaysDefragments == Spec => CompactionDefragments
<1> DEFINE A == era' # era =>
                  /\ allocator'.used = allocator.used
                  /\ allocator'.free = NonEmpty(<<allocator.used, Capacity - allocator.used>>)
<1>1. Inv /\ [Next]_vars => [A]_vars
  <2> SUFFICES ASSUME Inv, Next, era' # era PROVE A
    OBVIOUS
  <2>1. Compact
    BY DEF Next, Allocate, Deallocate, Write, migrate
  <2>2. Balanced(allocator, Capacity) /\ Capacity \in Nat
    BY <2>1, InvBalanced DEF Compact
  <2> QED BY <2>1, <2>2, RebuildBalanced DEF Compact
<1> QED BY <1>1, HeapFollowed, PTL DEF Spec, CompactionDefragments

-----------------------------------------------------------------------------
(* The promise to callers *)

(* The live blocks, from the books w of a freelist.                        *)
BlocksOf(w) == {<<o, w[o]>> : o \in DOMAIN w}

(* An allocation adds an aligned block apart from the others.              *)
LEMMA FreelistAllocates ==
  ASSUME Inv, allocator.kind = "Freelist",
         NEW size \in Sizes, NEW align \in Aligns, Allocate(size, align)
  PROVE  Promise!Allocate(alloc(allocator, Capacity, size, align).offset, size, align)
<1>1. Balanced(allocator, Capacity) /\ Capacity \in Nat /\ size \in Nat /\ align \in Nat
  BY InvBalanced, RequestsAssumption
<1>2. PICK r : /\ r = FreelistAlloc(allocator, size, align)
               /\ r = alloc(allocator, Capacity, size, align)
               /\ r.offset # NoOffset /\ allocator' = r.state
  BY DEF Allocate, alloc
<1>3. Gained(allocator, r, size, align, Capacity)
  BY <1>1, <1>2, AllocBalanced
<1>4. PICK w \in Live(Capacity), o \in 0..(Capacity - 1) :
        /\ w = allocator.allocated /\ o = r.offset
        /\ o % align = 0 /\ size # 0 /\ o + size <= Capacity /\ o \notin DOMAIN w
        /\ \A c \in Nat : o <= c /\ c < o + size => ~InLive(w, c)
        /\ allocator'.allocated = Grown(w, o, size) /\ allocator'.kind = "Freelist"
  BY <1>1, <1>2, <1>3, BalancedApart DEF Gained, Balanced
<1>5. LiveBlocks = BlocksOf(w) /\ LiveBlocks' = BlocksOf(Grown(w, o, size))
  BY <1>4 DEF LiveBlocks, BlocksOf
<1>6. BlocksOf(Grown(w, o, size)) = BlocksOf(w) \cup {<<o, size>>}
  <2>1. \A x \in DOMAIN w : Grown(w, o, size)[x] = w[x]
    BY <1>4 DEF Grown
  <2>2. DOMAIN Grown(w, o, size) = DOMAIN w \cup {o} /\ Grown(w, o, size)[o] = size
    BY DEF Grown
  <2> QED BY <2>1, <2>2 DEF BlocksOf
<1>7. ASSUME NEW b \in BlocksOf(w)
      PROVE  (b[1]..(b[1] + b[2] - 1)) \cap (o..(o + size - 1)) = {}
  <2>1. PICK x \in DOMAIN w : b = <<x, w[x]>>
    BY DEF BlocksOf
  <2>2. x \in Nat /\ w[x] \in Nat /\ o \in Nat
    BY <1>1, <1>4, LiveType
  <2>3. ASSUME NEW c, c \in x..(x + w[x] - 1), c \in o..(o + size - 1) PROVE FALSE
    <3>1. c \in Nat /\ o <= c /\ c < o + size /\ x <= c /\ c < x + w[x]
      BY <1>1, <2>2, <2>3
    <3> QED BY <1>4, <3>1 DEF InLive
  <2> QED BY <2>1, <2>3
<1>8. Promise!Allocate(o, size, align)
  BY <1>4, <1>5, <1>6, <1>7 DEF Promise!Allocate, Promise!Span
<1> QED BY <1>2, <1>4, <1>8

(* A free removes one block.                                               *)
LEMMA FreelistDeallocates ==
  ASSUME Inv, allocator.kind = "Freelist", NEW h \in held, Deallocate(h)
  PROVE  Promise!Deallocate(h.offset, Freed(h))
<1>1. Balanced(allocator, Capacity) /\ Capacity \in Nat
  BY InvBalanced
<1>2. PICK w, o : /\ w = allocator.allocated /\ o = h.offset /\ o \in DOMAIN w
                  /\ allocator' = FreelistDealloc(allocator, o)
  BY DEF Deallocate, can_dealloc, dealloc
<1>3. allocator'.kind = "Freelist" /\ allocator'.allocated = Shrunk(w, o)
  BY <1>1, <1>2, DeallocBalanced DEF Balanced
<1>4. LiveBlocks = BlocksOf(w) /\ LiveBlocks' = BlocksOf(Shrunk(w, o))
  BY <1>2, <1>3 DEF LiveBlocks, BlocksOf
<1>5. BlocksOf(Shrunk(w, o)) = BlocksOf(w) \ {<<o, w[o]>>}
  <2>1. DOMAIN Shrunk(w, o) = DOMAIN w \ {o} /\ \A x \in DOMAIN w \ {o} : Shrunk(w, o)[x] = w[x]
    BY DEF Shrunk
  <2> QED BY <2>1 DEF BlocksOf
<1>6. <<o, w[o]>> \in LiveBlocks
  BY <1>2, <1>4 DEF BlocksOf
<1>7. Promise!Deallocate(o, w[o])
  BY <1>4, <1>5, <1>6 DEF Promise!Deallocate
<1> QED BY <1>2, <1>7 DEF Freed

(* Compaction packs the blocks from offset 0 in their order.               *)
LEMMA FreelistCompacts ==
  ASSUME Inv, Compact
  PROVE  Promise!Compact
<1>1. Balanced(allocator, Capacity) /\ Capacity \in Nat /\ allocator.kind = "Freelist"
  BY InvBalanced DEF Compact
<1>2. PICK w \in Live(Capacity) : w = allocator.allocated /\ Apart(w, Capacity)
  BY <1>1, BalancedApart
<1>3. PICK v : /\ v = allocator'.allocated /\ allocator'.kind = "Freelist"
               /\ PackedTo(v, w)
  BY <1>1, <1>2, RebuildBalanced DEF Compact
<1>4. LiveBlocks = BlocksOf(w) /\ LiveBlocks' = BlocksOf(v)
  BY <1>1, <1>2, <1>3 DEF LiveBlocks, BlocksOf
<1>5. \A o \in DOMAIN w : o \in Nat /\ w[o] \in Nat /\ Packed(w, o) \in 0..Capacity
  <2>1. \A o \in DOMAIN w : o \in Nat /\ w[o] \in Nat
    BY <1>1, LiveType
  <2>2. \A o \in DOMAIN w : /\ Packed(w, o) \in Nat
                            /\ Packed(w, o) + w[o] <= SumOf(w, DOMAIN w)
                            /\ SumOf(w, DOMAIN w) \in Nat /\ SumOf(w, DOMAIN w) <= Capacity
    BY <1>1, <1>2, PackedApart
  <2> QED BY <1>1, <2>1, <2>2
<1>6. \A b \in BlocksOf(w) : b[1] \in DOMAIN w /\ b[2] = w[b[1]] /\ b = <<b[1], w[b[1]]>>
  BY DEF BlocksOf
<1>7. \A o \in DOMAIN w : <<o, w[o]>> \in BlocksOf(w)
  BY DEF BlocksOf
<1>8. PICK place \in [LiveBlocks -> 0..Capacity] : \A b \in BlocksOf(w) : place[b] = Packed(w, b[1])
  <2>1. [b \in BlocksOf(w) |-> Packed(w, b[1])] \in [LiveBlocks -> 0..Capacity]
    BY <1>4, <1>5, <1>6
  <2> QED BY <2>1
<1>9. ASSUME NEW b \in BlocksOf(w)
      PROVE  /\ Promise!Before(b) = {} => place[b] = 0
             /\ \A c \in Promise!Before(b) :
                  (\A d \in Promise!Before(b) : d[1] <= c[1]) => place[b] = place[c] + c[2]
  <2>1. PICK o \in DOMAIN w : o = b[1] /\ b = <<o, w[o]>> /\ place[b] = Packed(w, o)
    BY <1>6, <1>8
  <2>2. Promise!Before(b) = {c \in BlocksOf(w) : c[1] < o}
    BY <1>4, <2>1 DEF Promise!Before
  <2>3. \A x \in Below(DOMAIN w, o) : <<x, w[x]>> \in Promise!Before(b)
    BY <1>7, <2>2 DEF Below
  <2>4. \A c \in Promise!Before(b) : /\ c \in BlocksOf(w) /\ c[1] \in Below(DOMAIN w, o)
                                     /\ c[2] = w[c[1]] /\ place[c] = Packed(w, c[1])
    BY <1>6, <1>8, <2>2 DEF Below
  <2>5. /\ Below(DOMAIN w, o) = {} => Packed(w, o) = 0
        /\ \A p \in Below(DOMAIN w, o) :
              (\A x \in Below(DOMAIN w, o) : x <= p) => Packed(w, o) = Packed(w, p) + w[p]
    BY <1>1, PackedNext
  <2>6. Promise!Before(b) = {} => place[b] = 0
    BY <2>1, <2>3, <2>5
  <2>7. ASSUME NEW c \in Promise!Before(b), \A d \in Promise!Before(b) : d[1] <= c[1]
        PROVE  place[b] = place[c] + c[2]
    <3>1. \A x \in Below(DOMAIN w, o) : x <= c[1]
      <4> SUFFICES ASSUME NEW x \in Below(DOMAIN w, o) PROVE x <= c[1]
        OBVIOUS
      <4>1. PICK d \in Promise!Before(b) : d = <<x, w[x]>>
        BY <2>3
      <4> QED BY <2>7, <4>1
    <3> QED BY <2>1, <2>4, <2>5, <3>1
  <2> QED BY <2>6, <2>7
<1>10. LiveBlocks' = {<<place[b], b[2]>> : b \in LiveBlocks}
  <2>1. BlocksOf(v) \subseteq {<<place[b], b[2]>> : b \in BlocksOf(w)}
    <3> SUFFICES ASSUME NEW n \in DOMAIN v
                 PROVE  \E b \in BlocksOf(w) : <<n, v[n]>> = <<place[b], b[2]>>
      BY DEF BlocksOf
    <3>1. PICK o \in DOMAIN w : n = Packed(w, o) /\ v[n] = w[o]
      BY <1>3 DEF PackedTo
    <3>2. PICK b \in BlocksOf(w) : b = <<o, w[o]>>
      BY <1>7
    <3> QED BY <1>8, <3>1, <3>2
  <2>2. ASSUME NEW b \in BlocksOf(w) PROVE <<place[b], b[2]>> \in BlocksOf(v)
    <3>1. PICK o \in DOMAIN w : o = b[1] /\ b[2] = w[o] /\ place[b] = Packed(w, o)
      BY <1>6, <1>8
    <3>2. Packed(w, o) \in DOMAIN v /\ v[Packed(w, o)] = w[o]
      BY <1>3 DEF PackedTo
    <3> QED BY <3>1, <3>2 DEF BlocksOf
  <2> QED BY <1>4, <2>1, <2>2
<1> QED BY <1>4, <1>8, <1>9, <1>10 DEF Promise!Compact

(* The slots not on the stack are the slots that are taken.                *)
LEMMA SlabTaken ==
  ASSUME NEW a, Racked(a, Capacity)
  PROVE  TakenSlots(a) = Slots(a) \ Range(a.free_slots)
<1>1. PICK c \in Nat, n \in Nat, p \in Nat : /\ c = a.class_size /\ n = a.n_slots
                                           /\ p = n * c /\ p <= Capacity
  BY DEF Racked
<1>2. a.free_slots \in Seq(Nat)
  BY DEF Racked
<1>3. \A x : x \in Slots(a) <=> (x \in Cells /\ x < p /\ x % c = 0)
  BY <1>1, CapacityType DEF Slots, Cells
<1>4. \A x : Contains(a.free_slots, x) <=> x \in Range(a.free_slots)
  BY <1>2 DEF Contains, Range
<1>5. TakenSlots(a) = {x \in Cells : x < p /\ x % c = 0 /\ ~Contains(a.free_slots, x)}
  BY <1>1 DEF TakenSlots
<1> QED BY <1>3, <1>4, <1>5

(* A slab hands out a slot that was free, and takes back one that was not. *)
LEMMA SlabAllocates ==
  ASSUME SlabBooks, NEW size \in Sizes, NEW align \in Aligns, Allocate(size, align)
  PROVE  Promise!Allocate(alloc(allocator, Capacity, size, align).offset, size, 1)
<1>1. PICK r : /\ r = alloc(allocator, Capacity, size, align) /\ r = SlabAlloc(allocator, size)
               /\ r.offset # NoOffset /\ allocator' = r.state
  BY DEF Allocate, alloc, SlabBooks
<1>2. Racked(allocator, Capacity) /\ Capacity \in Nat /\ size \in Nat
  BY CapacityType, RequestsAssumption DEF SlabBooks
<1>3. /\ Racked(allocator', Capacity)
      /\ size = allocator.class_size /\ allocator.class_size # 0
      /\ allocator'.class_size = size /\ Slots(allocator') = Slots(allocator)
      /\ r.offset \in Range(allocator.free_slots)
      /\ Range(allocator'.free_slots) = Range(allocator.free_slots) \ {r.offset}
  BY <1>1, <1>2, SlabAllocRacked DEF Slots
<1>4. PICK o \in Slots(allocator) : o = r.offset /\ o + size <= Capacity /\ o \in Nat
  <2>1. r.offset \in Slots(allocator) /\ r.offset \in Nat
    BY <1>2, <1>3 DEF Racked, Slots
  <2> QED BY <1>2, <1>3, <2>1, SlotInside
<1> DEFINE taken == Slots(allocator) \ Range(allocator.free_slots)
<1>5. LiveBlocks = {<<x, size>> : x \in taken}
  BY <1>2, <1>3, SlabTaken DEF LiveBlocks, SlabBooks
<1>6. LiveBlocks' = {<<x, size>> : x \in taken \cup {o}}
  <2>1. TakenSlots(allocator)' = taken \cup {o}
    <3>1. TakenSlots(allocator') = Slots(allocator') \ Range(allocator'.free_slots)
      BY <1>3, SlabTaken
    <3>2. TakenSlots(allocator)' = TakenSlots(allocator')
      BY DEF TakenSlots, Cells
    <3> QED BY <1>3, <1>4, <3>1, <3>2
  <2>2. allocator'.kind = "Slab"
    BY <1>3 DEF Racked
  <2> QED BY <1>3, <2>1, <2>2 DEF LiveBlocks
<1>7. LiveBlocks' = LiveBlocks \cup {b \in {<<o, size>>} : size # 0}
  BY <1>3, <1>5, <1>6
<1>8. ASSUME NEW b \in LiveBlocks
      PROVE  (b[1]..(b[1] + b[2] - 1)) \cap (o..(o + size - 1)) = {}
  <2>1. PICK x \in taken : b = <<x, size>> /\ x \in Nat /\ x # o /\ x \in Slots(allocator)
    BY <1>3, <1>4, <1>5 DEF Slots
  <2>2. x < o => x + size <= o
    BY <1>2, <1>3, <1>4, <2>1, SlotsApart
  <2>3. o < x => o + size <= x
    BY <1>2, <1>3, <1>4, <2>1, SlotsApart
  <2> QED BY <1>2, <1>4, <2>1, <2>2, <2>3
<1>9. o % 1 = 0
  BY <1>4
<1> QED BY <1>1, <1>4, <1>7, <1>8, <1>9 DEF Promise!Allocate, Promise!Span

LEMMA SlabDeallocates ==
  ASSUME SlabBooks, TypeOK, NEW h \in held, Deallocate(h)
  PROVE  Promise!Deallocate(h.offset, Freed(h))
<1>1. PICK o \in Nat : o = h.offset /\ SlabCanFree(allocator, o) /\ allocator' = SlabDealloc(allocator, o)
  BY DEF SlabBooks, TypeOK, Handles, Deallocate, can_dealloc, dealloc
<1>2. Racked(allocator, Capacity) /\ Capacity \in Nat /\ Freed(h) = allocator.class_size
  BY CapacityType DEF SlabBooks, Freed
<1>3. /\ Racked(allocator', Capacity) /\ allocator'.class_size = allocator.class_size
      /\ Slots(allocator') = Slots(allocator)
      /\ Range(allocator'.free_slots) = Range(allocator.free_slots) \cup {o}
  BY <1>1, <1>2, SlabDeallocRacked DEF Slots
<1> DEFINE taken == Slots(allocator) \ Range(allocator.free_slots)
<1>4. o \in taken
  BY <1>1, <1>2, SlabFrees
<1>5. LiveBlocks = {<<x, allocator.class_size>> : x \in taken}
  BY <1>2, SlabTaken DEF LiveBlocks, SlabBooks
<1>6. LiveBlocks' = {<<x, allocator.class_size>> : x \in taken \ {o}}
  <2>1. TakenSlots(allocator)' = taken \ {o}
    <3>1. TakenSlots(allocator') = Slots(allocator') \ Range(allocator'.free_slots)
      BY <1>3, SlabTaken
    <3>2. TakenSlots(allocator)' = TakenSlots(allocator')
      BY DEF TakenSlots, Cells
    <3> QED BY <1>3, <3>1, <3>2
  <2>2. allocator'.kind = "Slab"
    BY <1>3 DEF Racked
  <2> QED BY <1>3, <2>1, <2>2 DEF LiveBlocks
<1>7. <<o, allocator.class_size>> \in LiveBlocks
  BY <1>4, <1>5
<1>8. LiveBlocks' = LiveBlocks \ {<<o, allocator.class_size>>}
  BY <1>5, <1>6
<1> QED BY <1>1, <1>2, <1>7, <1>8 DEF Promise!Deallocate

(* A bump allocator's blocks are its callers'.  A new one is above all.    *)
LEMMA BumpAllocates ==
  ASSUME BumpBooks, TypeOK, NEW size \in Sizes, NEW align \in Aligns, Allocate(size, align)
  PROVE  /\ Promise!Allocate(alloc(allocator, Capacity, size, align).offset, size, align)
<1>1. /\ allocator.used \in Nat /\ allocator.kind = "Bump" /\ Capacity \in Nat
      /\ size \in Nat /\ align \in Nat
  BY CapacityType, RequestsAssumption DEF BumpBooks
<1>2. PICK r : /\ r = alloc(allocator, Capacity, size, align)
               /\ r = BumpAlloc(allocator, Capacity, size, align)
               /\ r.offset # NoOffset /\ allocator' = r.state
               /\ held' = held \cup {Handle(r.offset, size)}
  BY <1>1 DEF Allocate, alloc, Handle
<1>3. PICK o : /\ o = align_up(allocator.used, align) /\ o # NoOffset /\ o + size <= Capacity
               /\ r = [offset |-> o, state |-> [allocator EXCEPT !.used = o + size]]
  BY <1>2 DEF BumpAlloc
<1>4. o \in Nat /\ o >= allocator.used /\ o % align = 0 /\ r.offset = o
  BY <1>1, <1>3, AlignUpLeast
<1>5. allocator'.kind = "Bump"
  BY <1>1, <1>2, <1>3 DEF BumpBooks
<1>6. /\ LiveBlocks = {<<h.offset, h.size>> : h \in {k \in held : k.size # 0}}
      /\ LiveBlocks' = {<<h.offset, h.size>> : h \in {k \in held' : k.size # 0}}
  BY <1>1, <1>5 DEF LiveBlocks
<1>7. Handle(o, size).offset = o /\ Handle(o, size).size = size
  BY DEF Handle
<1>8. LiveBlocks' = LiveBlocks \cup {b \in {<<o, size>>} : size # 0}
  BY <1>2, <1>4, <1>6, <1>7
<1>9. ASSUME NEW b \in LiveBlocks
      PROVE  (b[1]..(b[1] + b[2] - 1)) \cap (o..(o + size - 1)) = {}
  <2>1. PICK h \in held : b = <<h.offset, h.size>>
    BY <1>6
  <2>2. h.offset \in Nat /\ h.size \in Nat /\ h.offset + h.size <= allocator.used
    BY DEF BumpBooks, TypeOK, Handles
  <2> QED BY <1>1, <1>4, <2>1, <2>2
<1> QED BY <1>2, <1>3, <1>4, <1>8, <1>9 DEF Promise!Allocate, Promise!Span

(* No other handle has a block of the same offset and size.                *)
LEMMA BumpDeallocates ==
  ASSUME NEW at, Heap(at), BumpBooks, NEW h \in held, Deallocate(h)
  PROVE  Promise!Deallocate(h.offset, Freed(h))
<1>0. TypeOK /\ Traced(at) /\ Kept(at) /\ era = 0
  BY DEF Heap, BumpBooks
<1>1. allocator.kind = "Bump" /\ allocator' = allocator /\ held' = held \ {h} /\ Freed(h) = h.size
  BY DEF BumpBooks, Deallocate, dealloc, Freed
<1>2. /\ LiveBlocks = {<<k.offset, k.size>> : k \in {l \in held : l.size # 0}}
      /\ LiveBlocks' = {<<k.offset, k.size>> : k \in {l \in held' : l.size # 0}}
  BY <1>1 DEF LiveBlocks
<1>3. ASSUME NEW k \in held, k # h, k.size # 0, k.size = h.size PROVE k.offset # h.offset
  <2>1. /\ Pos(at, k) = k.offset /\ Pos(at, h) = h.offset
        /\ k.offset \in Nat /\ h.offset \in Nat /\ k.size \in Nat
    BY <1>0, CurrentPos DEF TypeOK, Handles
  <2>2. Pos(at, h) + h.size <= Pos(at, k) \/ Pos(at, k) + k.size <= Pos(at, h)
    BY <1>0, <1>3 DEF Kept
  <2> QED BY <1>3, <2>1, <2>2
<1>4. LiveBlocks' = LiveBlocks \ {<<h.offset, h.size>>}
  BY <1>1, <1>2, <1>3
<1>5. h.size # 0 => <<h.offset, h.size>> \in LiveBlocks
  BY <1>2
<1> QED BY <1>1, <1>4, <1>5 DEF Promise!Deallocate

(* Writing and migrating leave the blocks alone.                           *)
LEMMA OthersStay ==
  ASSUME Inv, Next, ~Calls
  PROVE  LiveBlocks' = LiveBlocks
<1>1. PICK h \in held : \/ \E v \in Values : Write(h, v)
                       \/ \E m \in remaps : migrate(h, m)
  BY DEF Next, Calls
<1>2. allocator' = allocator
  BY <1>1 DEF Write, migrate
<1>3. CASE allocator.kind # "Bump"
  BY <1>2, <1>3 DEF LiveBlocks, TakenSlots, Cells
<1>4. CASE allocator.kind = "Bump"
  <2>1. TypeOK /\ remaps = {}
    BY <1>4 DEF Inv, Adrift, Heap, Booked, FreelistBooks, SlabBooks, BumpBooks
  <2>2. PICK v \in Values : held' = (held \ {h}) \cup {[h EXCEPT !.value = v]}
    BY <1>1, <2>1 DEF Write
  <2>3. [h EXCEPT !.value = v].offset = h.offset /\ [h EXCEPT !.value = v].size = h.size
    BY <2>1 DEF TypeOK, Handles
  <2>4. /\ LiveBlocks = {<<k.offset, k.size>> : k \in {l \in held : l.size # 0}}
        /\ LiveBlocks' = {<<k.offset, k.size>> : k \in {l \in held' : l.size # 0}}
    BY <1>2, <1>4 DEF LiveBlocks
  <2>5. \A k \in held' : \E l \in held : k.offset = l.offset /\ k.size = l.size
    BY <2>2, <2>3
  <2>6. \A l \in held : \E k \in held' : k.offset = l.offset /\ k.size = l.size
    BY <2>2, <2>3
  <2> QED BY <2>4, <2>5, <2>6
<1> QED BY <1>3, <1>4

(* Which allocator a region has, and that only the freelist compacts.      *)
LEMMA Kinds3 ==
  ASSUME Inv
  PROVE  \/ allocator.kind = "Freelist"
         \/ /\ allocator.kind \in {"Slab", "Bump"}
            /\ \E at : Heap(at) /\ TypeOK /\ (SlabBooks \/ BumpBooks)
BY DEF Inv, Adrift, Heap, Booked, FreelistBooks, SlabBooks, BumpBooks

(* Every allocator keeps the promise of HeapSpec, call by call: what an    *)
(* allocation returns is a block for its own size and, but for the slab,   *)
(* its own alignment, apart from every live block; a free takes exactly    *)
(* its block off; a compaction packs them in order; nothing else touches   *)
(* them.                                                                   *)
THEOREM AllocatorsKeepPromise == Spec => ImplementsPromise
<1> DEFINE A ==
      /\ \A size \in Sizes, align \in Aligns : Allocate(size, align) =>
           Promise!Allocate(alloc(allocator, Capacity, size, align).offset, size, Honoured(align))
      /\ \A h \in held : Deallocate(h) => Promise!Deallocate(h.offset, Freed(h))
      /\ Compact => Promise!Compact
      /\ ~Calls => Promise!Stay
<1>1. Init => Promise!Init
  <2> SUFFICES ASSUME Init PROVE LiveBlocks = {}
    BY DEF Promise!Init
  <2>1. CASE allocator = FreelistNew(Capacity)
    <3>1. allocator.kind = "Freelist" /\ DOMAIN allocator.allocated = {}
      BY <2>1 DEF FreelistNew
    <3> QED BY <3>1 DEF LiveBlocks
  <2>2. CASE allocator = BumpNew
    <3>1. allocator.kind = "Bump" /\ held = {}
      BY <2>2 DEF BumpNew, Init
    <3> QED BY <3>1 DEF LiveBlocks
  <2>3. ASSUME NEW c0 \in 0..MaxU32, allocator = SlabNew(Capacity, c0) PROVE LiveBlocks = {}
    <3>1. PICK c \in Nat : c = c0 /\ Capacity \in Nat
      BY CapacityType
    <3>2. /\ Racked(allocator, Capacity) /\ allocator.class_size = c
          /\ c # 0 => Range(allocator.free_slots) = Slots(allocator)
      BY <2>3, <3>1, SlabNewRacked
    <3>3. c = 0 => Slots(allocator) = {}
      BY <3>2 DEF Slots, Racked
    <3>4. Slots(allocator) \ Range(allocator.free_slots) = {}
      BY <3>2, <3>3
    <3>5. allocator.kind = "Slab" /\ TakenSlots(allocator) = {}
      BY <3>2, <3>4, SlabTaken DEF Racked
    <3> QED BY <3>5 DEF LiveBlocks
  <2> QED BY <2>1, <2>2, <2>3, KindsAssumption DEF Init
<1>2. Inv /\ [Next]_vars => [A]_vars
  <2> SUFFICES ASSUME Inv, Next PROVE A
    OBVIOUS
  <2>1. ASSUME NEW size \in Sizes, NEW align \in Aligns, Allocate(size, align)
        PROVE  Promise!Allocate(alloc(allocator, Capacity, size, align).offset, size, Honoured(align))
    <3>1. CASE allocator.kind = "Freelist"
      BY <2>1, <3>1, FreelistAllocates DEF Honoured
    <3>2. CASE SlabBooks
      BY <2>1, <3>2, SlabAllocates DEF Honoured, SlabBooks
    <3>3. CASE BumpBooks /\ TypeOK
      <4>1. Honoured(align) = align
        BY <3>3 DEF Honoured, BumpBooks
      <4> QED BY <2>1, <3>3, <4>1, BumpAllocates
    <3> QED BY <3>1, <3>2, <3>3, Kinds3
  <2>2. ASSUME NEW h \in held, Deallocate(h) PROVE Promise!Deallocate(h.offset, Freed(h))
    BY <2>2, Kinds3, FreelistDeallocates, SlabDeallocates, BumpDeallocates
  <2>3. Compact => Promise!Compact
    BY FreelistCompacts
  <2>4. ~Calls => Promise!Stay
    BY OthersStay DEF Promise!Stay
  <2> QED BY <2>1, <2>2, <2>3, <2>4
<1> QED BY <1>1, <1>2, HeapFollowed, PTL DEF Spec, ImplementsPromise
=============================================================================
