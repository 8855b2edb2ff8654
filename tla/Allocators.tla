----------------------------- MODULE Allocators -----------------------------
(***************************************************************************)
(* The allocators a region can own (crates/tvm-core/src/allocator.rs), as  *)
(* operators on their state.  An allocation yields the new state and the   *)
(* offset, or NoOffset when it fails; a failed operation changes nothing.  *)
(***************************************************************************)
EXTENDS Integers, Sequences, SequencesExt

CONSTANT MaxU32     \* the largest u32: 2^32 - 1 in the code

ASSUME MaxU32Assumption == MaxU32 \in Nat \ {0}

NoOffset == -1

IsPowerOfTwo(n) == \E k \in 0..(n - 1) : 2^k = n

AlignTruncates(value, align) ==                  \* mutant: rounds down
  IF IsPowerOfTwo(align) THEN (value \div align) * align ELSE NoOffset
align_up(value, align) ==
  IF IsPowerOfTwo(align) /\ value + (align - 1) <= MaxU32
  THEN ((value + (align - 1)) \div align) * align
  ELSE NoOffset

-----------------------------------------------------------------------------
(* Bump: one watermark, dealloc is a no-op. *)

BumpNew == [kind |-> "Bump", used |-> 0]

BumpAlloc(a, capacity, size, align) ==
  LET aligned == align_up(a.used, align)
  IN IF aligned # NoOffset /\ aligned + size <= MaxU32 /\ aligned + size <= capacity
     THEN [offset |-> aligned, state |-> [a EXCEPT !.used = aligned + size]]
     ELSE [offset |-> NoOffset, state |-> a]

-----------------------------------------------------------------------------
(* Freelist: free blocks <<offset, size>> sorted by offset, and the live   *)
(* allocations as a function from offset to size.                          *)

FreelistNew(capacity) ==
  [kind |-> "Freelist", free |-> << <<0, capacity>> >>, allocated |-> << >>, used |-> 0]

Padding(block, align) == align_up(block[1], align) - block[1]
Overflows(block, size, align) ==
  \/ align_up(block[1], align) = NoOffset
  \/ Padding(block, align) + size > MaxU32
Fits(block, size, align) == Padding(block, align) + size <= block[2]

NonEmpty(block) == IF block[2] = 0 THEN << >> ELSE <<block>>

(* First fit.  An overflow ends the search, even if a later block fits.    *)
FreelistAlloc(a, size, align) ==
  LET i == SelectInSeq(a.free, LAMBDA b : Overflows(b, size, align) \/ Fits(b, size, align))
  IN IF size = 0 \/ i = 0 THEN [offset |-> NoOffset, state |-> a]
     ELSE IF Overflows(a.free[i], size, align) THEN [offset |-> NoOffset, state |-> a]
     ELSE LET block == a.free[i]
              pad == Padding(block, align)
              aligned == block[1] + pad
              before == <<block[1], pad>>
              after == <<aligned + size, block[2] - pad - size>>
          IN [offset |-> aligned,
              state |-> [a EXCEPT
                !.free = SubSeq(@, 1, i - 1) \o NonEmpty(before) \o NonEmpty(after)
                           \o SubSeq(@, i + 1, Len(@)),
                !.allocated = [o \in DOMAIN @ \cup {aligned} |->
                                 IF o = aligned THEN size ELSE @[o]],
                !.used = @ + size]]

(* Blocks i and i + 1 become one if they touch.                            *)
MergeAt(free, i) ==
  IF i > 0 /\ i < Len(free) /\ free[i][1] + free[i][2] = free[i + 1][1]
  THEN SubSeq(free, 1, i - 1) \o << <<free[i][1], free[i][2] + free[i + 1][2]>> >>
         \o SubSeq(free, i + 2, Len(free))
  ELSE free

CoalesceRightOnly(free, i) == MergeAt(free, i)     \* mutant: left neighbour forgotten
coalesce(free, i) == MergeAt(MergeAt(free, i), i - 1)

FreelistDealloc(a, offset) ==
  LET size == a.allocated[offset]
      behind == SelectInSeq(a.free, LAMBDA b : ~(b[1] < offset))
      pos == IF behind = 0 THEN Len(a.free) + 1 ELSE behind      \* partition_point
  IN [a EXCEPT !.free = coalesce(InsertAt(@, pos, <<offset, size>>), pos),
               !.allocated = [o \in DOMAIN @ \ {offset} |-> @[o]],
               !.used = @ - size]

(* The packed offset of each live block: the sizes of the blocks before it.*)
PackedOffset(a, offset) ==
  MapThenSumSet(LAMBDA o : a.allocated[o], {o \in DOMAIN a.allocated : o < offset})

RebuildKeepsFree(a, capacity) ==                \* mutant: stale free list
  [a EXCEPT !.allocated = [n \in {PackedOffset(a, o) : o \in DOMAIN @} |->
              @[CHOOSE o \in DOMAIN @ : PackedOffset(a, o) = n]]]
FreelistRebuild(a, capacity) ==
  LET total == MapThenSumSet(LAMBDA o : a.allocated[o], DOMAIN a.allocated)
      packed == {PackedOffset(a, o) : o \in DOMAIN a.allocated}
      Old(n) == CHOOSE o \in DOMAIN a.allocated : PackedOffset(a, o) = n
  IN [a EXCEPT !.free = NonEmpty(<<total, capacity - total>>),
               !.allocated = [n \in packed |-> a.allocated[Old(n)]],
               !.used = total]

-----------------------------------------------------------------------------
(* Slab: equal slots; the stack of free ones hands out offset 0 first. *)

SlabNew(capacity, class_size) ==
  LET n_slots == IF class_size = 0 THEN 0 ELSE capacity \div class_size
  IN [kind |-> "Slab", class_size |-> class_size, n_slots |-> n_slots, used |-> 0,
      free_slots |-> [i \in 1..n_slots |-> (n_slots - i) * class_size]]

SlabAlloc(a, size) ==
  IF a.class_size = 0 \/ size # a.class_size \/ a.free_slots = << >>
  THEN [offset |-> NoOffset, state |-> a]
  ELSE [offset |-> Last(a.free_slots),
        state |-> [a EXCEPT !.free_slots = Front(@), !.used = @ + a.class_size]]

SlabDoubleFree(a, offset) ==                     \* mutant: slot may be free already
  a.class_size # 0 /\ offset < a.n_slots * a.class_size /\ offset % a.class_size = 0
SlabCanFree(a, offset) ==
  /\ a.class_size # 0
  /\ offset < a.n_slots * a.class_size
  /\ offset % a.class_size = 0
  /\ ~Contains(a.free_slots, offset)

SlabDealloc(a, offset) ==
  [a EXCEPT !.free_slots = Append(@, offset), !.used = @ - a.class_size]

-----------------------------------------------------------------------------
(* RegionAllocator: the enum over the three. *)

alloc(a, capacity, size, align) ==
  CASE a.kind = "Bump"     -> BumpAlloc(a, capacity, size, align)
    [] a.kind = "Freelist" -> FreelistAlloc(a, size, align)
    [] a.kind = "Slab"     -> SlabAlloc(a, size)

can_dealloc(a, offset) ==
  CASE a.kind = "Bump"     -> TRUE
    [] a.kind = "Freelist" -> offset \in DOMAIN a.allocated
    [] a.kind = "Slab"     -> SlabCanFree(a, offset)

dealloc(a, offset) ==
  CASE a.kind = "Bump"     -> a
    [] a.kind = "Freelist" -> FreelistDealloc(a, offset)
    [] a.kind = "Slab"     -> SlabDealloc(a, offset)
=============================================================================
