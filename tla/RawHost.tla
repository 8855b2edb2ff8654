------------------------------- MODULE RawHost -------------------------------
(***************************************************************************)
(* What the raw imports ask of a TvmHost: the checked slices of the        *)
(* directory (crates/tvm-core/src/directory_slices.rs, directory.rs) and   *)
(* the closed set of reducers over them (crates/tvm-wasmtime/src/host.rs). *)
(*                                                                         *)
(* A method is an operator on the table of regions.  It yields Ok(v), or   *)
(* Err(e) with the TvmError; a method that writes yields the new table.    *)
(* A byte is a digit below Base and a u32 lane is LaneBytes of them.       *)
(***************************************************************************)
EXTENDS Allocators, Bitwise, FiniteSetsExt

CONSTANTS
  Base,        \* values of a byte: 256 in the code
  LaneBytes,   \* bytes of a u32: 4 in the code
  MaxU16,      \* the largest u16: 2^16 - 1 in the code
  Capacity     \* capacity of every region

Byte == 0..(Base - 1)

Ok(v) == [ok |-> TRUE, val |-> v]
Err(e) == [ok |-> FALSE, val |-> e]
Then(res, F(_)) == IF res.ok THEN Ok(F(res.val)) ELSE res

(* A region: its generation, whether its memory is there, the bytes and    *)
(* the allocator's state.                                                  *)
NewRegion(bytes) ==
  [generation |-> 1, resident |-> TRUE, bytes |-> bytes, allocator |-> FreelistNew(Capacity)]

-----------------------------------------------------------------------------
(* Handle: (region_id, generation, offset) in one u64 *)

pack(h) == ((h.region * (MaxU16 + 1)) + h.generation) * (MaxU32 + 1) + h.offset
unpack(p) ==
  [region     |-> p \div ((MaxU16 + 1) * (MaxU32 + 1)),
   generation |-> (p \div (MaxU32 + 1)) % (MaxU16 + 1),
   offset     |-> p % (MaxU32 + 1)]

-----------------------------------------------------------------------------
(* The directory *)

validate(rs, h) ==
  IF h.region \notin DOMAIN rs THEN Err("RegionNotFound")
  ELSE IF rs[h.region].generation # h.generation THEN Err("StaleHandle")
  ELSE Ok(h)

Within(rs, r, offset, len) ==
  IF offset + len > Capacity THEN Err("OutOfBounds")
  ELSE Ok(SubSeq(rs[r].bytes, offset + 1, offset + len))

Splice(bytes, at, data) ==
  [i \in 1..Len(bytes) |-> IF i \in (at + 1)..(at + Len(data)) THEN data[i - at] ELSE bytes[i]]

region_slice_at(rs, h, len) ==
  IF ~validate(rs, h).ok THEN validate(rs, h)
  ELSE IF ~rs[h.region].resident THEN Err("NotResident")
  ELSE Within(rs, h.region, h.offset, len)

(* The mutable slice checks the bounds before the memory.                  *)
region_slice_mut_at(rs, h, len) ==
  IF ~validate(rs, h).ok THEN validate(rs, h)
  ELSE IF ~Within(rs, h.region, h.offset, len).ok THEN Err("OutOfBounds")
  ELSE IF ~rs[h.region].resident THEN Err("NotResident")
  ELSE Within(rs, h.region, h.offset, len)

read(rs, h, len) == region_slice_at(rs, h, len)

write(rs, h, data) ==
  Then(region_slice_at(rs, h, Len(data)),
       LAMBDA old : [rs EXCEPT ![h.region].bytes = Splice(@, h.offset, data)])

(* fast_read and fast_write refresh the cache first, which needs the       *)
(* region's memory; a slot already there says what the directory would     *)
(* (FastPathSound of TvmHost).                                             *)
fast_slice(rs, h, len) ==
  IF h.region \notin DOMAIN rs THEN Err("RegionNotFound")
  ELSE IF ~rs[h.region].resident THEN Err("NotResident")
  ELSE IF rs[h.region].generation # h.generation THEN Err("StaleHandle")
  ELSE Within(rs, h.region, h.offset, len)

cross_region_copy(rs, src, src_offset, dst, dst_offset, len) ==
  LET Side(r, offset) == IF r \notin DOMAIN rs THEN Err("RegionNotFound")
                         ELSE IF ~rs[r].resident THEN Err("NotResident")
                         ELSE Within(rs, r, offset, len)
      from == Side(src, src_offset)
      to == Side(dst, dst_offset)
  IN IF ~from.ok THEN from
     ELSE IF ~to.ok THEN to
     ELSE Ok([rs EXCEPT ![dst].bytes = Splice(@, dst_offset, from.val)])

directory_alloc(rs, r, size) ==
  IF r \notin DOMAIN rs THEN Err("RegionNotFound")
  ELSE LET a == alloc(rs[r].allocator, Capacity, size, 1)
       IN IF a.offset = NoOffset THEN Err("AllocationFailed")
          ELSE Ok([regions |-> [rs EXCEPT ![r].allocator = a.state],
                   handle |-> [region |-> r, generation |-> rs[r].generation,
                               offset |-> a.offset]])

directory_dealloc(rs, h) ==
  IF ~validate(rs, h).ok THEN validate(rs, h)
  ELSE IF ~can_dealloc(rs[h.region].allocator, h.offset) THEN Err("OutOfBounds")
  ELSE Ok([rs EXCEPT ![h.region].allocator = dealloc(@, h.offset)])

-----------------------------------------------------------------------------
(* Reducers *)

SumOf(s) == FoldSeq(+, 0, s)
u32_from_le(b) == SumOf([i \in 1..LaneBytes |-> b[i] * Base^(i - 1)])
Lanes(bytes) ==
  [k \in 1..(Len(bytes) \div LaneBytes) |->
     u32_from_le(SubSeq(bytes, (k - 1) * LaneBytes + 1, k * LaneBytes))]
to_le_bytes(n) == [i \in 1..LaneBytes |-> (n \div Base^(i - 1)) % Base]

(* Option<u32>: the empty sequence is None.                                *)
Position(s, P(_)) == LET i == SelectInSeq(s, P) IN IF i = 0 THEN << >> ELSE <<i - 1>>

region_sum_u8(rs, h, len) == Then(region_slice_at(rs, h, len), SumOf)

region_find_byte(rs, h, len, byte) ==
  Then(region_slice_at(rs, h, len), LAMBDA b : Position(b, LAMBDA x : x = byte))

(* FNV-1a with the code's basis, prime and width scaled down.              *)
region_hash_fnv1a(rs, h, len) ==
  Then(region_slice_at(rs, h, len),
       LAMBDA b : FoldLeft(LAMBDA acc, x : ((acc ^^ x) * 3) % Base^LaneBytes, 5, b))

region_count_byte(rs, h, len, byte) ==
  Then(region_slice_at(rs, h, len), LAMBDA b : Len(SelectSeq(b, LAMBDA x : x = byte)))

region_eq(rs, ha, hb, len) ==
  LET a == region_slice_at(rs, ha, len)
  IN IF ~a.ok THEN a ELSE Then(region_slice_at(rs, hb, len), LAMBDA b : a.val = b)

(* An empty range has minimum 255 and maximum 0.                           *)
region_min_max_u8(rs, h, len) ==
  Then(region_slice_at(rs, h, len),
       LAMBDA b : <<FoldLeft(LAMBDA acc, x : IF x < acc THEN x ELSE acc, Base - 1, b),
                    FoldLeft(LAMBDA acc, x : IF x > acc THEN x ELSE acc, 0, b)>>)

region_xor_into_region(rs, src, dst, len) ==
  IF src.region = dst.region THEN Err("PolicyViolation")
  ELSE LET s == region_slice_at(rs, src, len)
       IN IF ~s.ok THEN s
          ELSE Then(region_slice_mut_at(rs, dst, len),
                    LAMBDA d : [rs EXCEPT ![dst.region].bytes =
                      Splice(@, dst.offset, [i \in 1..len |-> d[i] ^^ s.val[i]])])

region_byte_histogram(rs, h, len) ==
  Then(region_slice_at(rs, h, len),
       LAMBDA b : FlattenSeq([v \in 1..Base |->
                    to_le_bytes(Len(SelectSeq(b, LAMBDA x : x = v - 1)))]))

region_sum_u32_le(rs, h, len) ==
  IF len % LaneBytes # 0 THEN Err("OutOfBounds")
  ELSE Then(region_slice_at(rs, h, len), LAMBDA b : SumOf(Lanes(b)))

region_max_u32_le(rs, h, len) ==
  IF len % LaneBytes # 0 THEN Err("OutOfBounds")
  ELSE Then(region_slice_at(rs, h, len),
            LAMBDA b : IF b = << >> THEN << >> ELSE <<Max(ToSet(Lanes(b)))>>)

Ones(b) == Cardinality({k \in 0..7 : (b \div 2^k) % 2 = 1})
region_popcount(rs, h, len) ==
  Then(region_slice_at(rs, h, len), LAMBDA b : SumOf([i \in 1..Len(b) |-> Ones(b[i])]))

region_fill(rs, h, len, value) ==
  Then(region_slice_mut_at(rs, h, len),
       LAMBDA b : [rs EXCEPT ![h.region].bytes = Splice(@, h.offset, [i \in 1..len |-> value])])

region_xor_with_byte(rs, h, len, value) ==
  Then(region_slice_mut_at(rs, h, len),
       LAMBDA b : [rs EXCEPT ![h.region].bytes =
                     Splice(@, h.offset, [i \in 1..len |-> b[i] ^^ value])])

region_and_fold_u8(rs, h, len) ==
  Then(region_slice_at(rs, h, len), LAMBDA b : FoldLeft(LAMBDA x, y : x & y, Base - 1, b))
region_or_fold_u8(rs, h, len) ==
  Then(region_slice_at(rs, h, len), LAMBDA b : FoldLeft(LAMBDA x, y : x | y, 0, b))
region_xor_fold_u8(rs, h, len) ==
  Then(region_slice_at(rs, h, len), LAMBDA b : FoldLeft(LAMBDA x, y : x ^^ y, 0, b))

region_count_in_range(rs, h, len, lo, hi) ==
  Then(region_slice_at(rs, h, len),
       LAMBDA b : Len(SelectSeq(b, LAMBDA x : x >= lo /\ x <= hi)))

(* The order is decided where the slices first differ.                     *)
Compare(a, b) ==
  LET i == SelectInSeq([k \in 1..Len(a) |-> a[k] # b[k]], LAMBDA differ : differ)
  IN IF i = 0 THEN 0 ELSE IF a[i] < b[i] THEN -1 ELSE 1

region_lex_cmp(rs, ha, hb, len) ==
  LET a == region_slice_at(rs, ha, len)
  IN IF ~a.ok THEN a ELSE Then(region_slice_at(rs, hb, len), LAMBDA b : Compare(a.val, b))

WindowsShort(bytes, n) ==                \* mutant: the last window is not looked at
  [i \in 1..(Len(bytes) - n) |-> SubSeq(bytes, i, i + n - 1)]
Windows(bytes, n) == [i \in 1..(Len(bytes) - n + 1) |-> SubSeq(bytes, i, i + n - 1)]

region_index_of(rs, h, len, needle) ==
  Then(region_slice_at(rs, h, len),
       LAMBDA b : IF needle = << >> THEN <<0>>
                  ELSE Position(Windows(b, Len(needle)), LAMBDA w : w = needle))
=============================================================================
