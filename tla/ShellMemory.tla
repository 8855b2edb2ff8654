----------------------------- MODULE ShellMemory -----------------------------
(***************************************************************************)
(* What the generated helpers do to the pools when they run: the memory    *)
(* accesses, the copies between a pool and the default memory (pool 0),    *)
(* growing a pool on demand, and the SIMD reducers, which take Lanes bytes *)
(* a step and finish the rest one byte at a time.                          *)
(*                                                                         *)
(* Addresses wrap at AddrSpace (2^32 in wasm), a page is PageSize bytes    *)
(* (2^16), a vector has Lanes bytes (16) and a byte ByteMod values (256).  *)
(***************************************************************************)
EXTENDS GuestShell, Bitwise

CONSTANTS
    PoolCounts,     \* ModuleParams::n_pools, each value tried
    InitialPages,
    PageLimits,     \* ModuleParams::max_pages, each value tried
    PageSize, AddrSpace,
    Widths,         \* bytes of a u8, u32 and i64 access
    Lanes, ByteMod,
    StoreBytes,     \* first byte of the values stored
    MaxCalls        \* bound on the calls of a behaviour

ASSUME ShellAssumption ==
    /\ 0 \notin PoolCounts
    /\ \A limit \in PageLimits : InitialPages <= limit /\ limit * PageSize <= AddrSpace
    /\ AddrSpace % PageSize = 0

VARIABLES
    n,          \* the pools of this module
    max_pages,  \* and the most pages each may have
    code,       \* what its exports run
    mem,        \* their bytes
    calls       \* calls made so far

vars == <<n, max_pages, code, mem, calls>>

\* the code each export of a module runs for each pool operand, one past the
\* last included
CodeOf(k, limit) ==
    LET shell == ParseModule(ModuleTemplate(k, InitialPages, limit))
    IN  [c \in {f.name : f \in ToSet(ShellFunctions(k))} \X (0 .. k) |-> RunsFor(shell, c[1], c[2])]

Init ==
    /\ n \in PoolCounts
    /\ max_pages \in PageLimits
    /\ code = CodeOf(n, max_pages)
    /\ mem = [k \in 0 .. n - 1 |-> [i \in 1 .. InitialPages * PageSize |-> 0]]
    /\ calls = 0

-----------------------------------------------------------------------------
(* One instruction.  A call's operands are the record a; st is the memory, *)
(* whether the call has trapped and the value left on the stack.           *)

Bytes(m, k, off, len) == SubSeq(m[k], off + 1, off + len)
InBounds(m, k, off, len) == off + len <= Len(m[k])

Patched(m, k, off, bytes) ==
    [m EXCEPT ![k] = [i \in DOMAIN @ |->
       IF i > off /\ i <= off + Len(bytes) THEN bytes[i - off] ELSE @[i]]]

WidthOf(op) == CASE op \in {"load_u8", "store_u8"}   -> Widths.u8
                 [] op \in {"load_u32", "store_u32"} -> Widths.u32
                 [] op \in {"load_i64", "store_i64"} -> Widths.i64

PagesRoundedDown(end) == end \div PageSize       \* mutant: the last partial page forgotten

\* (end + 65535) >> 16, in 32 bits: no page at all for an end in the last one
PagesFor(end) == ((end + PageSize - 1) % AddrSpace) \div PageSize

\* a grow beyond the maximum fails, and the result is dropped
GrowTo(m, k, pages) ==
    IF pages > Len(m[k]) \div PageSize /\ pages <= max_pages
    THEN [m EXCEPT ![k] = [i \in 1 .. pages * PageSize |-> IF i <= Len(@) THEN @[i] ELSE 0]]
    ELSE m

-----------------------------------------------------------------------------
(* The SIMD reducers over the bytes s: lane l of the accumulator folds     *)
(* every Lanes-th byte, the lanes are folded together, then the tail.      *)

VecLen(s) == Len(s) - (Len(s) % Lanes)
Lane(s, l) == [i \in 1 .. VecLen(s) \div Lanes |-> s[((i - 1) * Lanes) + l]]
NoTail(s) == <<>>                                \* mutant: the rest is skipped
TailOf(s) == SubSeq(s, VecLen(s) + 1, Len(s))

VecAcc(Op(_, _), id, s) == [l \in 1 .. Lanes |-> FoldLeft(Op, id, Lane(s, l))]

Ones == ByteMod - 1
BitXor(a, b) == a ^^ b
Conj(a, b) == a & b
Disj(a, b) == a | b
Plus(a, b) == a + b
Lower(a, b)  == IF b < a THEN b ELSE a
Higher(a, b) == IF b > a THEN b ELSE a

BitSet(b, i) == (b \div 2 ^ i) % 2 = 1
BitNumbers == {i \in 0 .. ByteMod : 2 ^ i < ByteMod}
PopCnt(b) == Cardinality({i \in BitNumbers : BitSet(b, i)})

SimdSum(s) == FoldLeft(Plus, FoldLeft(Plus, 0, VecAcc(Plus, 0, s)), TailOf(s))

SimdXorFold(s) == FoldLeft(BitXor, FoldLeft(BitXor, 0, VecAcc(BitXor, 0, s)), TailOf(s))

\* the lanes only count when the vector loop ran
SimdAndFold(s) ==
    LET byte == IF VecLen(s) # 0 THEN FoldLeft(Conj, Ones, VecAcc(Conj, Ones, s)) ELSE Ones
    IN  FoldLeft(Conj, byte, TailOf(s))

SimdOrFold(s) == FoldLeft(Disj, FoldLeft(Disj, 0, VecAcc(Disj, 0, s)), TailOf(s))

\* a vector step adds the number of lanes equal to the broadcast byte
SimdCountByte(s, b) ==
    LET Mask(i) == {l \in 1 .. Lanes : s[((i - 1) * Lanes) + l] = b % ByteMod}
        vec == FoldLeft(Plus, 0, [i \in 1 .. VecLen(s) \div Lanes |-> Cardinality(Mask(i))])
    IN  FoldLeft(LAMBDA acc, x : IF x = b THEN acc + 1 ELSE acc, vec, TailOf(s))

SimdPopcount(s) ==
    LET Add(acc, x) == acc + PopCnt(x)
    IN  FoldLeft(Add, FoldLeft(Plus, 0, VecAcc(Add, 0, s)), TailOf(s))

\* the first vector with a match answers its lowest set mask bit
SimdFindByte(s, b) ==
    LET Mask(i) == {l \in 1 .. Lanes : s[((i - 1) * Lanes) + l] = b % ByteMod}
        hits == {i \in 1 .. VecLen(s) \div Lanes : Mask(i) # {}}
        tail == {j \in VecLen(s) + 1 .. Len(s) : s[j] = b}
        Least(S) == CHOOSE x \in S : \A y \in S : x <= y
    IN  CASE hits # {} -> (((Least(hits) - 1) * Lanes) + Least(Mask(Least(hits)))) - 1
          [] hits = {} /\ tail # {} -> Least(tail) - 1
          [] OTHER -> -1

\* (lo << 8) | hi
SimdMinMax(s) ==
    LET any == VecLen(s) # 0
        lo  == IF any THEN FoldLeft(Lower, Ones, VecAcc(Lower, Ones, s)) ELSE Ones
        hi  == IF any THEN FoldLeft(Higher, 0, VecAcc(Higher, 0, s)) ELSE 0
    IN  FoldLeft(Lower, lo, TailOf(s)) * ByteMod + FoldLeft(Higher, hi, TailOf(s))

Simd(op, s, b) ==
    CASE op = "simd_sum"        -> SimdSum(s)
      [] op = "simd_xor_fold"   -> SimdXorFold(s)
      [] op = "simd_and_fold"   -> SimdAndFold(s)
      [] op = "simd_or_fold"    -> SimdOrFold(s)
      [] op = "simd_count_byte" -> SimdCountByte(s, b)
      [] op = "simd_popcount"   -> SimdPopcount(s)
      [] op = "simd_find_byte"  -> SimdFindByte(s, b)
      [] op = "simd_min_max"    -> SimdMinMax(s)

-----------------------------------------------------------------------------
(* A call of an exported helper.  The reducers are called on ranges inside *)
(* the pool; beyond it find_byte may answer before it would trap.          *)

Trap(st) == [st EXCEPT !.trap = TRUE]

Step(a, st, ins) ==
    LET k == ins.ix[1][2]
        w == WidthOf(ins.op)
        end == (a.dst + a.len) % AddrSpace
    IN  CASE st.trap -> st
          [] ~st.trap /\ ins.op \in {"load_u8", "load_u32", "load_i64"} ->
               IF InBounds(st.mem, k, a.off, w)
               THEN [st EXCEPT !.val = Bytes(st.mem, k, a.off, w)] ELSE Trap(st)
          [] ~st.trap /\ ins.op \in {"store_u8", "store_u32", "store_i64"} ->
               IF InBounds(st.mem, k, a.off, w)
               THEN [st EXCEPT !.mem = Patched(@, k, a.off,
                                               [i \in 1 .. w |-> (a.val + i - 1) % ByteMod])]
               ELSE Trap(st)
          [] ~st.trap /\ ins.op = "check_end" -> IF end < a.dst THEN Trap(st) ELSE st
          [] ~st.trap /\ ins.op = "grow" -> [st EXCEPT !.mem = GrowTo(@, k, PagesFor(end))]
          [] ~st.trap /\ ins.op = "copy" ->
               LET from == ins.ix[2][2]
               IN  IF InBounds(st.mem, k, a.dst, a.len) /\ InBounds(st.mem, from, a.src, a.len)
                   THEN [st EXCEPT !.mem = Patched(@, k, a.dst, Bytes(st.mem, from, a.src, a.len))]
                   ELSE Trap(st)
          [] OTHER ->
               IF InBounds(st.mem, k, a.off, a.len)
               THEN [st EXCEPT !.val = Simd(ins.op, Bytes(st.mem, k, a.off, a.len), a.val)]
               ELSE Trap(st)

\* the empty code of RunsFor is a trap
Call(name, pool, a) ==
    LET ops   == code[<<name, pool>>]
        start == [mem |-> mem, trap |-> ops = <<>>, val |-> <<>>]
    IN  FoldLeft(LAMBDA st, ins : Step(a, st, ins), start, ops)

Access(off, val) == [off |-> off, val |-> val, dst |-> 0, src |-> 0, len |-> 0]
Transfer(dst, src, len) == [off |-> 0, val |-> 0, dst |-> dst, src |-> src, len |-> len]
Range32(off, len, b) == [off |-> off, val |-> b, dst |-> 0, src |-> 0, len |-> len]

Offsets == 0 .. AddrSpace - 1       \* the operands are i32
Pools == 0 .. n - 1
AnyPool == 0 .. n           \* one past the last included

\* the memory stays as a trap left it
Perform(result) ==
    /\ calls < MaxCalls
    /\ calls' = calls + 1
    /\ mem' = result.mem
    /\ UNCHANGED <<n, max_pages, code>>

tvm_store == \E ty \in ToSet(LoadTypes), p \in AnyPool, off \in Offsets, v \in StoreBytes :
    Perform(Call(<<"tvm_store", ty>>, p, Access(off, v)))

tvm_store_p == \E ty \in ToSet(LoadTypes), p \in Pools, off \in Offsets, v \in StoreBytes :
    Perform(Call(<<"tvm_store_p", ty, p>>, p, Access(off, v)))

tvm_copy_to_default == \E p \in AnyPool, dst, src, len \in Offsets :
    Perform(Call(<<"tvm_copy_to_default">>, p, Transfer(dst, src, len)))

tvm_copy_to_default_p == \E p \in Pools, dst, src, len \in Offsets :
    Perform(Call(<<"tvm_copy_to_default_p", p>>, p, Transfer(dst, src, len)))

tvm_copy_from_default == \E p \in AnyPool, dst, src, len \in Offsets :
    Perform(Call(<<"tvm_copy_from_default">>, p, Transfer(dst, src, len)))

tvm_copy_from_default_p == \E p \in Pools, dst, src, len \in Offsets :
    Perform(Call(<<"tvm_copy_from_default_p", p>>, p, Transfer(dst, src, len)))

tvm_intra_pool_copy_p == \E p \in Pools, dst, src, len \in Offsets :
    Perform(Call(<<"tvm_intra_pool_copy_p", p>>, p, Transfer(dst, src, len)))

\* pool 0 is the user's own memory, and the user's module grows it itself
memory_grow == \E pages \in 1 .. max_pages :
    Perform([mem |-> GrowTo(mem, 0, pages)])

Next ==
    \/ memory_grow
    \/ tvm_store \/ tvm_store_p
    \/ tvm_copy_to_default \/ tvm_copy_to_default_p
    \/ tvm_copy_from_default \/ tvm_copy_from_default_p
    \/ tvm_intra_pool_copy_p

Spec == Init /\ [][Next]_vars

-----------------------------------------------------------------------------
(* Properties.  They ask what every call would do in every state.          *)

(* A typed access through the binary search, through the function table or *)
(* through the pool's own helper reads and writes the bytes of the pool    *)
(* asked for and no others, and traps for a pool that does not exist.      *)
RoutesAgree ==
    \A ty \in ToSet(LoadTypes), off \in Offsets :
      LET w == Widths[ty]
          Load(name, p) == Call(name, p, Access(off, 0))
          Store(name, p, v) == Call(name, p, Access(off, v))
      IN  /\ \A p \in Pools :
               LET fits == InBounds(mem, p, off, w)
                   Reads(r) == r.trap = ~fits /\ r.mem = mem
                               /\ (fits => r.val = Bytes(mem, p, off, w))
                   Writes(r, v) ==
                     /\ r.trap = ~fits
                     /\ r.mem = IF fits
                                THEN Patched(mem, p, off, [i \in 1 .. w |-> (v + i - 1) % ByteMod])
                                ELSE mem
               IN  /\ Reads(Load(<<"tvm_load", ty>>, p))
                   /\ Reads(Load(<<"tvm_load_indirect", ty>>, p))
                   /\ Reads(Load(<<"tvm_load_p", ty, p>>, p))
                   /\ \A v \in StoreBytes : Writes(Store(<<"tvm_store", ty>>, p, v), v)
                                            /\ Writes(Store(<<"tvm_store_p", ty, p>>, p, v), v)
          /\ Load(<<"tvm_load", ty>>, n).trap
          /\ Load(<<"tvm_load_indirect", ty>>, n).trap
          /\ Store(<<"tvm_store", ty>>, n, 0).trap

(* Each reducer answers what its name says of the bytes in range, whatever *)
(* part of them the vector loop took.                                      *)
ReducersExact ==
    \A p \in Pools, off \in Offsets, len \in Offsets :
      InBounds(mem, p, off, len) =>
        LET s == Bytes(mem, p, off, len)
            Answer(op, b) == Call(<<"tvm_simd_p", op, p>>, p, Range32(off, len, b)).val
            Weight(P(_)) == FoldLeft(LAMBDA acc, i : acc + IF P(i) THEN 2 ^ i ELSE 0, 0,
                                     SetToSortSeq(BitNumbers, <))
            Having(i) == {j \in DOMAIN s : BitSet(s[j], i)}
            Lo(S) == CHOOSE x \in S : \A y \in S : x <= y
            Hi(S) == CHOOSE x \in S : \A y \in S : x >= y
            values == ToSet(s)
        IN  /\ Answer("simd_sum", 0) = FoldLeft(Plus, 0, s)
            /\ Answer("simd_xor_fold", 0) = Weight(LAMBDA i : Cardinality(Having(i)) % 2 = 1)
            /\ Answer("simd_and_fold", 0) = Weight(LAMBDA i : Having(i) = DOMAIN s)
            /\ Answer("simd_or_fold", 0) = Weight(LAMBDA i : Having(i) # {})
            /\ Answer("simd_popcount", 0)
                 = Cardinality({<<i, j>> \in BitNumbers \X DOMAIN s : BitSet(s[j], i)})
            /\ Answer("simd_min_max", 0)
                 = IF values = {} THEN Ones * ByteMod ELSE Lo(values) * ByteMod + Hi(values)
            /\ \A b \in 0 .. ByteMod - 1 :
                 LET at == {j \in DOMAIN s : s[j] = b}
                 IN  /\ Answer("simd_count_byte", b) = Cardinality(at)
                     /\ Answer("simd_find_byte", b) = IF at = {} THEN -1 ELSE Lo(at) - 1

(* Auto-grow: a copy from the default memory arrives, however many pages   *)
(* the pool has so far, when it ends within max_pages, and otherwise traps *)
(* and changes nothing; both routes do the same, and the bytes already in  *)
(* the pool are kept.  With max_pages at the whole address space, which is *)
(* the default, the round-up wraps in the last page: a copy that ends      *)
(* there arrives only in a pool that has the page, and one that ends at    *)
(* the very end never does, though the doc promises max_pages of bytes.    *)
AutoGrowReaches ==
    \A p \in Pools, dst, src, len \in Offsets :
      InBounds(mem, 0, src, len) =>
        LET end == dst + len
            arrives == \/ end <= max_pages * PageSize /\ end <= AddrSpace - PageSize
                       \/ end < AddrSpace /\ InBounds(mem, p, dst, len)
            r == Call(<<"tvm_copy_from_default">>, p, Transfer(dst, src, len))
        IN  /\ r = Call(<<"tvm_copy_from_default_p", p>>, p, Transfer(dst, src, len))
            /\ r.trap = ~arrives
            /\ r.trap => r.mem = mem
            /\ arrives =>
                 /\ Bytes(r.mem, p, dst, len) = Bytes(mem, 0, src, len)
                 /\ \A i \in DOMAIN mem[p] : i <= dst \/ i > end => r.mem[p][i] = mem[p][i]
                 /\ \A q \in Pools \ {p} : r.mem[q] = mem[q]
=============================================================================
