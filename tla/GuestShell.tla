----------------------------- MODULE GuestShell -----------------------------
(***************************************************************************)
(* The module tvm_guest_mm_module_template generates: n memory pools, each *)
(* a wasm memory, and the helper functions that reach them.  A memory      *)
(* immediate is static in wasm, so a pool chosen at run time is reached by *)
(* a binary search over n copies of the access (dispatch.rs), by a direct  *)
(* helper per pool, or through a function table.                           *)
(*                                                                         *)
(* A function body is a sequence of arms [path, ops]: the comparisons of   *)
(* the pool operand on the way to the arm, and the arm's instructions.     *)
(***************************************************************************)
EXTENDS Wasm

LoadTypes == <<"u8", "u32", "i64">>

LoadOp  == [u8 |-> "load_u8", u32 |-> "load_u32", i64 |-> "load_i64"]
StoreOp == [u8 |-> "store_u8", u32 |-> "store_u32", i64 |-> "store_i64"]

Mem(k) == <<"mem", k>>

Straight(ops) == << [path |-> {}, ops |-> ops] >>

\* the guard in front of every dispatcher: pool >= n traps
Unguarded(n, body) == body                       \* mutant: no bounds guard
Guarded(n, body) == << [path |-> {<<"ge", n>>}, ops |-> <<Ins("unreachable", <<>>)>>] >> \o body

\* the binary search over [0, n); leaf[k] is the code for pool k
Search(leaf, n) ==
    LET With(test, body) == [i \in DOMAIN body |-> [body[i] EXCEPT !.path = @ \cup {test}]]
        bst[r \in (0 .. n) \X (0 .. n)] ==
          LET lo == r[1]  hi == r[2]  mid == lo + (hi - lo) \div 2
          IN  IF hi - lo = 1
              THEN Straight(leaf[lo])
              ELSE With(<<"lt", mid>>, bst[<<lo, mid>>]) \o With(<<"ge", mid>>, bst[<<mid, hi>>])
    IN  bst[<<0, n>>]

BuildLoadBst(ty, n)  == Search([k \in 0 .. n - 1 |-> <<Ins(LoadOp[ty], <<Mem(k)>>)>>], n)
BuildStoreBst(ty, n) == Search([k \in 0 .. n - 1 |-> <<Ins(StoreOp[ty], <<Mem(k)>>)>>], n)

\* $end = dst_off + len, trapping when it wraps; then pool k grown to cover it
CheckEnd == Ins("check_end", <<>>)
Grow(k)  == Ins("grow", <<Mem(k)>>)
CopyIns(dst, src) == Ins("copy", <<Mem(dst), Mem(src)>>)

BuildCopyBst(toDefault, n) ==
    Search([k \in 0 .. n - 1 |->
              IF toDefault THEN <<CopyIns(0, k)>>
                           ELSE <<CheckEnd, Grow(k), CopyIns(k, 0)>>], n)

-----------------------------------------------------------------------------
(* The functions, each [name, sig, body], in the order they are emitted.   *)

Fn(name, sig, body) == [name |-> name, sig |-> sig, body |-> body]

LoadSig(ty)  == IF ty = "i64" THEN <<"i32", "to", "i64">> ELSE <<"i32", "to", "i32">>
StoreSig(ty) == IF ty = "i64" THEN <<"i32", "i64", "to">> ELSE <<"i32", "i32", "to">>
CopySig      == <<"i32", "i32", "i32", "to">>

EmitLoadDispatcher(ty, n) ==
    Fn(<<"tvm_load", ty>>, <<"i32">> \o LoadSig(ty), Guarded(n, BuildLoadBst(ty, n)))

EmitStoreDispatcher(ty, n) ==
    Fn(<<"tvm_store", ty>>, <<"i32">> \o StoreSig(ty), Guarded(n, BuildStoreBst(ty, n)))

EmitBulkCopyDispatcher(n) ==
    Fn(<<"tvm_copy_to_default">>, <<"i32">> \o CopySig, Guarded(n, BuildCopyBst(TRUE, n)))

EmitBulkCopyFromDefaultDispatcher(n) ==
    Fn(<<"tvm_copy_from_default">>, <<"i32">> \o CopySig, Guarded(n, BuildCopyBst(FALSE, n)))

EmitSpecializedCopyHelpers(k) ==
    << Fn(<<"tvm_copy_to_default_p", k>>, CopySig, Straight(<<CopyIns(0, k)>>)),
       Fn(<<"tvm_copy_from_default_p", k>>, CopySig,
          Straight(<<CheckEnd, Grow(k), CopyIns(k, 0)>>)) >>

EmitSpecializedTypedHelpers(k) ==
    [i \in 1 .. 3 |-> Fn(<<"tvm_load_p", LoadTypes[i], k>>, LoadSig(LoadTypes[i]),
                         Straight(<<Ins(LoadOp[LoadTypes[i]], <<Mem(k)>>)>>))]
    \o
    [i \in 1 .. 3 |-> Fn(<<"tvm_store_p", LoadTypes[i], k>>, StoreSig(LoadTypes[i]),
                         Straight(<<Ins(StoreOp[LoadTypes[i]], <<Mem(k)>>)>>))]

EmitSpecializedIntraPoolCopy(k) ==
    << Fn(<<"tvm_intra_pool_copy_p", k>>, CopySig, Straight(<<CopyIns(k, k)>>)) >>

\* type i and table i belong to the i-th load family
EmitIndirectLoadDispatchers(n) ==
    [i \in 1 .. 3 |-> Fn(<<"tvm_load_indirect", LoadTypes[i]>>, <<"i32">> \o LoadSig(LoadTypes[i]),
        Guarded(n, Straight(<<Ins("call_indirect", <<<<"type", i - 1>>, <<"table", i - 1>>>>)>>)))]

SimdOps == <<"simd_xor_fold", "simd_and_fold", "simd_or_fold", "simd_count_byte",
             "simd_popcount", "simd_find_byte", "simd_min_max">>

\* the byte counters take a third operand, the counters of bits answer an i64
SimdSig(op) ==
    <<"i32", "i32">> \o (IF op \in {"simd_count_byte", "simd_find_byte"} THEN <<"i32">> ELSE <<>>)
    \o <<"to", IF op \in {"simd_sum", "simd_popcount"} THEN "i64" ELSE "i32">>

EmitSpecializedSimdKernels(k) ==
    << Fn(<<"tvm_simd_p", "simd_sum", k>>, SimdSig("simd_sum"),
          Straight(<<Ins("simd_sum", <<Mem(k)>>)>>)) >>

EmitSpecializedSimdReducers(k) ==
    [i \in 1 .. Len(SimdOps) |->
        Fn(<<"tvm_simd_p", SimdOps[i], k>>, SimdSig(SimdOps[i]),
           Straight(<<Ins(SimdOps[i], <<Mem(k)>>)>>))]

PerPool(emit(_), n) == FlattenSeq([i \in 1 .. n |-> emit(i - 1)])

ShellFunctions(n) ==
    [i \in 1 .. 3 |-> EmitLoadDispatcher(LoadTypes[i], n)]
    \o [i \in 1 .. 3 |-> EmitStoreDispatcher(LoadTypes[i], n)]
    \o << EmitBulkCopyDispatcher(n), EmitBulkCopyFromDefaultDispatcher(n) >>
    \o PerPool(EmitSpecializedCopyHelpers, n)
    \o PerPool(EmitSpecializedTypedHelpers, n)
    \o PerPool(EmitSpecializedIntraPoolCopy, n)
    \o EmitIndirectLoadDispatchers(n)
    \o PerPool(EmitSpecializedSimdKernels, n)
    \o PerPool(EmitSpecializedSimdReducers, n)

-----------------------------------------------------------------------------
(* The module: its sections, as `wat` assembles the text.                  *)

FunctionIndex(fns, name) == (CHOOSE i \in DOMAIN fns : fns[i].name = name) - 1

\* the three named types, then one per signature no named type has
ShellTypes(fns) ==
    LET named == [i \in 1 .. 3 |-> LoadSig(LoadTypes[i])]
        Intern(types, fn) == IF Contains(types, fn.sig) THEN types ELSE Append(types, fn.sig)
    IN  FoldLeft(Intern, named, fns)

TypeIndex(types, sig) == (CHOOSE i \in DOMAIN types :
                            types[i] = sig /\ \A j \in 1 .. i - 1 : types[j] # sig) - 1

\* `(table $t funcref (elem ...))`: an active segment at offset 0, and the
\* table index is left out for table 0
InlineElem(fns, i, n) ==
    [id |-> <<"shell", "elem", i - 1>>, mode |-> "active",
     table |-> IF i = 1 THEN Default ELSE i - 1, offset |-> Ins("const", <<>>),
     items |-> [k \in 1 .. n |->
        Ins("func", <<<<"func", FunctionIndex(fns, <<"tvm_load_p", LoadTypes[i], k - 1>>)>>>>)]]

ModuleTemplate(n, initial, max) ==
    LET fns   == ShellFunctions(n)
        types == ShellTypes(fns)
    IN << [sec |-> "type", items |->
             [i \in DOMAIN types |-> [id |-> types[i], func |-> TRUE]]],
          [sec |-> "function", items |->
             [i \in DOMAIN fns |-> TypeIndex(types, fns[i].sig)]],
          [sec |-> "table", items |->
             [i \in 1 .. 3 |-> [id |-> <<"shell", "table", i - 1>>]]],
          [sec |-> "memory", items |->
             [i \in 1 .. n |-> [id |-> <<"shell", "mem", i - 1>>, min |-> initial, max |-> max]]],
          [sec |-> "export", items |->
             [i \in 1 .. n |-> [name |-> <<"mem", i - 1>>, kind |-> "mem", index |-> i - 1]]
             \o [i \in DOMAIN fns |-> [name |-> fns[i].name, kind |-> "func", index |-> i - 1]]],
          [sec |-> "element", items |-> [i \in 1 .. 3 |-> InlineElem(fns, i, n)]],
          [sec |-> "code", items |->
             [i \in DOMAIN fns |-> [id |-> <<"shell", "func", i - 1>>, body |-> fns[i].body]]],
          [sec |-> "custom", name |-> <<"name">>, items |->
             [i \in DOMAIN fns |-> [space |-> "func", index |-> i - 1, name |-> fns[i].name]]
             \o [i \in 1 .. 3 |-> [space |-> "type", index |-> i - 1,
                                   name |-> <<"tvm_indirect_load", LoadTypes[i]>>]]
             \o [i \in 1 .. 3 |-> [space |-> "table", index |-> i - 1,
                                   name |-> <<"tvm_tbl_load", LoadTypes[i]>>]]] >>

-----------------------------------------------------------------------------
(* Which instructions a call runs.                                         *)

\* the arm a pool operand selects
Selects(path, pool) == \A test \in path :
    IF test[1] = "lt" THEN pool < test[2] ELSE pool >= test[2]

ArmOf(body, pool) ==
    LET first == CHOOSE i \in DOMAIN body :
                   Selects(body[i].path, pool) /\ \A j \in 1 .. i - 1 : ~Selects(body[j].path, pool)
    IN  body[first].ops

\* what instantiation leaves in a table slot: the last active segment's item
SlotOf(m, table, slot) ==
    LET segs == {s \in DOMAIN m.element :
                   /\ m.element[s].mode = "active"
                   /\ (IF m.element[s].table = Default THEN 0 ELSE m.element[s].table) = table
                   /\ slot < Len(m.element[s].items)}
        last == CHOOSE s \in segs : \A t \in segs : t <= s
    IN  IF segs = {} THEN -1 ELSE At(m.element[last].items, slot).ix[1][2]

\* the instructions an exported helper runs for a pool operand, a call
\* through a table followed to the function it reaches; <<>> is a trap
RunsFor(m, name, pool) ==
    LET export == CHOOSE i \in DOMAIN m.export : m.export[i].name = name
        Body(f) == At(m.code, f - Len(ImportsOf(m, "func"))).body
        ops    == ArmOf(Body(m.export[export].index), pool)
        target == SlotOf(m, ops[1].ix[2][2], pool)
    IN  CASE ops[1].op = "unreachable" -> <<>>
          [] ops[1].op = "call_indirect" ->
               IF target < Len(ImportsOf(m, "func"))
                  \/ SignatureOf(m, target) # Entity(m, "type", ops[1].ix[1][2])
               THEN <<>>
               ELSE ArmOf(Body(target), pool)
          [] OTHER -> ops
=============================================================================
