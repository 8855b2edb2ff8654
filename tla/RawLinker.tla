------------------------------ MODULE RawLinker ------------------------------
(***************************************************************************)
(* The raw tvm.* imports, and the four registrars that offer them to a     *)
(* guest: "native" and "shared" (crates/tvm-wasmtime/src/raw_linker.rs),   *)
(* "dynamic" and "typed" (raw_linker_wasmos.rs).                           *)
(*                                                                         *)
(* A call is an import's name and its arguments as they are on the wire.   *)
(* A handler maps what a call can see to what it leaves: the regions,      *)
(* last_raw_error, the cached view and the memory of the calling store,    *)
(* with the answer in ret.  The host is locked, or owned by the store, for *)
(* the part of a handler that uses it, and the rest touches only the       *)
(* memory of the store that waits: a call is one step.                     *)
(*                                                                         *)
(* Lengths and addresses are the non-negative half of i32.                 *)
(***************************************************************************)
EXTENDS RawHost

CONSTANTS
  Stores,       \* the stores (actors); one alone owns the host if not shared
  Owner,        \* that one
  PageSize,     \* bytes of a page of guest memory
  MaxPages,     \* bound: pages a guest memory grows to
  MaxNeedle,    \* longest needle of index_of: 4096 in the code
  MaxChanges,   \* bound: calls that change a region or a guest memory
  InitialBytes, \* the bytes each region starts with
  InitialMem,   \* what every guest memory starts with
  Moved,        \* bound: the regions the embedder spills and loads
  Calls         \* the calls the guests make

ASSUME OwnerAssumption == Owner \in Stores

VARIABLES
  regions,          \* the directory
  last_raw_error,
  cached_memory,    \* CachedGuestMemory: [size, ptr], ptr the store it points into
  mem,              \* the guest memory of each store
  shared,           \* the host is shared by all stores
  owed,             \* history: the owner was told of a failure since its last_error
  changes           \* history: calls that changed a region or a memory

vars == <<regions, last_raw_error, cached_memory, mem, shared, owed, changes>>

-----------------------------------------------------------------------------
(* Error codes *)

err_code(e) ==
  CASE e = "RegionNotFound"   -> 1
    [] e = "StaleHandle"      -> 2
    [] e = "OutOfBounds"      -> 3
    [] e = "NotResident"      -> 4
    [] e = "AllocationFailed" -> 5
    [] e = "Pinned"           -> 6
    [] e \in {"BackingStore", "UnsupportedAllocator", "PolicyViolation"} -> 9
ERR_OK == 0
ERR_GUEST_MEMORY == 7

Code(res) == IF res.ok THEN ERR_OK ELSE err_code(res.val)
Answer(w, r) == [w EXCEPT !.ret = r]
Stash(w, res, sentinel) == [w EXCEPT !.ret = sentinel, !.err = err_code(res.val)]
NewTable(w, res) ==
  IF res.ok THEN [w EXCEPT !.regions = res.val, !.ret = ERR_OK]
  ELSE Answer(w, err_code(res.val))

(* Memory::read and write, guest_memory_read and write.                    *)
InMemory(w, ptr, len) == ptr + len <= Len(w.mem)
Peek(w, ptr, len) == SubSeq(w.mem, ptr + 1, ptr + len)
Poke(w, ptr, data) ==
  IF InMemory(w, ptr, Len(data))
  THEN [w EXCEPT !.mem = Splice(@, ptr, data), !.ret = ERR_OK]
  ELSE Answer(w, ERR_GUEST_MEMORY)

-----------------------------------------------------------------------------
(* Bodies that are the same wherever they are registered *)

AllocClearsError(w, args) ==              \* mutant: a success resets last_raw_error
  LET res == directory_alloc(w.regions, args[1] % (MaxU16 + 1), args[2])
  IN IF res.ok THEN [w EXCEPT !.regions = res.val.regions, !.ret = pack(res.val.handle),
                              !.err = ERR_OK]
     ELSE Stash(w, res, 0)
alloc_handler(w, args) ==
  LET res == directory_alloc(w.regions, args[1] % (MaxU16 + 1), args[2])
  IN IF res.ok THEN [w EXCEPT !.regions = res.val.regions, !.ret = pack(res.val.handle)]
     ELSE Stash(w, res, 0)

dealloc_handler(w, args) == NewTable(w, directory_dealloc(w.regions, unpack(args[1])))

copy_region_handler(w, args) ==
  NewTable(w, cross_region_copy(w.regions, args[1] % (MaxU16 + 1), args[2],
                                args[3] % (MaxU16 + 1), args[4], args[5]))

last_error_handler(w, args) == [w EXCEPT !.ret = w.err, !.err = ERR_OK]

Wrap32(n) == n % (MaxU32 + 1)

DenseByFirstStride(indices, item) ==     \* mutant: only the first stride is compared
  IF Len(indices) >= 2 THEN Wrap32(indices[2] - indices[1]) = item ELSE Len(indices) = 1
dense_contiguous(indices, item) ==
  IF Len(indices) >= 2
  THEN \A k \in 2..Len(indices) : Wrap32(indices[k] - indices[k - 1]) = item
  ELSE Len(indices) = 1

(* The cells in order, up to the first that fails.                         *)
ReadCells(w, h, indices, item) ==
  LET Cell(i) == read(w.regions, [h EXCEPT !.offset = Wrap32(@ + indices[i])], item)
      bad == SelectInSeq([i \in 1..Len(indices) |-> Cell(i).ok], LAMBDA ok : ~ok)
  IN IF bad # 0 THEN Cell(bad)
     ELSE Ok(FlattenSeq([i \in 1..Len(indices) |-> Cell(i).val]))

read_gather_handler(w, args) ==
  LET h == unpack(args[1])
      count == args[3]
      item == args[4]
      indices == Lanes(Peek(w, args[2], count * LaneBytes))
      scratch ==
        IF dense_contiguous(indices, item)
        THEN read(w.regions, [h EXCEPT !.offset = Wrap32(@ + indices[1])], count * item)
        ELSE ReadCells(w, h, indices, item)
  IN IF ~InMemory(w, args[2], count * LaneBytes) THEN Answer(w, ERR_GUEST_MEMORY)
     ELSE IF ~scratch.ok THEN Answer(w, err_code(scratch.val))
     ELSE Poke(w, args[5], scratch.val)

index_of_handler(w, args) ==
  IF args[4] > MaxNeedle THEN Answer(w, -2)
  ELSE IF ~InMemory(w, args[3], args[4]) THEN Answer(w, ERR_GUEST_MEMORY)
  ELSE LET res == region_index_of(w.regions, unpack(args[1]), args[2], Peek(w, args[3], args[4]))
       IN IF ~res.ok THEN Stash(w, res, -2)
          ELSE Answer(w, IF res.val = << >> THEN -1 ELSE res.val[1])

byte_histogram_handler(w, args) ==
  LET res == region_byte_histogram(w.regions, unpack(args[1]), args[2])
  IN IF res.ok THEN Poke(w, args[3], res.val) ELSE Answer(w, err_code(res.val))

-----------------------------------------------------------------------------
(* Reducers: each registrar unpacks the handles, calls the method of the   *)
(* host, and packs what it returns into one integer.                       *)

HostMethod(rs, name, args) ==
  LET h == unpack(args[1])
  IN CASE name = "sum_u8"          -> region_sum_u8(rs, h, args[2])
       [] name = "find_byte"       -> region_find_byte(rs, h, args[2], args[3] % Base)
       [] name = "hash_fnv1a"      -> region_hash_fnv1a(rs, h, args[2])
       [] name = "count_byte"      -> region_count_byte(rs, h, args[2], args[3] % Base)
       [] name = "eq"              -> region_eq(rs, h, unpack(args[2]), args[3])
       [] name = "min_max_u8"      -> region_min_max_u8(rs, h, args[2])
       [] name = "xor_into_region" -> region_xor_into_region(rs, h, unpack(args[2]), args[3])
       [] name = "sum_u32_le"      -> region_sum_u32_le(rs, h, args[2])
       [] name = "max_u32_le"      -> region_max_u32_le(rs, h, args[2])
       [] name = "and_fold_u8"     -> region_and_fold_u8(rs, h, args[2])
       [] name = "or_fold_u8"      -> region_or_fold_u8(rs, h, args[2])
       [] name = "xor_fold_u8"     -> region_xor_fold_u8(rs, h, args[2])
       [] name = "count_in_range"  ->
            region_count_in_range(rs, h, args[2], args[3] % Base, args[4] % Base)
       [] name = "lex_cmp"         -> region_lex_cmp(rs, h, unpack(args[2]), args[3])
       [] name = "popcount"        -> region_popcount(rs, h, args[2])
       [] name = "fill"            -> region_fill(rs, h, args[2], args[3] % Base)
       [] name = "xor_with_byte"   -> region_xor_with_byte(rs, h, args[2], args[3] % Base)

Packed(name, val) ==
  CASE name = "find_byte"  -> IF val = << >> THEN -1 ELSE val[1]
    [] name = "max_u32_le" -> IF val = << >> THEN -2 ELSE val[1]
    [] name = "eq"         -> IF val THEN 1 ELSE 0
    [] name = "min_max_u8" -> (val[1] * Base) | val[2]
    [] OTHER               -> val

(* A reducer answers its sentinel and stashes the code when it fails.  The *)
(* mutators have no sentinel: they answer the code.                        *)
Mutators == {"xor_into_region", "fill", "xor_with_byte"}
Reduce(w, name, args, sentinels) ==
  LET res == HostMethod(w.regions, name, args)
  IN IF name \in Mutators THEN NewTable(w, res)
     ELSE IF res.ok THEN Answer(w, Packed(name, res.val))
     ELSE Stash(w, res, sentinels[name])

-----------------------------------------------------------------------------
(* add_raw_imports: the store owns the host, which remembers where the     *)
(* store's memory is.  The range is not compared with the refreshed size.  *)

native_reducers == [sum_u8 |-> -1, find_byte |-> -2, hash_fnv1a |-> 0, count_byte |-> -1,
                    eq |-> -1, min_max_u8 |-> -1, sum_u32_le |-> -1, max_u32_le |-> -1]
native_folds == [and_fold_u8 |-> -1, or_fold_u8 |-> -1, xor_fold_u8 |-> -1,
                 count_in_range |-> -1, lex_cmp |-> -2, popcount |-> -1]

NoView == [size |-> 0, ptr |-> "null"]

cached_guest_memory_view(w, required_end) ==
  IF w.view.size = 0 \/ required_end > w.view.size
  THEN [w EXCEPT !.view = [size |-> Len(w.mem), ptr |-> w.store]] ELSE w

Wild == -99      \* the answer when the access was not to the store's memory

native_read(w, args) ==
  LET v == cached_guest_memory_view(w, args[2] + args[3])
      res == fast_slice(w.regions, unpack(args[1]), args[3])
  IN IF ~res.ok THEN Answer(v, err_code(res.val))
     ELSE IF v.view.ptr # w.store THEN Answer(v, Wild)
     ELSE Poke(v, args[2], res.val)

native_write(w, args) ==
  LET v == cached_guest_memory_view(w, args[2] + args[3])
      h == unpack(args[1])
      res == fast_slice(w.regions, h, args[3])
  IN IF ~res.ok THEN Answer(v, err_code(res.val))
     ELSE IF v.view.ptr # w.store THEN Answer(v, Wild)
     ELSE NewTable(v, write(w.regions, h, Peek(w, args[2], args[3])))

native_index_of(w, args) ==
  IF args[4] > MaxNeedle THEN Answer(w, -2)
  ELSE index_of_handler(cached_guest_memory_view(w, args[3] + args[4]), args)

native_byte_histogram(w, args) ==
  byte_histogram_handler(cached_guest_memory_view(w, args[3] + Base * LaneBytes), args)

-----------------------------------------------------------------------------
(* add_raw_shared: the host is locked, the memory is fetched on each call, *)
(* and the range is checked before the region.                             *)

shared_alloc_dealloc(w, name, args) ==
  IF name = "alloc" THEN alloc_handler(w, args) ELSE dealloc_handler(w, args)

SharedCachesView(w, name, args) ==        \* mutant: the host remembers the memory
  IF ~InMemory(w, args[2], args[3]) THEN Answer(w, ERR_GUEST_MEMORY)
  ELSE IF name = "read" THEN native_read(w, args) ELSE native_write(w, args)
shared_read_write(w, name, args) ==
  LET h == unpack(args[1])
      res == fast_slice(w.regions, h, args[3])
  IN IF ~InMemory(w, args[2], args[3]) THEN Answer(w, ERR_GUEST_MEMORY)
     ELSE IF ~res.ok THEN Answer(w, err_code(res.val))
     ELSE IF name = "read" THEN Poke(w, args[2], res.val)
     ELSE NewTable(w, write(w.regions, h, Peek(w, args[2], args[3])))

shared_read_gather(w, args) == read_gather_handler(w, args)

shared_copy_last_error(w, name, args) ==
  IF name = "copy_region" THEN copy_region_handler(w, args) ELSE last_error_handler(w, args)

shared_reducers == [sum_u8 |-> -1, find_byte |-> -2, hash_fnv1a |-> 0, count_byte |-> -1,
                    eq |-> -1, min_max_u8 |-> -1, sum_u32_le |-> -1, max_u32_le |-> -1]
shared_folds == [and_fold_u8 |-> -1, or_fold_u8 |-> -1, xor_fold_u8 |-> -1,
                 count_in_range |-> -1, lex_cmp |-> -2, popcount |-> -1]

shared_searches(w, name, args) ==
  IF name = "index_of" THEN index_of_handler(w, args) ELSE byte_histogram_handler(w, args)

-----------------------------------------------------------------------------
(* register_all: handlers that lock a shared host or are given the store's *)
(* own.  read asks the region before the memory, and read and write stash  *)
(* the code they answer.                                                   *)

dynamic_region_only(w, name, args) ==
  CASE name = "alloc"       -> alloc_handler(w, args)
    [] name = "dealloc"     -> dealloc_handler(w, args)
    [] name = "copy_region" -> copy_region_handler(w, args)
    [] name = "last_error"  -> last_error_handler(w, args)

reducers_neg1 == [n \in {"sum_u8", "popcount", "and_fold_u8", "or_fold_u8", "xor_fold_u8"} |-> -1]
dynamic_reducers == [hash_fnv1a |-> 0, find_byte |-> -2, count_byte |-> -1, eq |-> -1,
                     min_max_u8 |-> -1]
dynamic_lanes == [sum_u32_le |-> -1, max_u32_le |-> -1, count_in_range |-> -1, lex_cmp |-> -2]

dynamic_read_write(w, name, args) ==
  LET h == unpack(args[1])
      res == read(w.regions, h, args[3])
      put == write(w.regions, h, Peek(w, args[2], args[3]))
  IN IF name = "read"
     THEN IF ~res.ok THEN Stash(w, res, err_code(res.val)) ELSE Poke(w, args[2], res.val)
     ELSE IF ~InMemory(w, args[2], args[3]) THEN Answer(w, ERR_GUEST_MEMORY)
     ELSE IF ~put.ok THEN Stash(w, put, err_code(put.val)) ELSE NewTable(w, put)

dynamic_read_gather(w, args) == read_gather_handler(w, args)

dynamic_searches(w, name, args) ==
  IF name = "index_of" THEN index_of_handler(w, args) ELSE byte_histogram_handler(w, args)

(* register_all_typed: "a direct port of its async equivalent".            *)
typed_region_only(w, name, args) ==
  CASE name = "alloc"       -> alloc_handler(w, args)
    [] name = "dealloc"     -> dealloc_handler(w, args)
    [] name = "copy_region" -> copy_region_handler(w, args)
    [] name = "last_error"  -> last_error_handler(w, args)

typed_neg1 == [n \in {"sum_u8", "popcount", "and_fold_u8", "or_fold_u8", "xor_fold_u8"} |-> -1]
typed_reducers == [hash_fnv1a |-> 0, find_byte |-> -2, count_byte |-> -1, eq |-> -1,
                   min_max_u8 |-> -1]
typed_lanes == [sum_u32_le |-> -1, max_u32_le |-> -1, count_in_range |-> -1, lex_cmp |-> -2]

typed_read_write(w, name, args) ==
  LET h == unpack(args[1])
      res == read(w.regions, h, args[3])
      put == write(w.regions, h, Peek(w, args[2], args[3]))
  IN CASE name = "read" /\ res.ok -> Poke(w, args[2], res.val)
       [] name = "read" /\ ~res.ok -> Stash(w, res, err_code(res.val))
       [] name = "write" /\ ~InMemory(w, args[2], args[3]) -> Answer(w, ERR_GUEST_MEMORY)
       [] name = "write" /\ InMemory(w, args[2], args[3]) ->
            IF put.ok THEN NewTable(w, put) ELSE Stash(w, put, err_code(put.val))

typed_read_gather(w, args) == read_gather_handler(w, args)

typed_searches(w, name, args) ==
  IF name = "index_of" THEN index_of_handler(w, args) ELSE byte_histogram_handler(w, args)

-----------------------------------------------------------------------------
(* The registrars *)

Slots == {"alloc", "dealloc"}
Memory == {"read", "write"}
Searches == {"index_of", "byte_histogram"}

add_raw_imports(w, name, args) ==
  CASE name = "alloc"          -> alloc_handler(w, args)
    [] name = "dealloc"        -> dealloc_handler(w, args)
    [] name = "copy_region"    -> copy_region_handler(w, args)
    [] name = "last_error"     -> last_error_handler(w, args)
    [] name = "read"           -> native_read(w, args)
    [] name = "write"          -> native_write(w, args)
    [] name = "read_gather"    -> read_gather_handler(w, args)
    [] name = "index_of"       -> native_index_of(w, args)
    [] name = "byte_histogram" -> native_byte_histogram(w, args)
    [] OTHER -> Reduce(w, name, args, native_reducers @@ native_folds)

add_raw_shared(w, name, args) ==
  CASE name \in Slots         -> shared_alloc_dealloc(w, name, args)
    [] name \in Memory        -> shared_read_write(w, name, args)
    [] name = "read_gather"   -> shared_read_gather(w, args)
    [] name \in {"copy_region", "last_error"} -> shared_copy_last_error(w, name, args)
    [] name \in Searches      -> shared_searches(w, name, args)
    [] OTHER -> Reduce(w, name, args, shared_reducers @@ shared_folds)

register_all(w, name, args) ==
  CASE name \in Slots \cup {"copy_region", "last_error"} -> dynamic_region_only(w, name, args)
    [] name \in Memory        -> dynamic_read_write(w, name, args)
    [] name = "read_gather"   -> dynamic_read_gather(w, args)
    [] name \in Searches      -> dynamic_searches(w, name, args)
    [] OTHER -> Reduce(w, name, args, reducers_neg1 @@ dynamic_reducers @@ dynamic_lanes)

register_all_typed(w, name, args) ==
  CASE name \in Slots \cup {"copy_region", "last_error"} -> typed_region_only(w, name, args)
    [] name \in Memory        -> typed_read_write(w, name, args)
    [] name = "read_gather"   -> typed_read_gather(w, args)
    [] name \in Searches      -> typed_searches(w, name, args)
    [] OTHER -> Reduce(w, name, args, typed_neg1 @@ typed_reducers @@ typed_lanes)

Registrars == {"native", "shared", "dynamic", "typed"}

(* What store a sees, and what is left when it has made call c.            *)
World(a) == [store |-> a, regions |-> regions, err |-> last_raw_error, view |-> cached_memory,
             mem |-> mem[a], ret |-> 0]
Outcome(registrar, a, c) ==
  CASE registrar = "native"  -> add_raw_imports(World(a), c.name, c.args)
    [] registrar = "shared"  -> add_raw_shared(World(a), c.name, c.args)
    [] registrar = "dynamic" -> register_all(World(a), c.name, c.args)
    [] registrar = "typed"   -> register_all_typed(World(a), c.name, c.args)

(* TvmHostSource: a shared host is behind a mutex, any other belongs to    *)
(* the one store whose data it is.                                         *)
Callers == IF shared THEN Stores ELSE {Owner}
Installed == IF shared THEN {"shared", "dynamic"} ELSE {"native", "dynamic", "typed"}

-----------------------------------------------------------------------------
(* Behaviour *)

Init ==
  /\ regions = [r \in DOMAIN InitialBytes |-> NewRegion(InitialBytes[r])]
  /\ last_raw_error = ERR_OK
  /\ cached_memory = NoView
  /\ mem = [a \in Stores |-> InitialMem]
  /\ shared \in BOOLEAN
  /\ owed = FALSE
  /\ changes = 0

(* The caller keeps the range of a native read or write in its memory.     *)
RangeInMemory(a, c) == c.name \in Memory => c.args[2] + c.args[3] <= Len(mem[a])

(* The answer says that the call failed and that last_error knows why.     *)
ToldOfFailure(c, ret) ==
  \/ c.name = "alloc" /\ ret = 0
  \/ c.name \in {"find_byte", "lex_cmp"} /\ ret = -2
  \/ c.name = "index_of" /\ ret = -2 /\ c.args[4] <= MaxNeedle
  \/ c.name \in {"sum_u8", "count_byte", "eq", "min_max_u8", "sum_u32_le", "max_u32_le",
                 "and_fold_u8", "or_fold_u8", "xor_fold_u8", "count_in_range", "popcount"}
     /\ ret = -1

call(a, registrar, c) ==
  /\ registrar = "native" => RangeInMemory(a, c)
  /\ \E w \in {Outcome(registrar, a, c)} :
       /\ regions' = w.regions
       /\ last_raw_error' = w.err
       /\ cached_memory' = w.view
       /\ mem' = [mem EXCEPT ![a] = w.mem]
       /\ owed' = (~shared /\ c.name # "last_error" /\ (owed \/ ToldOfFailure(c, w.ret)))
  /\ changes' = IF regions' # regions \/ mem' # mem THEN changes + 1 ELSE changes
  /\ changes' <= MaxChanges
  /\ UNCHANGED shared

(* memory.grow; the base stays where it is (memory_may_move(false)).       *)
memory_grow(a) ==
  /\ Len(mem[a]) + PageSize <= MaxPages * PageSize
  /\ mem' = [mem EXCEPT ![a] = @ \o [i \in 1..PageSize |-> 0]]
  /\ UNCHANGED <<regions, last_raw_error, cached_memory, shared, owed, changes>>

(* The embedder spills or loads a region.                                  *)
move_region(r) ==
  /\ regions' = [regions EXCEPT ![r].resident = ~@]
  /\ UNCHANGED <<last_raw_error, cached_memory, mem, shared, owed, changes>>

Next ==
  \/ \E a \in Callers, registrar \in Installed, c \in Calls : call(a, registrar, c)
  \/ memory_grow(Owner)
  \/ \E r \in Moved : move_region(r)

Spec == Init /\ [][Next]_vars

-----------------------------------------------------------------------------
(* Properties *)

(* The four registrars are drop-in peers: in every state, the same call    *)
(* gives the same answer and leaves the same regions and guest memory,     *)
(* whichever of them serves it.  The code of a refused read or write may   *)
(* differ.  Native reads and writes stay in the caller's memory.           *)
SameEffect ==
  \A a \in Callers, c \in Calls :
    LET Serving == {r \in Registrars : r = "native" => RangeInMemory(a, c)}
    IN \A w, peer \in {Outcome(registrar, a, c) : registrar \in Serving} :
         /\ w.regions = peer.regions
         /\ w.mem = peer.mem
         /\ \/ w.ret = peer.ret
            \/ c.name \in Memory /\ {w.ret, peer.ret} \cap {ERR_OK, Wild} = {}

(* The bytes a handle and a length name; what makes them readable.         *)
Readable(h, len) ==
  /\ h.region \in DOMAIN regions
  /\ regions[h.region].generation = h.generation
  /\ regions[h.region].resident
  /\ h.offset + len <= Capacity
At(h, i) == regions[h.region].bytes[h.offset + i]
LaneAt(h, k) == MapThenSumSet(LAMBDA i : At(h, (k - 1) * LaneBytes + i) * Base^(i - 1), 1..LaneBytes)
Bit(n, k) == (n \div 2^k) % 2
Bits == {k \in 0..7 : 2^k < Base}
Found(h, needle, at) == \A j \in 1..Len(needle) : At(h, at + j) = needle[j]

(* What the answer r of a reducer says of the bytes.                       *)
Says(name, args, r) ==
  LET h == unpack(args[1])
      I == 1..args[2]
      g == unpack(args[2])
      lanes == 1..(args[2] \div LaneBytes)
  IN CASE name = "sum_u8" -> r = MapThenSumSet(LAMBDA i : At(h, i), I)
       [] name = "popcount" -> r = Cardinality({p \in I \X Bits : Bit(At(h, p[1]), p[2]) = 1})
       [] name = "find_byte" ->
            IF \E i \in I : At(h, i) = args[3]
            THEN r >= 0 /\ At(h, r + 1) = args[3] /\ \A i \in 1..r : At(h, i) # args[3]
            ELSE r = -1
       [] name = "count_byte" -> r = Cardinality({i \in I : At(h, i) = args[3]})
       [] name = "count_in_range" -> r = Cardinality({i \in I : At(h, i) \in args[3]..args[4]})
       [] name = "min_max_u8" ->
            I # {} => /\ \A i \in I : At(h, i) \in (r \div Base)..(r % Base)
                      /\ {r \div Base, r % Base} \subseteq {At(h, i) : i \in I}
       [] name = "sum_u32_le" -> r = MapThenSumSet(LAMBDA k : LaneAt(h, k), lanes)
       [] name = "max_u32_le" ->
            IF lanes = {} THEN r = -2
            ELSE r \in {LaneAt(h, k) : k \in lanes} /\ \A k \in lanes : LaneAt(h, k) <= r
       [] name = "and_fold_u8" ->
            \A k \in Bits : Bit(r, k) = 1 <=> \A i \in I : Bit(At(h, i), k) = 1
       [] name = "or_fold_u8" ->
            \A k \in Bits : Bit(r, k) = 1 <=> \E i \in I : Bit(At(h, i), k) = 1
       [] name = "xor_fold_u8" ->
            \A k \in Bits : Bit(r, k) = Cardinality({i \in I : Bit(At(h, i), k) = 1}) % 2
       [] name = "eq" -> r = IF \A i \in 1..args[3] : At(h, i) = At(g, i) THEN 1 ELSE 0
       [] name = "lex_cmp" ->
            \/ r = 0 /\ \A i \in 1..args[3] : At(h, i) = At(g, i)
            \/ \E i \in 1..args[3] :
                 /\ \A j \in 1..(i - 1) : At(h, j) = At(g, j)
                 /\ \/ r = -1 /\ At(h, i) < At(g, i)
                    \/ r = 1 /\ At(h, i) > At(g, i)

(* The answer r to index_of, the needle being inside guest memory: the     *)
(* first offset where the needle is, -1 when it is nowhere, -2 when the    *)
(* call failed.                                                            *)
IndexOfAnswers(a, c, r) ==
  LET h == unpack(c.args[1])
      needle == Peek(World(a), c.args[3], c.args[4])
      last == c.args[2] - c.args[4]
  IN IF c.args[4] > MaxNeedle \/ ~Readable(h, c.args[2]) THEN r = -2
     ELSE IF \E at \in 0..last : Found(h, needle, at)
     THEN r \in 0..last /\ Found(h, needle, r) /\ \A at \in 0..(r - 1) : ~Found(h, needle, at)
     ELSE IF needle = << >> THEN r = 0 ELSE r = -1

(* The bytes reducer call c is about are there, in whole lanes.            *)
AllReadable(c) ==
  LET two == c.name \in {"eq", "lex_cmp"}
      len == IF two THEN c.args[3] ELSE c.args[2]
  IN /\ Readable(unpack(c.args[1]), len)
     /\ two => Readable(unpack(c.args[2]), len)
     /\ c.name \in {"sum_u32_le", "max_u32_le"} => len % LaneBytes = 0
NeedleThere(a, c) == c.args[4] <= MaxNeedle => InMemory(World(a), c.args[3], c.args[4])
Failure(name) == IF name \in {"find_byte", "lex_cmp"} THEN -2 ELSE -1
Reducers == DOMAIN (native_reducers @@ native_folds) \ {"hash_fnv1a"}

(* Every reducer's one integer can be decoded: an error answer means that  *)
(* a handle does not name readable bytes (or that lanes do not divide      *)
(* them), any other answer is true of the bytes the region holds.  For     *)
(* index_of the needle is inside the guest's memory.                       *)
AnswersTrue ==
  \A a \in Callers, c \in {d \in Calls : d.name \in Reducers \cup {"index_of"}} :
    \A r \in {add_raw_imports(World(a), c.name, c.args).ret} :
      IF c.name = "index_of" THEN NeedleThere(a, c) => IndexOfAnswers(a, c, r)
      ELSE IF AllReadable(c) THEN r # Failure(c.name) /\ Says(c.name, c.args, r)
      ELSE r = Failure(c.name)

(* read_gather copies cell i from h.offset + index[i], wrapping, whether   *)
(* it goes cell by cell or by one bulk read, and writes nothing at all if  *)
(* any cell or the destination is out of reach.                            *)
GatherExact ==
  \A a \in Callers, c \in {d \in Calls : d.name = "read_gather"} :
    LET h == unpack(c.args[1])
        count == c.args[3]
        item == c.args[4]
        dst == c.args[5]
        index == Lanes(Peek(World(a), c.args[2], count * LaneBytes))
        cell(i) == [h EXCEPT !.offset = (@ + index[i]) % (MaxU32 + 1)]
        reachable == /\ c.args[2] + count * LaneBytes <= Len(mem[a])
                     /\ dst + count * item <= Len(mem[a])
                     /\ \A i \in 1..count : Readable(cell(i), item)
    IN \A w \in {read_gather_handler(World(a), c.args)} :
       /\ w.ret = ERR_OK <=> reachable
       /\ Len(w.mem) = Len(mem[a])
       /\ \A p \in 1..Len(mem[a]) :
            w.mem[p] = IF reachable /\ p \in (dst + 1)..(dst + count * item)
                       THEN At(cell(((p - dst - 1) \div item) + 1), ((p - dst - 1) % item) + 1)
                       ELSE mem[a][p]

(* On a host of its own, a store that was told of a failure still finds a  *)
(* code in last_error, whatever calls it made since, until it asks.        *)
FailureNotForgotten == owed => last_raw_error # ERR_OK
=============================================================================
