# TVM: models, checks and proofs

TVM gives WebAssembly programs more memory than one linear memory holds. It
splits data into *regions* that live in host memory, in other wasm memories or in
files, and names bytes by *handles* (region, generation, offset) that become
invalid when the region moves. This directory holds TLA+ specifications of the
parts of TVM where moving bytes around can go wrong, TLC configurations that
check them on small instances, and TLAPS proofs of the central theorems. Line
numbers below are those of the repository's sources.

    tlc -workers 2 -config <run>.cfg <Module>MC     # one run
    tlapm <Module>_proofs.tla                       # the proofs about a module

## 1. Inventory

| Component | State it keeps | Operations | What makes it correct |
|---|---|---|---|
| Region directory, `tvm-core/src/directory.rs` | a vector of slots (metadata, memory, generation), an LRU list of Warm regions | create/destroy, alloc/dealloc, read/write, pin/unpin, spill/load, promote/demote, evict, bump, compact, external, snapshot/restore | bytes survive every tier move; stale handles are refused; pinned regions stay; the LRU list is usable |
| Backing stores, `backing.rs`, `async_backing.rs` | files keyed by region and generation | spill, load, delete | the file of a Cold region holds its bytes |
| Allocators, `allocator.rs` | watermark / free list and live blocks / slot stack | alloc, dealloc, rebuild | blocks are disjoint, aligned, in the region; nothing is leaked |
| Handles and compaction, `handle.rs`, `memory_region.rs`, `directory.rs:247` | a remap per compaction | compact, migrate | a migrated handle reads what its owner wrote |
| Concurrent directory, `concurrent.rs`, `eviction.rs` | RwLock over slots, a mutex per entry, a mutex over the LRU list | the same operations through `&self`, `demote_until`, `alloc_or_demote` | copies are atomic; nobody deadlocks; eviction reports the truth |
| Guest directory and facade, `tvm-guest-mm/src/{directory,facade}.rs` | pools, slots, cursors, one cached placement | create, alloc, read/write, compact in place | regions are disjoint; the cache agrees with the directory |
| Sharded guest, `multi.rs` | id translation tables | forwarding | ids stay in their shard |
| Host, `tvm-wasmtime/src/host.rs`, `tvm-core/src/cache.rs` | a direct-mapped cache of raw pointers | fast read/write, manager operations that invalidate | a cached pointer is never dangling |
| Concurrent host, shared host, `concurrent_host.rs`, `shared_host.rs` | locks around the above | forwarding | as above, across threads |
| Per-actor budgets, `per_actor.rs` | outstanding bytes per actor | alloc/dealloc with accounting | the account equals what the actor holds |
| Imported regions, `imported.rs`, `memory_factory.rs`, `runtime_persist.rs` | regions that are wasm memories | attach, read/write, persist | handles go to the right memory |
| Guest shell, `tvm-guest-mm/src/{dispatch,module}.rs` | none: emits a module with pools and helpers | typed loads and stores by search, by table and per pool; copies that grow a pool; SIMD reducers | every route reaches the pool asked for; vector loop and tail give one answer |
| Raw linkers and bindings, `raw_linker*.rs`, `wasmos_bindings.rs` | the last error code, a cached view of the guest's memory | 26 imports, offered by four registrars | the registrars agree; one integer carries result and error |
| Static linker, `tvm-guest-mm-link` | the import walk and the module emitted so far | rewriting wasm indices, merging names, emitting sections | references keep their targets |
| Web TVM, `web/tvm-web/src/{tvm,directory}.ts` | spans in pools, residency, a byte budget | evict, promote with awaits | budget kept, bytes survive |
| Web channel, `sync-channel.ts`, `opfs-worker.ts`, `opfs-backend.ts` | a shared buffer with a state word; requests in flight, files | request/serve with `Atomics.wait`; requests by `postMessage` | every request is answered once, with its own bytes |

**Interactions.** The concurrent directory restates the directory's bodies under
finer locks. Both use the allocators and the backing store. The host puts its
pointer cache before a directory; the raw linkers and per-actor hosts call the
host. The guest directory reuses the allocators of `tvm-core` and reaches pool
bytes through generated dispatch code, which the static linker merges with the
user's module. The web parts restate the design in TypeScript, talking to a
worker by messages or over the channel.

**Hard behaviours.** I/O failing half-way or an async spill dropped at its await;
files of an earlier spill still lying about; a 16-bit generation that wraps;
handles kept over compactions; locks of two regions at once; eviction decided on
a snapshot that other threads invalidate; a cache in front of moving data; blocks
sliding over each other in place; ids spent by failed calls; one wrong count that
shifts every index of a merged module; vector loops with tails; results and errors
in one integer; evictions and reloads that overlap at awaits; notifications that
arrive late. PROJECT.json lists
them as hazards, each at its line with the properties that would catch it.

## 2. Modules

### RegionDirectory (`directory.rs`, `backing.rs`)

One action per operation that changes the directory; the name is the method's.
`regions[r]` is the slot (`NoEntry` after destroy), `memory = NoMemory` is
`memory: None`, `store` maps (id, generation) to a file. The bytes of a region
are one value of `Contents`: the model asks *which* bytes a region holds, and
what happens inside a region is the subject of RegionHeap. `Torn` is a file cut
short; writing a file truncates first, so a failed spill leaves the old file, or
a torn one. An async spill whose future is dropped may also leave a whole one
(`spill_region_async`). `LastGen` stands for 65535, so that wrap-around happens.

Three history variables make the properties sayable: `logical[r]`, the bytes a
caller is entitled to read; `era[r]`, the number of bumps without wrap; and
`mishaps[r]`, the three events after which the code itself no longer vouches for
the bytes (an interrupted spill; `load_region` of a region that was not Cold; a
generation bump of a Cold region, which changes the key its file is found under).
Operations that return an error before changing anything are not steps.

### Allocators, RegionHeap, HeapSpec (`allocator.rs`, `memory_region.rs`, compaction)

`Allocators` has the three allocators as operators on their state, with the u32
overflow checks (`MaxU32`). `RegionHeap` is one region with an allocator and a
byte array, callers that allocate, write, free, and compaction that packs live
blocks, bumps the generation and returns a remap. Callers are well behaved: they
write inside their block and free what they hold; they may keep a stale handle,
and may migrate late. The generation wraps after `LastGen`, skipping 0, so a handle
or a remap kept for `LastGen` compactions comes back into force: the code cannot tell
it from a current one. Handles and remaps therefore carry the number of compactions
they date from (`era`, a history variable), and `misled` records that one of an earlier
wrap was obeyed. `HandlesReadBack` claims a handle's bytes while it is younger than
that (`Fresh`) and nothing was `misled`.

`HeapSpec` is the abstract promise, in terms of the live blocks alone: what each call
may do to them. `ImplementsPromise` compares every call of each of the three allocators
with it, one by one: an alloc with *its* size and alignment, a free with the block of
its handle, a compaction, and nothing for the rest. The live blocks are the freelist's
and the slab's own books (`LiveBlocks`); a bump allocator has none, so there they are
what its callers hold. A slab ignores the alignment (`Honoured`).

### ConcurrentDirectory (`concurrent.rs`, `eviction.rs`)

A call is a sequence of steps. `entry_arc` clones the entry's Arc under the
slots' read lock; the body then runs under the entry's mutex, possibly after the
region was destroyed; the LRU list is updated in a step of its own. A body that
takes one mutex is one step (nothing it touches is visible without that mutex).
A copy between two regions locks both in ascending order, reads, writes and
unlocks: four steps. `demote_until` lists the entries one lock at a time, plans,
and then spills one candidate at a time; it keeps its progress in `frame`, its
nested spill in `call`. `alloc_or_demote` runs it between two allocs. `used` of a
region counts allocations of unit size.

Fairness is `WF` of the steps of a thread that is inside a call: the operating
system schedules a runnable thread, and nothing in a body waits for anything but
a mutex. No fairness is assumed of threads that could start a call. Weak fairness
suffices for mutexes here because the number of calls is bounded; a fair mutex is
not claimed. Lock poisoning (a panic under a lock) is left out.

### GuestDirectory (`tvm-guest-mm/src/{directory,facade}.rs`, `dispatch.rs`)

Regions are carved from pools split in a Hot and a Warm band, each with a
round-robin cursor; `slots[k]` is the entry that a lookup of id k finds, so the
drift of ids against slots after a failed creation is in the model. The facade
caches the last placement (`cache`). Compaction slides blocks inside the pool,
lowest first, one `memory.copy` each. Callers compact through the facade, not
behind it with `directory_mut()`, and access their blocks at the block's length.
The generation of a region wraps as in the heap, with `era` per region and `misled`.

### TvmHost (`host.rs`, `cache.rs`, `region_view.rs`, `shared_host.rs`)

Extends RegionDirectory: a call of the host is a directory operation together
with what it does to the resolve cache. A slot of `cache` holds what `CacheSlot`
holds; `data_ptr` is `"null"`, `"live"` (the region's current buffer) or
`"dangling"` (a buffer that was freed or replaced since), `"leaked"` if it was
`TvmSpill` that freed it. `Freed` marks the addresses of a region whenever its
buffer goes; whether a slot is still there to be marked is what the property is
about. `ManagerHost` calls drop the slot first and may then fail (`Refused`).
`BytesHost` calls fault regions in without touching the cache. `fast_read` and
`fast_write` follow the slot. Following an address that is not live, or reading
past a buffer restored from a torn file, is undefined behaviour: `ub` is set and
the model says nothing more. `SharedTvmHost` holds one mutex for a whole call, so
calls from several stores are the same steps.

### Wasm, GuestShell, Linker (`tvm-guest-mm-link/src/lib.rs`, `dispatch.rs`, `module.rs`)

`Wasm` is a module as the linker sees it: sections in order, index spaces with
imports first, an instruction as an operator with the indices it carries, and the
parser that captures them. `GuestShell` is what `tvm_guest_mm_module_template`
emits: for each helper the instructions of its body, a search over pools as a
guarded list of arms, the tables of the indirect dispatchers. `Linker` is
`link_with_options`, one action per import walked and one per section emitted, in
the code's order; `walk` is what the import walk recorded, `out` the sections
written, `pc = "failed"` a `bail!`. Entities carry an identity (`id`) that no
index depends on, so that "refers to the same thing" can be said. Operators
without an index are forwarded; how they are encoded is left to `wasm_encoder`.
User modules use neither `elem.drop` / `table.init` nor block types that name a
type (see the observations).

### ShellMemory (`dispatch.rs`)

Runs the shell's helpers on pools of bytes. The sizes of wasm become constants:
`AddrSpace` for 2^32 (`$end` wraps there), `PageSize` for 64 KiB, `Lanes` for 16,
`ByteMod` for 256. Which instructions run for a pool comes from `GuestShell`, so a
wrong arm and a wrong memory immediate both show. The reducers are vector part
and tail, as emitted. `max_pages` is chosen from `PageLimits`, which includes the whole
address space, the default of `ModuleParams`. The user's module may grow pool 0, its own
memory (`memory_grow`); the other pools grow only in copies.

### RawHost, RawLinker (`raw_linker.rs`, `raw_linker_wasmos.rs`, `host.rs`, `handle.rs`)

`RawHost` has the host methods behind the raw imports on regions of a few bytes
(base `Base`, u32 lanes of `LaneBytes` bytes, 64-bit handles packed from fields of
reduced width). `RawLinker` has every import of the four registrars: native,
shared (`raw_linker.rs`), dynamic and typed (`raw_linker_wasmos.rs`), each as a
map from what a call sees to what it leaves. Where the registrars' code is the
same up to the host's guard, they share a handler; where it differs (reads and
writes, error codes, gathers) each has its own. The state between calls is the
regions, `last_raw_error`, the cached view of the guest's memory, and the guest
memories. The guest grows its memory; the embedder moves a region out and in.
Arguments are the non-negative half of i32, and native reads and writes stay
inside the guest's memory, because the native handler never compares its range
with the refreshed size (the comment at `raw_linker.rs:238` takes that as done).

### WebTvm (`web/tvm-web/src/{tvm,directory,pools,policy}.ts`, `opfs-*.ts`)

JavaScript runs to the next await: each public method of `Tvm` is cut there, and a
call in progress is a task. `inbox`, `open` and `replies` are the requests posted
to the OPFS worker, those with a file open and the answers on their way; the
worker's own awaits let requests for different files overlap. A second access
handle on an open file is refused, which is how the browser works. File
operations may fail (`MaxFaults`), a failed write leaving a torn file. Each write
stores a new version, so that stale bytes are told from current ones. A caller
waits for a promote before it asks for another of the same region and stops using
a closed `Tvm`.

### SyncChannel (`sync-channel.ts`)

Client and server on the shared header, one step per atomic access; GEN, which no
property tells apart, is left out. A region has one length, so LEN is that or 0, which is
what a load and a delete post; both sides take LEN bytes of the payload. `Wait` blocks
only if SIGNAL has the expected value at that moment; a notify wakes whoever
sleeps, whatever SIGNAL holds by then, as the language defines it.

## 3. Runs

| Run | Question | Bounds |
|---|---|---|
| `directory_tiering` | do bytes, LRU list and eviction survive any order of tier moves? | 2 regions, 3 policies, no bumps |
| `directory_generations` | what do wrap, bumps and compaction do to handles and files? | 1 region, generations 1..2, 3 bumps: wraps |
| `heap` | do the allocators keep their books, the abstract promise and the bytes? | 3 bytes, u32 range 0..4, sizes 0..3, alignments 0..4, 3 handles, 2 values, generations 1..2, 2 compactions: wraps |
| `concurrent_access` | bytes, atomic copies and no deadlock | 2 threads x 2 calls, 2 regions, 7 operations |
| `concurrent_eviction` | do pins, reports and spill choices hold under eviction? | 2 threads x 2 calls, up to 2 regions, 8 operations |
| `guest` | are regions disjoint, is room always found, do handles read back through the cache and over compaction? | 3 pools of 4, up to 5 regions, 2 handles, generations 1..2, 2 compactions of one region: wraps |
| `host_cache` | does the fast path see what the directory sees? | 2 regions in 1 cache slot, 1 compaction, mishaps in one of them (`Troubled`), with and without a store |
| `link` | does every reference of a merged module mean what it meant? | shells of 1 to 3 pools, every sequence of up to 3 imports of 8 kinds; 3 pools with variants: start, aliases, names, large memories, refusals |
| `shell_memory` | do helpers reach their pool, reducers answer, copies grow? | 1 to 3 pools of up to 3 or 4 pages of 2 bytes, addresses 0..7, vectors of 2 lanes, 2 calls before |
| `raw` | do the four registrars agree, and are their answers true? | 2 regions of 4 bytes, guest memory of 1 to 2 pages of 8, one changing call before, every import with every argument of small sets |
| `web` | do spans and bytes survive overlapping evictions and reloads? | 1 pool of 4, 3 regions, 5 async calls, 1 failure |
| `web_channel` | *violation*: a load returns its own region's bytes | 2 regions, 2 contents |

**Why the bounds suffice.** Tiering: operations touch one region, the LRU list
couples any two, a copy couples two; with two regions every pair of positions in
the list occurs. Generations: two generations make the wrap (and the reuse of a
file's key) happen after two bumps, the third bump is past it. Heap: three bytes
hold two blocks with a gap at any place between or beside them, or three without, and
`MaxU32 = Capacity + 1` puts the overflow checks within reach; two compactions reach the wrap, and without
`Fresh` or without `misled` TLC finds `HandlesReadBack` violated there. Concurrency: the locking involves at most two
mutexes and two threads, and a spill / load / write / load sequence needs four
calls. Guest: three pools give an uneven split in bands, and wrap both cursors;
blocks are used while there is one region or two that fit a pool with room left,
and more regions are created only before any block is (`WorkedRegions`), since
placement never looks at blocks and blocks only at their own region. Of two regions
with blocks only one compacts, and once. `Bounds` ends a behaviour once it is `misled`,
after which nothing is claimed. Host: slots
do not interact except when two regions collide in one, so one slot and two
regions show both; compaction and failing spills are confined to one region
(`Troubled`), the other one competes for the slot. Link: three imports give every
order of a rewired, a forwarded and another import, so holes before, between and
after; each user module refers to every index it has. Shell: two lanes give
ranges below, at and above a vector with every tail; three pools make the search
uneven. With four pages a pool may fill the address space, and the round-up of
auto-grow wraps; with three it stays below. Raw: properties quantify over every call in every state, so one changing
call before reaches every pair of calls. Web: in one pool of four, two regions
are freed in both orders, merged and reused by a third, and a creation or reload
finds no room; the choice among several pools is the guest directory's, checked
there. Five calls are two creations, an eviction, a creation in its place and a
reload.

Deadlock checking is off in all runs but `raw`: the programs may stop (callers
stop calling, a link ends), and the bounds on calls, ids and handles make the
models stop. That a
thread never gets stuck inside a call is `EveryCallReturns`, under fairness.

**What is checked.**

- `BytesSurvive` (both directories): unless a region met a mishap, a faulting read
  finds the bytes last written or copied to it.
- `LruSound`, `EvictionFindsWarm`: the list has no duplicates, names no dead, Cold
  or External region, and eviction finds a victim while an unpinnable Warm region
  exists.
- `HandlesExact`: a handle is accepted exactly if the number of bumps since it was
  issued is a multiple of 65535.
- `PinnedStaysResident` (both): no spill takes a pinned region's memory, also not
  one planned before the pin.
- `FreelistTiles`, `NoFalseFailure`, `FreesOnlyLive`, `CompactionDefragments`,
  `ImplementsPromise`: the free list tiles the region, allocation fails only when
  it must, double frees are refused, compaction leaves one gap, and each call of each
  allocator does to the live blocks what `HeapSpec` says of that call.
- `HandlesReadBack` (heap and guest): a handle that passes the generation check
  reads back what its owner wrote, unless it is as old as a wrap of the generation or
  a handle or remap as old was used before.
- `CopyIsAtomic`, `EveryCallReturns`: copies between regions, and no deadlock.
- `ReportExact`, `NoNeedlessSpill`: an undisturbed `demote_until` tells the truth
  and spills no more than needed, Warm before Hot.
- `RegionsDisjoint`, `PlacementComplete`, `CacheCoherent`: the guest's placement.
- `FastPathSound`: a cached address is that of the region's current buffer under
  its current generation, so a hit decides as the directory would; with
  `BytesSurvive` over fast and slow accesses. Addresses left behind by `TvmSpill`
  are excepted (see below).
- `CodeFollows`, `SectionsFollow`, `NamesFollow`, `PoolZeroFits`: the merged module
  parsed again refers, entity by entity, to what its inputs referred to, the shell's
  start function included; names belong to what they name; pool 0 is a valid memory with the user's pages.
- `HelpersReachTheirPool`: after linking, whatever was put in front, each
  dispatcher still touches the pool it is called for and traps past the last.
- `RoutesAgree`, `ReducersExact`, `AutoGrowReaches`: what the helpers do to bytes. The
  last says for which ends a copy into a pool arrives: all within `max_pages`, but for
  the last page of the address space, which no copy grows to.
- `SameEffect`, `AnswersTrue`, `GatherExact`, `FailureNotForgotten`: the raw imports.
- `SpansTile`, `WebBytesSurvive`: below the bump mark every byte belongs to one
  resident region or one merged free span; a region's last write is in memory, in
  its file, or in the spill under way, unless a spill of it was reported failed.

Each has a mutant in PROJECT.json: a plausible bug in the code, written next to
the definition it replaces, under which TLC finds the property violated.

**What the violation run shows.** Neither side of `sync-channel.ts` looks at SIGNAL
again after `Atomics.wait` returns. The server posts the answer to a spill (line 144)
and notifies (145); between the two the client may see the answer, finish, and post
and wait for its next request, a load of the same region. The notify then ends that
wait at once. STATUS is still that of the spill, LEN is the 0 the load posted itself
(92), and so the load returns an empty array, though the region's bytes are in the store
(a spill or delete ended in this way returns as done, unserved). The comments promise
"block until SIG_RES" (:95) and "exactly one already-posted request" (:123). A loop
around each wait would close it.

**Other observations made while modelling**, not kept as runs:
`load_region` on a Warm region replaces resident bytes by an old file
(`directory.rs:482`, the mishap `load_not_cold`); the guest facade checks accesses
against the pool, not the region (`facade.rs:230`); `resolve` may report a region
as not resident after a fault brought it in (`host.rs:963`), although
`cache.rs:7-8` says entries are verified on a hit; the LRU list may
name Hot regions after `load_region` or `restore_region` (`directory.rs:49` calls
it the Warm list); eviction stops at the first candidate whose spill is refused
(`directory.rs:377`); `target_met` is computed from the snapshot and may be wrong
when other threads allocate meanwhile (`eviction.rs:74`, `concurrent.rs:464`); the
guest facade's `unpin` does nothing (`facade.rs:280`).

Further ones, which the models carry or leave aside as said:

- *Directory.* `directory.rs:170` and the async spill take the memory before the
  store answers: after an I/O error a Hot region has no bytes, though
  `docs/architecture.md:134` says "resident, normal access." (mishap of
  `BytesSurvive`).
- *Host.* `TvmSpill::spill` and `load` on a `TvmHost` (`host.rs:823`) do not
  invalidate the resolve cache, against `cache.rs:23-25`; the next fast access
  follows a freed address.
- *Allocators.* A slab ignores the alignment of the call (`allocator.rs:37-43`, 266), and
  compaction packs blocks without regard to the alignment they were allocated with.
- *Generations.* A handle kept over 65535 compactions is accepted again
  (`directory.rs:247-251`), and so is a remap by `migrate`; the bytes may be anyone's.
- *Guest.* `next_id` is spent before `choose_pool` can fail
  (`tvm-guest-mm/src/directory.rs:124`), so ids and slots drift after one failure,
  against the comment on line 123.
- *Linker.* `elem.drop` and `table.init` keep the user's segment numbers although
  the shell's segments come first (`lib.rs:1545-1551`); block types that name a type
  are not renumbered (2007-2015); nor are element and data names, data indices of
  bulk operations, or `ref.func` in a global's initialiser. Two aliases of one name,
  or a user export named as one of the shell's, give a module with a duplicate
  export. Global and table imports from `tvm_mm` are forwarded.
- *Shell.* `($end + 65535) >> 16` wraps for an end in the last page of 4 GiB
  (`dispatch.rs:713`, 955), so no copy grows a pool to that page and a copy that ends
  there traps unless the pool has it already; one that ends at 2^32 always traps
  (143-147). `max_pages` is 65536 by default, and the doc at `dispatch.rs:121-130`
  promises up to `max_pages` worth of bytes: `AutoGrowReaches` states the exception. The byte
  operand of `simd_count_byte` and `simd_find_byte` is compared as 8 bits in the
  vector loop and as 32 in the tail.
- *Raw linkers.* `index_of` answers 7 (`ERR_GUEST_MEMORY`) for a needle outside the
  guest's memory, which reads as an offset; a refused needle length leaves no error
  code; registrars give different codes when a handle is stale and its region not
  resident, or when range and handle are both bad; only the wasmos registrars stash
  the code of a failed read or write; one `last_error` serves all stores of a shared
  host.
- *Web.* `directory.ts:50` says of the bump mark "only ever grows", but `freeSpan` lowers
  it when the last span is free (338-342), as the model does. Two overlapping promotes of one region lose a write made between them; a
  region whose pool never grew to it becomes Cold without a file when evicted, since
  `readRange` throws after `markEvicted`, and a `createRegion` that evicted it is
  rejected; two concurrent creations both pass the soft budget; a failed growth after
  `prepareReload` leaks the span.
- *Actors.* `per_actor.rs` checks the budget and charges it in two steps, and
  nothing is credited back for compaction or destroyed regions.

## 4. Proofs

The theorems hold for every value of the constants: any number of regions, threads,
pools and cache slots, any capacity, any generation width and any number of calls.
`Spec => []P` follows the same argument everywhere: an inductive invariant that
implies `P`, one lemma per action that it is kept, and one temporal step.

| Module | Theorems | The inductive invariant, and why `P` alone is not one |
|---|---|---|
| `RegionDirectory_proofs` | `TypeCorrect`, `BytesSurviveTiering`, `HandlesAcceptedExactly`, `PinHonoured`, `WarmListSound`, `EvictionWorks` | `IInv`: types, `Safe` (the bytes are in memory or in the file of the present key) and `Fresh` (ids not handed out carry no history). `GenInv` ties the wrapped generation to the number of bumps: `HandlesExact` speaks of handles only, and a bump moves the generation they are compared with. `LruInv`: no duplicates on the list, and for each region what `Kept` says: every Warm region that cannot be pinned is on it, and Hot and Warm regions have memory. Without it the scan might find nothing, or a victim whose spill is refused. |
| `ConcurrentDirectory_proofs` | `ConcurrentBytesSurvive`, `CopyAtomic`, `PinHonoured`, `CopiesNeverDeadlock`, `ReportsExact`, `SpillsAsNeeded` | `Inv`: `WarmUnspilled` (a Warm region has no file that a load could bring back), `Locked` (which mutexes a copy holds at each of its steps, and that what it read is still there) and `Held` (nobody else keeps a mutex between steps). `PlanInv`: while no other thread meddles, what `list_regions` has read is what is the case and the rest is still to be read (`Listing`); the plan then counts the resident bytes, holds every Warm region that can be spilled, Warm before Hot, and none twice (`Spilling`). The report speaks of a count kept over many spills; only with the plan can it be compared with what is resident. |
| `GuestDirectory_proofs` | `GuestTypeCorrect`, `PlacementSafe`, `PlacementFindsRoom`, `CacheIsCoherent`, `StaleHandlesRefused`, `GuestHandlesReadBack` | `IInv`: `Placed` (every region lies below its pool's `used`, where the next one starts) and `CursorsInBand` (only then does going round a band meet every pool). `CacheCurrent` adds the generation to the cache entry: a hit is decided by it. `Dated`: a generation is the number of compactions, wrapped (`Wrap`), and no handle or remap is from the future. `Followed`: unless `misled`, there is a map `at`, as in the heap, now from region, era and offset, through which every handle's block holds its value (`Owned`), remaps agree with it (`Traced`) and the regions' books balance (`Balances`). |
| `TvmHost_proofs` | `FastPathIsSound`, `HostBytesSurvive` | `HostInv`: the directory's `IInv`, the cache is direct-mapped (`Direct`), a region has memory only while Hot or Warm (`Placed`), and `FastPathSound`. A call may drop only the slot its region maps to, so `Direct` is what makes the drop complete. The directory's step lemmas are cited again. |
| `RegionHeap_proofs` | `HandlesAlwaysReadBack`, `OnlyLiveBlocksFreed`, `FreelistAlwaysTiles`, `NoGapMissed`, `CompactionAlwaysDefragments`, `AllocatorsKeepPromise` | `Inv`: unless `misled`, there is a map `at` from an era and an offset of then to the offset the block has now. It agrees with every remap (`Traced`); through it the handles hold blocks apart from each other with what was written there (`Kept`), and they match the allocator's live blocks one to one (`Booked`); the generation is the era, wrapped. Once `misled`, only the freelist's own books are left (`Adrift`), which is why `FreelistTiles` and the others need no exception. A stale handle says nothing about where its block is, so no invariant over current handles alone survives a late migration. |
| `WebTvm_proofs` | `WebInvariant`, `WebSpansAlwaysTile`, `WebWritesSurvive` | `WebInv`: the regions' places and the free spans, byte by byte (`Tiled`), and where the last write of each region is (`BytesLatest`). The second needs the order of requests: the worker holds a region's spills before its loads (`Channel`), a load that has its file open has no spill left before it (`SpillsFirst`), and each request belongs to one call, while a region being promoted stays Cold and is promoted once (`CallsMatched`). Without these a load could bring back what an earlier spill wrote. |
| `Allocators_proofs`, `TvmLemmas` | lemmas | see below |

`CopiesNeverDeadlock` and `StaleHandlesRefused` state what no run lists by itself: that
some holder of a mutex can always go on (the safety half of `EveryCallReturns`), and
that the facade, which on a hit asks the directory nothing, accepts a handle exactly when
it is a multiple of `LastGen` compactions old, the wrap and nothing else.

`Allocators_proofs` is about the operators of `Allocators`. `Balanced(a, C)` says that
the books of a freelist over C bytes are right; allocation, free and rebuild keep it.
The steps are lemmas on sorted block lists: taking part of a block, inserting at
the partition point, merging with either neighbour. `AllocFindsGap` shows that first
fit, with its early return, misses no aligned gap. `PackedApart`, `PackedNext` and
`PackedTotal` show that packing keeps blocks apart, in order and of the same sum.
`Racked` does the same for the slab. Sums over sets are folds, so what they compute
needs induction. The library's induction theorems take an operator and cannot be
instantiated here; `NaturalsIn` and `SubsetsIn` (in `TvmLemmas`) state induction on *sets* (a set that
holds 0 and successors holds every natural; a family closed under adding one element
holds every finite set), and the provers can apply those. From them `TvmLemmas` has what
a sum over a finite set is worth (`SumType`, `SumRemove`, `SumReindex`), and that a
finite set with a total order can be listed in it (`OrderedExists`), which is what a
`CHOOSE` of a sorted list needs.

`ReportsExact` and `SpillsAsNeeded` use both: the bytes of the list add up to those of
the regions, whatever order it is in (`PlanTotal`); each tier's candidates can be sorted
by `within_tier_cmp`, whichever of its three orders is configured, and the sorted list
holds each of them once (`CandidatesElements`); and a spill takes exactly its region's
bytes out of the sum (`SpilledBytes`), so `current` keeps pace.

`AllocatorsKeepPromise` is the refinement, call by call: an allocation takes bytes no
live block has, for the freelist because its free block had them (`Gained`), for the slab
because the slot was on the stack, for a bump allocator because they lie above its mark;
a free removes one block, a compaction is witnessed by the packed offsets, and every
other step leaves the live blocks alone.

`GuestHandlesReadBack` rests on `SlidMoves`: the guest compacts by `memory.copy` inside
the pool, where source and target may overlap each other and the next block's source.
By induction over the blocks already moved, those end at or below where the next one
starts, so it is still whole when its turn comes, and its target lies above theirs.

`WebSpansAlwaysTile` rests on what `freeSpan` computes: it sorts the spans and joins
neighbours, which the model writes as a fold that puts the highest span last. By
`SubsetsIn`, the fold over any set of disjoint spans gives a list that is in order,
touches nowhere and holds exactly their bytes; taking the tail below the bump mark
back into it then loses none. Every other
step moves no region (`SpansKept`) or carves one span (`SpanPlaced`).

**Assumptions.** Those named `...Assumption` in the modules, evaluated by TLC in every
run: sentinels are not contents, bounds are naturals, policies have the shape of
`PlacementPolicy`, a region's capacity is a u32, requests are naturals, a region
starts with one of the three allocators, new, as `create_region` makes them
(`KindsAssumption`), and in the web a region has at least one byte and one that starts
Warm may be spilled, as every policy of `policy.ts` has it.

**Only model-checked.** `EveryCallReturns`, which is liveness. The linker,
the shell and the raw imports: the parser is a fold over the sections, the shell needs
`Bitwise`, which is closed to the prover, and the raw imports are a finite table that
TLC enumerates.

## 5. Not modelled

Metrics, debug dumps and error text; the component-model bindings
(`wasmos_bindings.rs`, `bindings.rs`), which marshal the host calls that are
modelled; `SingleFileBackingStore`; the sharded guest, which forwards each call to
one guest directory; the concurrent host, which forwards to the concurrent
directory; per-actor budgets; imported regions, whose bytes the guest changes
without a call; the guest runtimes (wrappers over imports); WASI spill helpers;
the benchmark framework; lock poisoning.

**Plan for later work.**

1. **Actors** (accounting across a shared host) and **MultiGuest** (id
   translation).
2. **Imported regions**, as far as the host alone decides.
