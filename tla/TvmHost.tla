------------------------------- MODULE TvmHost -------------------------------
(***************************************************************************)
(* The host around a region directory (crates/tvm-wasmtime/src/host.rs)    *)
(* with its direct-mapped resolve cache (crates/tvm-core/src/cache.rs).    *)
(*                                                                         *)
(* A slot of the cache remembers a region's generation, whether it was     *)
(* resident, and, once fast_read or fast_write missed, the raw address of  *)
(* its bytes.  On a hit the fast path asks the directory nothing, so every *)
(* call that frees or replaces a region's buffer has to drop the slot.     *)
(*                                                                         *)
(* Every call takes &mut self, or the one mutex of SharedTvmHost, for its  *)
(* whole length: a call is one step.  Guests pass addresses inside their   *)
(* own memory.  last_raw_error is left out: nothing in the host reads it.  *)
(***************************************************************************)
EXTENDS RegionDirectory

CONSTANTS
  CacheSlots,   \* CACHE_SLOTS: 8 in the code
  NoSlot,       \* a slot whose valid flag is off
  Troubled      \* bound: the regions that are compacted or meet a mishap

ASSUME CacheSlotsAssumption == CacheSlots \in Nat \ {0}

VARIABLES
  cache,     \* the slots of the ResolveCache
  backing,   \* whether the host was built with a backing store
  ub         \* history: freed memory was accessed; nothing is said after

host == <<cache, backing, ub>>

Slots == 0..(CacheSlots - 1)
CacheSlot == [region : Ids, generation : Gens, resident : BOOLEAN,
              data_ptr : {"null", "live", "dangling", "leaked"}]

ASSUME NoSlotAssumption == NoSlot \notin CacheSlot

-----------------------------------------------------------------------------
(* ResolveCache *)

SlotOf(r) == r % CacheSlots

lookup(r) == cache[SlotOf(r)] # NoSlot /\ cache[SlotOf(r)].region = r

LookupAnyRegion(r) ==   \* mutant: the slot's region_id is not compared
  cache[SlotOf(r)] # NoSlot /\ cache[SlotOf(r)].data_ptr # "null"
lookup_fast(r) == lookup(r) /\ cache[SlotOf(r)].data_ptr # "null"

install(r, ptr) ==
  [cache EXCEPT ![SlotOf(r)] =
     [region |-> r, generation |-> regions[r].generation,
      resident |-> regions[r].residency \in {"Hot", "Warm"}, data_ptr |-> ptr]]

InvalidateNothing(r) == cache     \* mutant: the slot survives
invalidate(r) == IF lookup(r) THEN [cache EXCEPT ![SlotOf(r)] = NoSlot] ELSE cache

(* The region's buffer is freed or replaced: an address still cached for   *)
(* it now points to freed memory ("leaked" when TvmSpill did it).          *)
Freed(c, r, mark) ==
  [s \in Slots |-> IF c[s] # NoSlot /\ c[s].region = r /\ c[s].data_ptr = "live"
                   THEN [c[s] EXCEPT !.data_ptr = mark] ELSE c[s]]

HostInit ==
  /\ Init
  /\ cache = [s \in Slots |-> NoSlot]
  /\ backing \in BOOLEAN
  /\ ub = FALSE

-----------------------------------------------------------------------------
(* The fast path *)

resolve(r) ==
  /\ ~lookup(r)
  /\ Live(r)
  /\ cache' = install(r, "null")
  /\ UNCHANGED <<vars, backing, ub>>

(* The cache as fast_read and fast_write leave it: on a miss refresh_cache *)
(* asks the directory, which refuses a region without memory.              *)
refresh_cache(r) == IF lookup_fast(r) THEN cache ELSE install(r, "live")
FastHit(r) == refresh_cache(r)[SlotOf(r)]
FastReaches(r) == lookup_fast(r) \/ Resident(r)
FastAccepts(h) == FastHit(h.region).generation = h.generation /\ FastHit(h.region).resident

(* The bytes are read and written where the slot points.  A buffer that   *)
(* was restored from a torn file is shorter than the capacity the bounds   *)
(* check uses.                                                             *)
FastFaults(h) == LET hit == FastHit(h.region)
                 IN hit.data_ptr = "live" => regions[hit.region].memory = Torn

fast_read(h) ==
  /\ FastReaches(h.region)
  /\ cache' = refresh_cache(h.region)
  /\ ub' = (FastAccepts(h) /\ FastFaults(h))
  /\ UNCHANGED <<vars, backing>>

fast_write(h, c) ==
  LET hit == FastHit(h.region)
  IN /\ FastReaches(h.region)
     /\ FastAccepts(h)
     /\ cache' = refresh_cache(h.region)
     /\ \/ FastFaults(h) /\ ub' = TRUE /\ UNCHANGED vars
        \/ /\ ~FastFaults(h)
           /\ regions' = [regions EXCEPT ![hit.region].memory = c]
           /\ logical' = [logical EXCEPT ![h.region] = c]
           /\ UNCHANGED <<len, warm_lru, io, handles, era, mishaps, ub>>
     /\ UNCHANGED backing

-----------------------------------------------------------------------------
(* ManagerHost: the slot is dropped first, whatever becomes of the call *)

ManagerHost_create_region(p) == create_region(p) /\ UNCHANGED host

ManagerHost_alloc(r) == alloc(r) /\ UNCHANGED host

ManagerHost_pin(r) == (pin(r) \/ unpin(r)) /\ UNCHANGED host

(* The call fails with the directory as it was.                            *)
Refused(r) ==
  /\ lookup(r)
  /\ cache' = invalidate(r)
  /\ UNCHANGED <<vars, backing, ub>>

Done(r, c) == cache' = c /\ UNCHANGED <<backing, ub>>

ManagerHost_destroy_region(r) ==
  \/ destroy_region(r) /\ Done(r, Freed(invalidate(r), r, "dangling"))
  \/ ~Live(r) /\ Refused(r)

ManagerHost_promote_region(r) ==
  \/ /\ backing
     /\ promote_region(r)
     /\ Done(r, IF regions[r].residency = "Cold" THEN Freed(invalidate(r), r, "dangling")
                ELSE invalidate(r))
  \/ ~(backing /\ Live(r) /\ regions[r].residency = "Warm") /\ Refused(r)

CanDemote(r) ==
  /\ Live(r)
  /\ ~regions[r].pinned
  /\ regions[r].spillable
  /\ \/ regions[r].residency = "Hot"
     \/ regions[r].residency = "Warm" /\ regions[r].memory # NoMemory

ManagerHost_demote_region(r) ==
  \/ /\ backing
     /\ demote_region(r)
     /\ Done(r, IF regions[r].residency = "Warm" THEN Freed(invalidate(r), r, "dangling")
                ELSE invalidate(r))
  \/ ~(backing /\ CanDemote(r)) /\ Refused(r)

ManagerHost_spill_region(r) ==
  \/ backing /\ spill_region(r) /\ Done(r, Freed(invalidate(r), r, "dangling"))
  \/ ~(backing /\ CanSpill(r)) /\ Refused(r)

(* A load can fail for its I/O alone, and compact_region because the       *)
(* region's allocator cannot be compacted.                                 *)
ManagerHost_load_region(r) ==
  \/ backing /\ load_region(r) /\ Done(r, Freed(invalidate(r), r, "dangling"))
  \/ Refused(r)

ManagerHost_compact_region(r) ==
  \/ compact_region(r) /\ Done(r, Freed(invalidate(r), r, "dangling"))
  \/ Refused(r)

-----------------------------------------------------------------------------
(* BytesHost and the facade: the cache is not touched *)

BytesHost_read(h) ==
  /\ backing
  /\ read_or_fault(h)
  /\ Done(h.region, Freed(cache, h.region, "dangling"))

BytesHost_write(h, c) ==
  \/ ~backing /\ write(h, c) /\ UNCHANGED host
  \/ /\ backing
     /\ write_or_fault(h, c)
     /\ Done(h.region, IF regions[h.region].residency = "Cold"
                       THEN Freed(cache, h.region, "dangling") ELSE cache)

(* copy, read_into and write_from validate one or both ends by a handle    *)
(* and then do what copy_region does: their steps are among these.         *)
BytesHost_copy_region(src, dst) == cross_region_copy(src, dst) /\ UNCHANGED host

(* RegionView writes into the region's slice without a handle.  So do      *)
(* region_fill and the xor family, after validating one.                   *)
RegionView_write(r, c) ==
  /\ Live(r)
  /\ regions[r].memory \in Contents
  /\ regions' = [regions EXCEPT ![r].memory = c]
  /\ logical' = [logical EXCEPT ![r] = c]
  /\ UNCHANGED <<len, warm_lru, io, handles, era, mishaps, host>>

(* impl TvmSpill: the same moves without an invalidation.                  *)
TvmSpill_spill(r) ==
  /\ backing
  /\ spill_region(r)
  /\ cache' = Freed(cache, r, "leaked")
  /\ UNCHANGED <<backing, ub>>

TvmSpill_load(r) ==
  /\ backing
  /\ load_region(r)
  /\ cache' = Freed(cache, r, "leaked")
  /\ UNCHANGED <<backing, ub>>

(* tvm.alloc of the raw linker.                                            *)
raw_alloc(r) == alloc(r) /\ Done(r, invalidate(r))

HostStep ==
  \/ \E p \in Policies : ManagerHost_create_region(p)
  \/ \E r \in Ids :
       \/ resolve(r) \/ raw_alloc(r)
       \/ ManagerHost_alloc(r) \/ ManagerHost_pin(r)
       \/ ManagerHost_destroy_region(r)
       \/ ManagerHost_promote_region(r) \/ ManagerHost_demote_region(r)
       \/ ManagerHost_spill_region(r) \/ ManagerHost_load_region(r)
       \/ ManagerHost_compact_region(r)
       \/ TvmSpill_spill(r) \/ TvmSpill_load(r)
       \/ \E s \in Ids : BytesHost_copy_region(s, r)
       \/ \E c \in Contents : RegionView_write(r, c)
  \/ \E h \in handles :
       \/ fast_read(h) \/ BytesHost_read(h)
       \/ \E c \in Contents : fast_write(h, c) \/ BytesHost_write(h, c)

Bound == \A r \in Ids \ Troubled : era'[r] = era[r] /\ mishaps'[r] = mishaps[r]
HostNext == ~ub /\ HostStep /\ Bound
HostSpec == HostInit /\ [][HostNext]_<<vars, host>>

-----------------------------------------------------------------------------
(* Properties *)

(* The fast path decides as the directory would: a cached address is the   *)
(* address of the bytes the region has now, under the generation it has    *)
(* now.  Addresses that TvmSpill leaves behind (it does not invalidate)   *)
(* are excepted.                                                           *)
FastPathSound ==
  \A s \in Slots :
    cache[s] # NoSlot /\ cache[s].data_ptr \notin {"null", "leaked"}
    => /\ cache[s].data_ptr = "live"
       /\ cache[s].resident
       /\ Resident(cache[s].region)
       /\ regions[cache[s].region].generation = cache[s].generation
=============================================================================
