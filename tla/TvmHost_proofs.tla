---------------------------- MODULE TvmHost_proofs ----------------------------
(***************************************************************************)
(* The resolve cache of the host never lets the fast path touch freed or   *)
(* stale bytes, and the directory keeps its promise about bytes under the  *)
(* host's calls, for every number of regions, generations and cache slots. *)
(***************************************************************************)
EXTENDS TvmHost, RegionDirectory_proofs

USE DEF Ids, Gens, Bytes, Memory, Entry, Residency, Policy, Live, Resident, Key, Valid

(* A valid slot of cache c describes a region that maps to that slot.      *)
Direct(c) ==
  /\ c \in [Slots -> CacheSlot \cup {NoSlot}]
  /\ \A s \in Slots : c[s] # NoSlot => SlotOf(c[s].region) = s

(* A region has memory only while it is Hot or Warm.                       *)
Placed(e) == e # NoEntry /\ e.memory # NoMemory => e.residency \in {"Hot", "Warm"}

(* Pointing(c, s): the fast path would follow the address in slot s.       *)
Pointing(c, s) == c[s] # NoSlot /\ c[s].data_ptr \notin {"null", "leaked"}

HostInv ==
  /\ IInv
  /\ Direct(cache)
  /\ \A r \in Ids : Placed(regions[r])
  /\ FastPathSound

-----------------------------------------------------------------------------
(* The cache *)

(* Every region maps to a slot.                                            *)
LEMMA SlotType ==
  ASSUME NEW r \in Ids
  PROVE  SlotOf(r) \in Slots
<1>1. CacheSlots \in Nat \ {0} /\ r \in Int
  BY CacheSlotsAssumption, BoundsAssumption
<1>2. r % CacheSlots \in 0..(CacheSlots - 1)
  BY <1>1, Division, Zenon
<1> QED BY <1>2 DEF SlotOf, Slots

(* install fills the region's own slot from the directory's entry.         *)
LEMMA InstallSlot ==
  ASSUME HostInv, NEW r \in Ids, Live(r), NEW ptr \in {"null", "live"}
  PROVE  /\ Direct(install(r, ptr))
         /\ \A s \in Slots \ {SlotOf(r)} : install(r, ptr)[s] = cache[s]
         /\ LET e == install(r, ptr)[SlotOf(r)]
            IN /\ e # NoSlot
               /\ e.region = r
               /\ e.data_ptr = ptr
               /\ e.generation = regions[r].generation
               /\ e.resident = (regions[r].residency \in {"Hot", "Warm"})
<1>1. SlotOf(r) \in Slots
  BY SlotType
<1>2. regions[r] \in Entry
  BY LiveEntry DEF HostInv, IInv
<1> DEFINE e == [region |-> r, generation |-> regions[r].generation,
                 resident |-> regions[r].residency \in {"Hot", "Warm"}, data_ptr |-> ptr]
<1>3. e \in CacheSlot
  BY <1>2 DEF CacheSlot
<1>4. e # NoSlot
  BY <1>3, NoSlotAssumption
<1>5. install(r, ptr) = [cache EXCEPT ![SlotOf(r)] = e]
  BY DEF install
<1>6. e.region = r /\ e.data_ptr = ptr /\ e.generation = regions[r].generation
      /\ e.resident = (regions[r].residency \in {"Hot", "Warm"})
  OBVIOUS
<1> HIDE DEF e
<1>7. cache \in [Slots -> CacheSlot \cup {NoSlot}]
  BY DEF HostInv, Direct
<1>8. /\ install(r, ptr)[SlotOf(r)] = e
      /\ \A s \in Slots \ {SlotOf(r)} : install(r, ptr)[s] = cache[s]
      /\ install(r, ptr) \in [Slots -> CacheSlot \cup {NoSlot}]
  BY <1>1, <1>3, <1>5, <1>7
<1> QED BY <1>4, <1>6, <1>8 DEF HostInv, Direct

(* invalidate leaves no slot for the region and the others as they were.   *)
LEMMA InvalidateSlot ==
  ASSUME Direct(cache), NEW r \in Ids
  PROVE  /\ Direct(invalidate(r))
         /\ \A s \in Slots : invalidate(r)[s] # NoSlot =>
              invalidate(r)[s] = cache[s] /\ cache[s].region # r
<1>1. SlotOf(r) \in Slots
  BY SlotType
<1>2. cache \in [Slots -> CacheSlot \cup {NoSlot}]
      /\ \A s \in Slots : cache[s] # NoSlot => SlotOf(cache[s].region) = s
  BY DEF Direct
<1>3. \A s \in Slots : cache[s] # NoSlot /\ cache[s].region = r => s = SlotOf(r)
  BY <1>2
<1>4. CASE lookup(r)
  <2>1. invalidate(r) = [cache EXCEPT ![SlotOf(r)] = NoSlot]
    BY <1>4 DEF invalidate
  <2> QED BY <1>1, <1>2, <1>3, <2>1 DEF Direct
<1>5. CASE ~lookup(r)
  <2>1. invalidate(r) = cache
    BY <1>5 DEF invalidate
  <2> QED BY <1>2, <1>3, <1>5, <2>1 DEF lookup, Direct
<1> QED BY <1>4, <1>5

(* Freeing the buffer of r marks the live addresses of r and nothing else. *)
LEMMA FreedSlots ==
  ASSUME NEW c, Direct(c), NEW r \in Ids, NEW mark \in {"dangling", "leaked"}
  PROVE  /\ Direct(Freed(c, r, mark))
         /\ \A s \in Slots :
              IF c[s] # NoSlot /\ c[s].region = r /\ c[s].data_ptr = "live"
              THEN Freed(c, r, mark)[s] # NoSlot /\ Freed(c, r, mark)[s].data_ptr = mark
              ELSE Freed(c, r, mark)[s] = c[s]
<1> DEFINE Hit(s) == c[s] # NoSlot /\ c[s].region = r /\ c[s].data_ptr = "live"
<1>1. c \in [Slots -> CacheSlot \cup {NoSlot}]
      /\ \A s \in Slots : c[s] # NoSlot => SlotOf(c[s].region) = s
  BY DEF Direct
<1>2. ASSUME NEW s \in Slots, ~Hit(s) PROVE Freed(c, r, mark)[s] = c[s]
  BY <1>2 DEF Freed
<1>3. ASSUME NEW s \in Slots, Hit(s)
      PROVE  /\ Freed(c, r, mark)[s] \in CacheSlot
             /\ Freed(c, r, mark)[s].data_ptr = mark
             /\ Freed(c, r, mark)[s].region = r
  <2>1. c[s] \in CacheSlot
    BY <1>1, <1>3
  <2>2. Freed(c, r, mark)[s] = [c[s] EXCEPT !.data_ptr = mark]
    BY <1>3 DEF Freed
  <2> QED BY <1>3, <2>1, <2>2 DEF CacheSlot
<1>4. DOMAIN Freed(c, r, mark) = Slots /\ Freed(c, r, mark) = [s \in Slots |-> Freed(c, r, mark)[s]]
  BY DEF Freed
<1>5. \A s \in Slots : Freed(c, r, mark)[s] \in CacheSlot \cup {NoSlot}
  BY <1>1, <1>2, <1>3
<1>6. Freed(c, r, mark) \in [Slots -> CacheSlot \cup {NoSlot}]
  BY <1>4, <1>5
<1>7. \A s \in Slots : Freed(c, r, mark)[s] # NoSlot => SlotOf(Freed(c, r, mark)[s].region) = s
  BY <1>1, <1>2, <1>3
<1> QED BY <1>2, <1>3, <1>6, <1>7, NoSlotAssumption DEF Direct
-----------------------------------------------------------------------------
(* One step *)

(* A step that replaces the entry of region r keeps the invariant when     *)
(* every address the fast path would follow afterwards is one it had of    *)
(* another region, or the address of the memory that r has now.            *)
LEMMA EntryStep ==
  ASSUME HostInv, IInv', NEW r \in Ids, NEW e,
         regions' = [regions EXCEPT ![r] = e], Placed(e), Direct(cache)',
         \A s \in Slots : Pointing(cache, s)' =>
            \/ cache'[s] = cache[s] /\ cache[s].region # r
            \/ /\ cache'[s].region = r
               /\ cache'[s].data_ptr = "live"
               /\ cache'[s].resident
               /\ cache'[s].generation = e.generation
               /\ e # NoEntry
               /\ e.memory # NoMemory
  PROVE  HostInv'
<1>1. regions'[r] = e /\ \A q \in Ids \ {r} : regions'[q] = regions[q]
  BY DEF HostInv, IInv, TypeOK
<1>2. \A q \in Ids : Placed(regions[q])'
  BY <1>1 DEF HostInv
<1>3. ASSUME NEW s \in Slots, Pointing(cache, s)'
      PROVE  /\ cache'[s].data_ptr = "live"
             /\ cache'[s].resident
             /\ Resident(cache[s].region)'
             /\ regions'[cache'[s].region].generation = cache'[s].generation
  <2>1. CASE cache'[s] = cache[s] /\ cache[s].region # r
    <3>1. Pointing(cache, s)
      BY <1>3, <2>1 DEF Pointing
    <3>2. /\ cache[s].data_ptr = "live"
          /\ cache[s].resident
          /\ Resident(cache[s].region)
          /\ regions[cache[s].region].generation = cache[s].generation
      BY <3>1 DEF HostInv, FastPathSound, Pointing
    <3>3. cache[s].region \in Ids
      BY <3>1 DEF HostInv, Direct, Pointing, CacheSlot
    <3> QED BY <1>1, <2>1, <3>2, <3>3
  <2>2. CASE ~(cache'[s] = cache[s] /\ cache[s].region # r)
    BY <1>1, <1>3, <2>2
  <2> QED BY <2>1, <2>2
<1>4. FastPathSound'
  BY <1>3 DEF FastPathSound, Pointing
<1> QED BY <1>2, <1>4 DEF HostInv

(* When the slot of r is dropped, its addresses are marked as TvmSpill     *)
(* leaves them, or r has no memory, the entry of r may change in any way.  *)
LEMMA DroppedStep ==
  ASSUME HostInv, IInv', NEW r \in Ids, NEW e,
         regions' = [regions EXCEPT ![r] = e], Placed(e),
         \/ cache' = invalidate(r)
         \/ cache' = Freed(invalidate(r), r, "dangling")
         \/ cache' = Freed(cache, r, "leaked")
         \/ ~Resident(r) /\ cache' \in {cache, Freed(cache, r, "dangling")}
  PROVE  HostInv'
<1> DEFINE Safely(c) ==
       /\ Direct(c)
       /\ \A s \in Slots : Pointing(c, s) => c[s] = cache[s] /\ cache[s].region # r
<1>0. Direct(cache)
  BY DEF HostInv
<1>1. Safely(invalidate(r))
  BY <1>0, InvalidateSlot DEF Pointing
<1>2. Safely(Freed(invalidate(r), r, "dangling"))
  <2>1. PICK c : c = invalidate(r)
    OBVIOUS
  <2>2. Direct(c) /\ \A s \in Slots : c[s] # NoSlot => c[s] = cache[s] /\ cache[s].region # r
    BY <1>0, <2>1, InvalidateSlot
  <2>3. Direct(Freed(c, r, "dangling")) /\ \A s \in Slots : Freed(c, r, "dangling")[s] = c[s]
    BY <2>2, FreedSlots
  <2> QED BY <2>1, <2>2, <2>3 DEF Pointing
<1>3. Safely(Freed(cache, r, "leaked"))
  <2>1. Direct(Freed(cache, r, "leaked"))
        /\ \A s \in Slots :
              IF cache[s] # NoSlot /\ cache[s].region = r /\ cache[s].data_ptr = "live"
              THEN Freed(cache, r, "leaked")[s] # NoSlot
                   /\ Freed(cache, r, "leaked")[s].data_ptr = "leaked"
              ELSE Freed(cache, r, "leaked")[s] = cache[s]
    BY <1>0, FreedSlots
  <2>2. \A s \in Slots : Pointing(cache, s) => cache[s].data_ptr = "live"
    BY DEF HostInv, FastPathSound, Pointing
  <2> QED BY <2>1, <2>2 DEF Pointing
<1>4. ASSUME ~Resident(r)
      PROVE  Safely(cache) /\ Safely(Freed(cache, r, "dangling"))
  <2>1. \A s \in Slots : Pointing(cache, s) => cache[s].region # r
    BY <1>4 DEF HostInv, FastPathSound, Pointing
  <2>2. \A s \in Slots : ~(cache[s] # NoSlot /\ cache[s].region = r /\ cache[s].data_ptr = "live")
    BY <2>1 DEF Pointing
  <2>3. Direct(Freed(cache, r, "dangling"))
        /\ \A s \in Slots : Freed(cache, r, "dangling")[s] = cache[s]
    BY <1>0, <2>2, FreedSlots
  <2> QED BY <1>0, <2>1, <2>3 DEF Pointing
<1>5. Safely(cache')
  BY <1>1, <1>2, <1>3, <1>4
<1>6. Direct(cache)' /\ \A s \in Slots : Pointing(cache, s)' =>
                                cache'[s] = cache[s] /\ cache[s].region # r
  BY <1>5 DEF Direct, Pointing
<1> QED BY <1>6, EntryStep

(* A step that keeps the memory and the generation of region r may leave   *)
(* the cache alone, or cache the address of that memory.                   *)
LEMMA KeptStep ==
  ASSUME HostInv, IInv', NEW r \in Ids, NEW e,
         regions' = [regions EXCEPT ![r] = e], Placed(e),
         \/ cache' = cache
         \/ Resident(r) /\ cache' = install(r, "live"),
         Live(r) => /\ e # NoEntry
                    /\ e.generation = regions[r].generation
                    /\ regions[r].memory # NoMemory => e.memory # NoMemory
  PROVE  HostInv'
<1>1. ASSUME NEW s \in Slots, Pointing(cache, s)
      PROVE  \/ cache[s].region # r
             \/ /\ cache[s].region = r
                /\ cache[s].data_ptr = "live"
                /\ cache[s].resident
                /\ cache[s].generation = e.generation
                /\ e # NoEntry
                /\ e.memory # NoMemory
  BY <1>1 DEF HostInv, FastPathSound, Pointing
<1>2. CASE cache' = cache
  <2>1. Direct(cache)' /\ \A s \in Slots : Pointing(cache, s)' => Pointing(cache, s)
    BY <1>2 DEF HostInv, Direct, Pointing
  <2> QED BY <1>1, <1>2, <2>1, EntryStep
<1>3. CASE Resident(r) /\ cache' = install(r, "live")
  <2>1. /\ Direct(cache)'
        /\ \A s \in Slots \ {SlotOf(r)} : cache'[s] = cache[s]
        /\ cache'[SlotOf(r)].region = r
        /\ cache'[SlotOf(r)].data_ptr = "live"
        /\ cache'[SlotOf(r)].generation = regions[r].generation
        /\ cache'[SlotOf(r)].resident = (regions[r].residency \in {"Hot", "Warm"})
    BY <1>3, InstallSlot DEF Direct
  <2>2. regions[r].residency \in {"Hot", "Warm"}
    BY <1>3 DEF HostInv, Placed
  <2>3. \A s \in Slots : s = SlotOf(r) \/ (Pointing(cache, s)' => Pointing(cache, s))
    BY <2>1 DEF Pointing
  <2>4. ASSUME NEW s \in Slots, Pointing(cache, s)'
        PROVE  \/ cache'[s] = cache[s] /\ cache[s].region # r
               \/ /\ cache'[s].region = r
                  /\ cache'[s].data_ptr = "live"
                  /\ cache'[s].resident
                  /\ cache'[s].generation = e.generation
                  /\ e # NoEntry
                  /\ e.memory # NoMemory
    <3>1. CASE s = SlotOf(r)
      BY <1>3, <2>1, <2>2, <3>1
    <3>2. CASE s # SlotOf(r)
      BY <1>1, <2>1, <2>3, <2>4, <3>2
    <3> QED BY <3>1, <3>2
  <2> QED BY <2>1, <2>4, EntryStep
<1> QED BY <1>2, <1>3

(* A step that leaves the directory alone and at most drops a slot, or     *)
(* fills that of a live region: resolve, refresh_cache, a refused call.    *)
LEMMA CacheStep ==
  ASSUME HostInv, UNCHANGED vars, NEW r \in Ids,
         \/ cache' = cache
         \/ cache' = invalidate(r)
         \/ Live(r) /\ cache' = install(r, "null")
         \/ Resident(r) /\ cache' = install(r, "live")
  PROVE  HostInv'
<1>1. IInv' /\ regions' = regions /\ IInv
  BY DEF HostInv, IInv, TypeOK, Safe, Fresh, vars
<1>2. regions' = [regions EXCEPT ![r] = regions[r]] /\ Placed(regions[r])
  BY <1>1 DEF HostInv, IInv, TypeOK
<1>3. CASE cache' = cache \/ (Resident(r) /\ cache' = install(r, "live"))
  BY <1>1, <1>2, <1>3, KeptStep
<1>4. CASE cache' = invalidate(r)
  BY <1>1, <1>2, <1>4, DroppedStep
<1>5. CASE Live(r) /\ cache' = install(r, "null")
  <2>1. Direct(cache)' /\ \A s \in Slots : Pointing(cache, s)' => cache'[s] = cache[s]
    BY <1>5, InstallSlot DEF Direct, Pointing
  <2>2. FastPathSound'
    BY <1>1, <2>1 DEF HostInv, FastPathSound, Pointing
  <2> QED BY <1>1, <2>1, <2>2 DEF HostInv
<1> QED BY <1>3, <1>4, <1>5

-----------------------------------------------------------------------------
(* The host's calls *)

(* Every tier move of the directory replaces one entry, and gives memory   *)
(* to it only together with the tier Hot or Warm.                          *)
LEMMA TierMove ==
  ASSUME HostInv, NEW r \in Ids,
         \/ destroy_region(r) \/ promote_region(r) \/ demote_region(r)
         \/ spill_region(r) \/ load_region(r) \/ compact_region(r)
  PROVE  \E e : regions' = [regions EXCEPT ![r] = e] /\ Placed(e)
<1>1. /\ regions \in [Ids -> Entry \cup {NoEntry}]
      /\ Live(r) => regions[r] \in Entry
      /\ Placed(regions[r])
  BY DEF HostInv, IInv, TypeOK
<1>2. CASE destroy_region(r)
  BY <1>2 DEF destroy_region, Placed
<1>3. ASSUME NEW m, NEW t, Live(r), regions' = [regions EXCEPT ![r].memory = m, ![r].residency = t],
             m # NoMemory => t \in {"Hot", "Warm"}
      PROVE  \E e : regions' = [regions EXCEPT ![r] = e] /\ Placed(e)
  <2>1. PICK e : e = [regions[r] EXCEPT !.memory = m, !.residency = t]
    OBVIOUS
  <2>2. e.memory = m /\ e.residency = t
    BY <1>1, <1>3, <2>1
  <2>3. regions' = [regions EXCEPT ![r] = e]
    BY <1>1, <1>3, <2>1
  <2> QED BY <1>3, <2>2, <2>3 DEF Placed
<1>4. ASSUME load_region(r) PROVE \E e : regions' = [regions EXCEPT ![r] = e] /\ Placed(e)
  BY <1>3, <1>4 DEF load_region, Loaded
<1>5. ASSUME spill_region(r) PROVE \E e : regions' = [regions EXCEPT ![r] = e] /\ Placed(e)
  <2>1. CASE SpillOk(r, warm_lru)
    BY <1>3, <2>1 DEF SpillOk, CanSpill
  <2>2. CASE \E leftover \in {store[Key(r)], Torn} : SpillErr(r, warm_lru, leftover)
    <3>1. regions' = [regions EXCEPT ![r].memory = NoMemory] /\ Live(r)
      BY <2>2 DEF SpillErr, CanSpill
    <3>2. regions' = [regions EXCEPT ![r] = [regions[r] EXCEPT !.memory = NoMemory]]
          /\ [regions[r] EXCEPT !.memory = NoMemory].memory = NoMemory
      BY <1>1, <3>1
    <3> QED BY <3>2 DEF Placed
  <2> QED BY <1>5, <2>1, <2>2 DEF spill_region
<1>6. ASSUME NEW t \in {"Hot", "Warm"}, Live(r), regions' = [regions EXCEPT ![r].residency = t]
      PROVE  \E e : regions' = [regions EXCEPT ![r] = e] /\ Placed(e)
  <2>1. regions' = [regions EXCEPT ![r] = [regions[r] EXCEPT !.residency = t]]
        /\ [regions[r] EXCEPT !.residency = t].residency = t
    BY <1>1, <1>6
  <2> QED BY <2>1 DEF Placed
<1>7. CASE promote_region(r)
  BY <1>4, <1>6, <1>7 DEF promote_region
<1>8. CASE demote_region(r)
  BY <1>5, <1>6, <1>8 DEF demote_region
<1>9. CASE compact_region(r)
  <2>1. Live(r) /\ regions' = [regions EXCEPT ![r].generation = NextGen(@)]
    BY <1>9 DEF compact_region
  <2>2. PICK e : e = [regions[r] EXCEPT !.generation = NextGen(regions[r].generation)]
    OBVIOUS
  <2>3. regions' = [regions EXCEPT ![r] = e] /\ e.memory = regions[r].memory
        /\ e.residency = regions[r].residency
    BY <1>1, <2>1, <2>2
  <2> QED BY <1>1, <2>1, <2>3 DEF Placed
<1> QED BY <1>2, <1>4, <1>5, <1>7, <1>8, <1>9

(* The calls of ManagerHost and TvmSpill that move a region drop its slot, *)
(* or mark the address they leak.                                          *)
LEMMA ManagerCalls ==
  ASSUME HostInv, NEW r \in Ids,
         \/ ManagerHost_destroy_region(r)
         \/ ManagerHost_promote_region(r) \/ ManagerHost_demote_region(r)
         \/ ManagerHost_spill_region(r) \/ ManagerHost_load_region(r)
         \/ ManagerHost_compact_region(r)
         \/ TvmSpill_spill(r) \/ TvmSpill_load(r)
  PROVE  HostInv'
<1> DEFINE Moves ==
       \/ destroy_region(r) \/ promote_region(r) \/ demote_region(r)
       \/ spill_region(r) \/ load_region(r) \/ compact_region(r)
<1>1. \/ /\ Moves
         /\ \/ cache' = invalidate(r)
            \/ cache' = Freed(invalidate(r), r, "dangling")
            \/ cache' = Freed(cache, r, "leaked")
      \/ UNCHANGED vars /\ cache' = invalidate(r)
  BY DEF ManagerHost_destroy_region, ManagerHost_promote_region, ManagerHost_demote_region,
         ManagerHost_spill_region, ManagerHost_load_region, ManagerHost_compact_region,
         TvmSpill_spill, TvmSpill_load, Refused, Done
<1>2. ASSUME Moves PROVE IInv' /\ \E e : regions' = [regions EXCEPT ![r] = e] /\ Placed(e)
  <2>1. Next
    BY <1>2 DEF Next
  <2> QED BY <1>2, <2>1, NextSafe, TierMove DEF HostInv
<1>3. CASE UNCHANGED vars /\ cache' = invalidate(r)
  BY <1>3, CacheStep
<1> HIDE DEF Moves
<1> QED BY <1>1, <1>2, <1>3, DroppedStep

(* create_region fills an empty slot of the directory.                     *)
LEMMA CreateCall ==
  ASSUME HostInv, NEW p \in Policies, ManagerHost_create_region(p)
  PROVE  HostInv'
<1>1. Next /\ create_region(p) /\ cache' = cache
  BY DEF ManagerHost_create_region, Next, host
<1>2. IInv'
  BY <1>1, NextSafe DEF HostInv
<1>3. len \in Ids /\ p.initial \in {"Hot", "Warm"}
  BY <1>1, BoundsAssumption, PolicyAssumption DEF HostInv, IInv, TypeOK, create_region
<1>4. PICK n \in Ids : n = len
  BY <1>3
<1>5. ~Live(n)
  BY <1>1, <1>4 DEF HostInv, IInv, Fresh, create_region
<1>6. PICK e : e = [generation |-> 1, residency |-> p.initial, pinned |-> FALSE,
                    pinnable |-> p.pinnable, spillable |-> p.spillable, memory |-> Zero]
  OBVIOUS
<1>7. regions' = [regions EXCEPT ![n] = e]
  BY <1>1, <1>4, <1>6 DEF create_region
<1>8. Placed(e)
  BY <1>3, <1>6 DEF Placed
<1> QED BY <1>1, <1>2, <1>5, <1>7, <1>8, KeptStep

(* alloc, pin and unpin keep memory and generation of the region.          *)
LEMMA AllocAndPin ==
  ASSUME HostInv, NEW r \in Ids,
         raw_alloc(r) \/ ManagerHost_alloc(r) \/ ManagerHost_pin(r)
  PROVE  HostInv'
<1>1. /\ alloc(r) \/ pin(r) \/ unpin(r)
      /\ cache' \in {cache, invalidate(r)}
  BY DEF raw_alloc, ManagerHost_alloc, ManagerHost_pin, Done, host
<1>2. Live(r) /\ IInv'
  <2>1. Next
    BY <1>1 DEF Next
  <2> QED BY <1>1, <2>1, NextSafe DEF HostInv, alloc, pin, unpin
<1>3. regions \in [Ids -> Entry \cup {NoEntry}] /\ regions[r] \in Entry /\ Placed(regions[r])
  BY <1>2 DEF HostInv, IInv, TypeOK
<1>4. \E e \in Entry : /\ regions' = [regions EXCEPT ![r] = e]
                      /\ e.memory = regions[r].memory
                      /\ e.generation = regions[r].generation
                      /\ e.residency = regions[r].residency
  <2>1. CASE alloc(r)
    BY <1>3, <2>1 DEF alloc
  <2>2. ASSUME NEW b \in BOOLEAN, regions' = [regions EXCEPT ![r].pinned = b]
        PROVE  \E e \in Entry : /\ regions' = [regions EXCEPT ![r] = e]
                                /\ e.memory = regions[r].memory
                                /\ e.generation = regions[r].generation
                                /\ e.residency = regions[r].residency
    <3>1. [regions[r] EXCEPT !.pinned = b] \in Entry
      BY <1>3
    <3> WITNESS [regions[r] EXCEPT !.pinned = b] \in Entry
    <3> QED BY <1>3, <2>2
  <2> QED BY <1>1, <2>1, <2>2 DEF pin, unpin
<1>5. PICK e \in Entry : /\ regions' = [regions EXCEPT ![r] = e]
                        /\ e.memory = regions[r].memory
                        /\ e.generation = regions[r].generation
                        /\ e.residency = regions[r].residency
  BY <1>4
<1>6. Placed(e) /\ e # NoEntry
  BY <1>2, <1>3, <1>5, NoEntryAssumption DEF Placed
<1>7. CASE cache' = cache
  BY <1>2, <1>5, <1>6, <1>7, KeptStep
<1>8. CASE cache' = invalidate(r)
  BY <1>2, <1>5, <1>6, <1>8, DroppedStep
<1> QED BY <1>1, <1>7, <1>8

(* A step that writes bytes into the memory a region has.                  *)
LEMMA WriteStep ==
  ASSUME HostInv, NEW r \in Ids, NEW c \in Contents,
         Live(r), regions[r].memory \in Contents,
         cache' = cache \/ cache' = install(r, "live"),
         regions' = [regions EXCEPT ![r].memory = c],
         logical' = [logical EXCEPT ![r] = c],
         UNCHANGED <<len, warm_lru, store, snapshot, handles, era, mishaps>>
  PROVE  HostInv'
<1>1. regions \in [Ids -> Entry \cup {NoEntry}] /\ regions[r] \in Entry /\ Placed(regions[r])
  BY DEF HostInv, IInv, TypeOK
<1>2. TypeOK'
  <2>1. regions' \in [Ids -> Entry \cup {NoEntry}]
    BY <1>1
  <2>2. logical' \in [Ids -> Bytes]
    BY DEF HostInv, IInv, TypeOK
  <2> QED BY <2>1, <2>2 DEF HostInv, IInv, TypeOK
<1>3. IInv'
  BY <1>2, InstallSafe DEF HostInv
<1>4. PICK e : e = [regions[r] EXCEPT !.memory = c]
  OBVIOUS
<1>5. /\ regions' = [regions EXCEPT ![r] = e] /\ e.memory = c /\ e \in Entry
      /\ e.generation = regions[r].generation /\ e.residency = regions[r].residency
  BY <1>1, <1>4
<1>6. c # NoMemory /\ regions[r].memory # NoMemory /\ e # NoEntry
  BY <1>5, ContentsAssumption, NoEntryAssumption
<1> QED BY <1>1, <1>3, <1>5, <1>6, KeptStep DEF Placed
(* A fault loads a region that had no memory, so no address goes stale.    *)
LEMMA FaultStep ==
  ASSUME HostInv, NEW r \in Ids, Live(r), regions[r].residency = "Cold", Next,
         NEW m, regions' = [regions EXCEPT ![r].residency = "Hot", ![r].memory = m],
         cache' = Freed(cache, r, "dangling")
  PROVE  HostInv'
<1>1. regions \in [Ids -> Entry \cup {NoEntry}] /\ regions[r] \in Entry
      /\ regions[r].memory = NoMemory
  BY DEF HostInv, IInv, TypeOK, Placed
<1>2. PICK e : e = [regions[r] EXCEPT !.residency = "Hot", !.memory = m]
  OBVIOUS
<1>3. regions' = [regions EXCEPT ![r] = e] /\ e.residency = "Hot"
  BY <1>1, <1>2
<1>4. IInv'
  BY NextSafe DEF HostInv
<1> QED BY <1>1, <1>3, <1>4, DroppedStep DEF Placed

(* read and write through the directory, faulting when there is a store.   *)
LEMMA SlowPath ==
  ASSUME HostInv, NEW h \in handles, NEW c \in Contents,
         BytesHost_read(h) \/ BytesHost_write(h, c)
  PROVE  HostInv'
<1>1. h.region \in Ids
  BY DEF HostInv, IInv, TypeOK
<1>2. CASE BytesHost_read(h)
  <2>1. Next /\ Live(h.region) /\ regions[h.region].residency = "Cold"
        /\ load_region(h.region) /\ cache' = Freed(cache, h.region, "dangling")
    BY <1>2 DEF BytesHost_read, read_or_fault, Done, Next
  <2>2. IInv' /\ ~Resident(h.region)
    BY <1>1, <2>1, NextSafe DEF HostInv, Placed
  <2>3. PICK e : regions' = [regions EXCEPT ![h.region] = e] /\ Placed(e)
    BY <1>1, <2>1, TierMove
  <2> QED BY <1>1, <2>1, <2>2, <2>3, DroppedStep
<1>3. ASSUME write(h, c), cache' = cache PROVE HostInv'
  BY <1>1, <1>3, WriteStep DEF write, io
<1>4. CASE BytesHost_write(h, c)
  <2>1. CASE ~backing /\ write(h, c) /\ UNCHANGED host
    BY <1>3, <2>1 DEF host
  <2>2. CASE write_or_fault(h, c) /\ regions[h.region].residency # "Cold" /\ cache' = cache
    BY <1>3, <2>2 DEF write_or_fault
  <2>3. CASE /\ write_or_fault(h, c) /\ regions[h.region].residency = "Cold"
             /\ cache' = Freed(cache, h.region, "dangling")
    <3>1. Next
      BY <2>3 DEF Next
    <3>2. PICK m : regions' = [regions EXCEPT ![h.region].residency = "Hot", ![h.region].memory = m]
      BY <2>3 DEF write_or_fault
    <3> QED BY <1>1, <2>3, <3>1, <3>2, FaultStep DEF write_or_fault
  <2> QED BY <1>4, <2>1, <2>2, <2>3 DEF BytesHost_write, Done
<1> QED BY <1>2, <1>4

(* copy_region writes the source's bytes.                                  *)
LEMMA CopyStep ==
  ASSUME HostInv, NEW q \in Ids, NEW r \in Ids, BytesHost_copy_region(q, r)
  PROVE  HostInv'
<1>1. PICK b \in Contents : b = regions[q].memory
  BY DEF BytesHost_copy_region, cross_region_copy
<1> QED BY <1>1, WriteStep DEF BytesHost_copy_region, cross_region_copy, host, io

(* RegionView writes the caller's bytes.                                    *)
LEMMA ViewStep ==
  ASSUME HostInv, NEW r \in Ids, NEW c \in Contents, RegionView_write(r, c)
  PROVE  HostInv'
BY WriteStep DEF RegionView_write, host, io

(* The fast path: what it hits is what the directory holds.                *)
LEMMA FastPath ==
  ASSUME HostInv, NEW h \in handles, NEW c \in Contents, fast_read(h) \/ fast_write(h, c)
  PROVE  HostInv'
<1>1. h.region \in Ids /\ SlotOf(h.region) \in Slots
  BY SlotType DEF HostInv, IInv, TypeOK
<1>2. FastReaches(h.region) /\ cache' = refresh_cache(h.region)
  BY DEF fast_read, fast_write
<1>3. cache' = cache \/ (Resident(h.region) /\ cache' = install(h.region, "live"))
  BY <1>2 DEF FastReaches, refresh_cache
<1>4. CASE UNCHANGED vars
  BY <1>1, <1>3, <1>4, CacheStep
<1>5. CASE /\ ~FastFaults(h)
           /\ regions' = [regions EXCEPT ![FastHit(h.region).region].memory = c]
           /\ logical' = [logical EXCEPT ![h.region] = c]
           /\ UNCHANGED <<len, warm_lru, io, handles, era, mishaps, ub>>
  <2>1. FastHit(h.region).data_ptr = "live" /\ regions[FastHit(h.region).region].memory # Torn
    BY <1>5 DEF FastFaults
  <2>2. FastHit(h.region).region = h.region /\ Resident(h.region)
    <3>1. CASE lookup_fast(h.region)
      <4>1. FastHit(h.region) = cache[SlotOf(h.region)]
        BY <3>1 DEF FastHit, refresh_cache
      <4>2. cache[SlotOf(h.region)] # NoSlot /\ cache[SlotOf(h.region)].region = h.region
        BY <3>1 DEF lookup_fast, lookup
      <4> QED BY <1>1, <2>1, <4>1, <4>2 DEF HostInv, FastPathSound
    <3>2. CASE ~lookup_fast(h.region)
      <4>1. FastHit(h.region) = install(h.region, "live")[SlotOf(h.region)] /\ Resident(h.region)
        BY <1>2, <3>2 DEF FastHit, refresh_cache, FastReaches
      <4> QED BY <1>1, <4>1, InstallSlot
    <3> QED BY <3>1, <3>2
  <2>3. regions[h.region].memory \in Contents
    <3>1. regions[h.region] \in Entry
      BY <1>1, <2>2 DEF HostInv, IInv, TypeOK
    <3> QED BY <2>1, <2>2, <3>1
  <2> QED BY <1>1, <1>3, <1>5, <2>2, <2>3, WriteStep DEF io
<1> QED BY <1>4, <1>5 DEF fast_read, fast_write

(* Every step of the host keeps the invariant.                             *)
LEMMA HostStepInv == HostInv /\ [HostNext]_<<vars, host>> => HostInv'
<1> SUFFICES ASSUME HostInv, [HostNext]_<<vars, host>> PROVE HostInv'
  OBVIOUS
<1>1. Zero \in Contents /\ 0 \in Ids
  BY ContentsAssumption, BoundsAssumption
<1>2. ASSUME NEW r \in Ids, resolve(r) PROVE HostInv'
  BY <1>2, CacheStep DEF resolve
<1>3. CASE UNCHANGED <<vars, host>>
  BY <1>1, <1>3, CacheStep DEF host
<1>4. CASE HostStep
  <2>1. CASE \E p \in Policies : ManagerHost_create_region(p)
    BY <2>1, CreateCall
  <2>2. ASSUME NEW r \in Ids,
               \/ resolve(r) \/ raw_alloc(r)
               \/ ManagerHost_alloc(r) \/ ManagerHost_pin(r)
               \/ ManagerHost_destroy_region(r)
               \/ ManagerHost_promote_region(r) \/ ManagerHost_demote_region(r)
               \/ ManagerHost_spill_region(r) \/ ManagerHost_load_region(r)
               \/ ManagerHost_compact_region(r)
               \/ TvmSpill_spill(r) \/ TvmSpill_load(r)
        PROVE  HostInv'
    BY <1>2, <2>2, AllocAndPin, ManagerCalls
  <2>3. ASSUME NEW r \in Ids, NEW s \in Ids, BytesHost_copy_region(s, r) PROVE HostInv'
    BY <2>3, CopyStep
  <2>4. ASSUME NEW r \in Ids, NEW c \in Contents, RegionView_write(r, c) PROVE HostInv'
    BY <2>4, ViewStep
  <2>5. ASSUME NEW h \in handles, fast_read(h) \/ BytesHost_read(h) PROVE HostInv'
    BY <1>1, <2>5, FastPath, SlowPath
  <2>6. ASSUME NEW h \in handles, NEW c \in Contents, fast_write(h, c) \/ BytesHost_write(h, c)
        PROVE  HostInv'
    BY <2>6, FastPath, SlowPath
  <2> QED BY <1>4, <2>1, <2>2, <2>3, <2>4, <2>5, <2>6 DEF HostStep
<1> QED BY <1>3, <1>4 DEF HostNext

(* HostInv holds in every reachable state of the host.                     *)
LEMMA HostInvariance == HostSpec => []HostInv
<1>1. HostInit => HostInv
  <2> SUFFICES ASSUME HostInit PROVE HostInv
    OBVIOUS
  <2>1. Init => TypeOK
    BY ContentsAssumption, BoundsAssumption DEF Init, TypeOK, Mishaps
  <2>2. IInv /\ \A r \in Ids : regions[r] = NoEntry
    BY <2>1 DEF HostInit, Init, IInv, Safe, Fresh
  <2>3. Direct(cache) /\ \A s \in Slots : cache[s] = NoSlot
    BY DEF HostInit, Direct
  <2> QED BY <2>2, <2>3 DEF HostInv, Placed, FastPathSound
<1> QED BY <1>1, HostStepInv, PTL DEF HostSpec

(* Whatever calls the host serves, an address the fast path would follow   *)
(* is that of the bytes the region has now, under the generation it has    *)
(* now: no call that frees or moves a buffer leaves its slot behind, but   *)
(* for the two TvmSpill calls the property excepts.                        *)
THEOREM FastPathIsSound == HostSpec => []FastPathSound
<1>1. HostInv => FastPathSound
  BY DEF HostInv
<1> QED BY <1>1, HostInvariance, PTL

(* The directory's promise survives the writes that bypass it: those of    *)
(* fast_write through a cached address and those of RegionView.            *)
THEOREM HostBytesSurvive == HostSpec => []BytesSurvive
<1>1. HostInv => BytesSurvive
  BY SafeFound DEF HostInv
<1> QED BY <1>1, HostInvariance, PTL
=============================================================================
