--------------------------- MODULE RegionDirectory ---------------------------
(***************************************************************************)
(* The single-threaded region directory of tvm-core                        *)
(* (crates/tvm-core/src/directory.rs) with the store it spills to          *)
(* (backing.rs).                                                           *)
(*                                                                         *)
(* A region is a slot of the directory's vector: its metadata, the memory  *)
(* that holds its bytes while it is resident, and a generation that every  *)
(* handle into it must match.  Regions move between the tiers Hot, Warm,   *)
(* Cold and External; a Cold region lives only in the backing store, under *)
(* the key (region id, generation).                                        *)
(*                                                                         *)
(* The bytes of a region are one value of Contents.  The allocator inside  *)
(* a region is the subject of RegionHeap; here an allocation only mints a  *)
(* handle.  Operations that fail before changing anything are not steps.   *)
(***************************************************************************)
EXTENDS Integers, Sequences, SequencesExt

CONSTANTS
  Contents,     \* what a region's bytes can be
  Zero,         \* the bytes of a fresh region
  Torn,         \* a file cut short before the bytes the model follows
  NoMemory,     \* memory: None, or no such file
  NoEntry,      \* a destroyed or never created slot
  MaxRegions,   \* region ids are u16: 2^16 in the code
  LastGen,      \* the last generation before the wrap: 65535 in the code
  MaxEra,       \* bound: generation bumps of one region
  Policies      \* placement policies regions are created with

Residency == {"Hot", "Warm", "Cold", "External"}
Policy == [initial : {"Hot", "Warm"}, pinnable : BOOLEAN, spillable : BOOLEAN]

ASSUME ContentsAssumption ==
  /\ Zero \in Contents
  /\ Torn \notin Contents
  /\ NoMemory \notin Contents \cup {Torn}
ASSUME BoundsAssumption ==
  /\ MaxRegions \in Nat \ {0}
  /\ LastGen \in Nat \ {0}
  /\ MaxEra \in Nat
ASSUME PolicyAssumption == Policies \subseteq Policy

VARIABLES
  regions,    \* the slots of the directory, by region id
  len,        \* regions.len(): how many slots were ever pushed
  warm_lru,   \* ids, most recently demoted first, LRU candidate last
  store,      \* the backing store's files, by (id, generation)
  snapshot,   \* the file snapshot_region writes and restore_region reads
  handles,    \* handles issued so far, stamped with the era they belong to
  era,        \* history: bumps of each region's generation, unwrapped
  logical,    \* history: the bytes a caller is entitled to read
  mishaps     \* history: the events after which bytes may be lost

vars == <<regions, len, warm_lru, store, snapshot, handles, era, logical, mishaps>>
ghosts == <<era, logical, mishaps>>
io == <<store, snapshot>>

Ids == 0..(MaxRegions - 1)
Gens == 1..LastGen
Bytes == Contents \cup {Torn}
Memory == Bytes \cup {NoMemory}
Entry == [generation : Gens, residency : Residency, pinned : BOOLEAN,
          pinnable : BOOLEAN, spillable : BOOLEAN, memory : Memory]
(* After one of these, the directory no longer vouches for the bytes:      *)
(* a spill whose I/O failed or whose future was dropped, load_region on a  *)
(* region that was not Cold, and a generation bump of a Cold region.       *)
Mishaps == {"spill_interrupted", "load_not_cold", "bumped_cold"}

ASSUME NoEntryAssumption == NoEntry \notin Entry

Live(r) == regions[r] # NoEntry
Resident(r) == Live(r) /\ regions[r].memory # NoMemory
Key(r) == <<r, regions[r].generation>>
\* entry.meta.generation.wrapping_add(1), skipping 0
NextGenKeepsZero(g) == IF g = LastGen THEN 0 ELSE g + 1     \* mutant: 0 not skipped
NextGenSaturates(g) == IF g = LastGen THEN g ELSE g + 1     \* mutant: saturating_add
NextGen(g) == IF g = LastGen THEN 1 ELSE g + 1
Valid(h) == Live(h.region) /\ regions[h.region].generation = h.generation

lru_remove(lru, r) == RemoveFirst(lru, r)
PushDuplicates(lru, r) == <<r>> \o lru          \* mutant: no removal first
PushForgotten(lru, r) == lru_remove(lru, r)     \* mutant: demotion not recorded
lru_push_front(lru, r) == <<r>> \o lru_remove(lru, r)

Init ==
  /\ regions = [r \in Ids |-> NoEntry]
  /\ len = 0
  /\ warm_lru = <<>>
  /\ store = [k \in Ids \X Gens |-> NoMemory]
  /\ snapshot = NoMemory
  /\ handles = {}
  /\ era = [r \in Ids |-> 0]
  /\ logical = [r \in Ids |-> Zero]
  /\ mishaps = [r \in Ids |-> {}]

-----------------------------------------------------------------------------
(* Lifecycle *)

create_region(p) ==
  /\ len < MaxRegions
  /\ regions' = [regions EXCEPT ![len] =
       [generation |-> 1, residency |-> p.initial, pinned |-> FALSE,
        pinnable |-> p.pinnable, spillable |-> p.spillable, memory |-> Zero]]
  /\ warm_lru' = IF p.initial = "Warm" THEN <<len>> \o warm_lru ELSE warm_lru
  /\ len' = len + 1
  /\ UNCHANGED <<io, handles, ghosts>>

destroy_region(r) ==
  /\ Live(r)
  /\ regions' = [regions EXCEPT ![r] = NoEntry]
  /\ warm_lru' = lru_remove(warm_lru, r)
  /\ UNCHANGED <<len, io, handles, ghosts>>

alloc(r) ==
  /\ Live(r)
  /\ handles' = handles \cup
       {[region |-> r, generation |-> regions[r].generation, era |-> era[r]]}
  /\ UNCHANGED <<regions, len, warm_lru, io, ghosts>>

pin(r) ==
  /\ Live(r)
  /\ regions[r].pinnable
  /\ regions' = [regions EXCEPT ![r].pinned = TRUE]
  /\ UNCHANGED <<len, warm_lru, io, handles, ghosts>>

unpin(r) ==
  /\ Live(r)
  /\ regions' = [regions EXCEPT ![r].pinned = FALSE]
  /\ UNCHANGED <<len, warm_lru, io, handles, ghosts>>

bump_generation(r) ==
  /\ Live(r)
  /\ era[r] < MaxEra
  /\ regions' = [regions EXCEPT ![r].generation = NextGen(@)]
  /\ era' = [era EXCEPT ![r] = @ + 1]
  /\ mishaps' = IF regions[r].residency = "Cold"
                THEN [mishaps EXCEPT ![r] = @ \cup {"bumped_cold"}]
                ELSE mishaps
  /\ UNCHANGED <<len, warm_lru, io, handles, logical>>

(* Live allocations keep their bytes (RegionHeap), the generation moves.   *)
(* A short (torn) memory fails the block reads and nothing changes.        *)
compact_region(r) ==
  /\ Live(r)
  /\ ~regions[r].pinned
  /\ regions[r].memory \in Contents
  /\ era[r] < MaxEra
  /\ regions' = [regions EXCEPT ![r].generation = NextGen(@)]
  /\ era' = [era EXCEPT ![r] = @ + 1]
  /\ UNCHANGED <<len, warm_lru, io, handles, logical, mishaps>>

-----------------------------------------------------------------------------
(* Byte access *)

write(h, c) ==
  /\ Valid(h)
  /\ regions[h.region].memory \in Contents
  /\ regions' = [regions EXCEPT ![h.region].memory = c]
  /\ logical' = [logical EXCEPT ![h.region] = c]
  /\ UNCHANGED <<len, warm_lru, io, handles, era, mishaps>>

(* No handle is involved: neither end's generation is checked.             *)
cross_region_copy(src, dst) ==
  /\ Live(src) /\ Live(dst)
  /\ regions[src].memory \in Contents
  /\ regions[dst].memory \in Contents
  /\ regions' = [regions EXCEPT ![dst].memory = regions[src].memory]
  /\ logical' = [logical EXCEPT ![dst] = regions[src].memory]
  /\ UNCHANGED <<len, warm_lru, io, handles, era, mishaps>>

read_into(h, dst) == Valid(h) /\ cross_region_copy(h.region, dst)

write_from(src, h) == Valid(h) /\ cross_region_copy(src, h.region)

-----------------------------------------------------------------------------
(* Tiering *)

(* The checks spill_region makes before it takes the memory.               *)
CanSpillPinned(r) ==    \* mutant: pinned is not checked
  /\ Live(r)
  /\ regions[r].spillable
  /\ regions[r].residency # "Cold"
  /\ regions[r].memory # NoMemory
CanSpill(r) ==
  /\ Live(r)
  /\ ~regions[r].pinned
  /\ regions[r].spillable
  /\ regions[r].residency # "Cold"
  /\ regions[r].memory # NoMemory

SpillSkipsRewrite(r, lru) ==   \* mutant: a file already there is taken as current
  /\ CanSpill(r)
  /\ store' = [store EXCEPT ![Key(r)] = IF @ = NoMemory THEN regions[r].memory ELSE @]
  /\ regions' = [regions EXCEPT ![r].memory = NoMemory, ![r].residency = "Cold"]
  /\ warm_lru' = lru_remove(lru, r)
  /\ UNCHANGED <<len, snapshot, handles, ghosts>>
SpillOk(r, lru) ==
  /\ CanSpill(r)
  /\ store' = [store EXCEPT ![Key(r)] = regions[r].memory]
  /\ regions' = [regions EXCEPT ![r].memory = NoMemory, ![r].residency = "Cold"]
  /\ warm_lru' = lru_remove(lru, r)
  /\ UNCHANGED <<len, snapshot, handles, ghosts>>

(* memory.take() has run when the store reports the error; write_all       *)
(* truncates before it writes, so the old file survives only if open fails.*)
SpillErr(r, lru, leftover) ==
  /\ CanSpill(r)
  /\ store' = [store EXCEPT ![Key(r)] = leftover]
  /\ regions' = [regions EXCEPT ![r].memory = NoMemory]
  /\ mishaps' = [mishaps EXCEPT ![r] = @ \cup {"spill_interrupted"}]
  /\ warm_lru' = lru
  /\ UNCHANGED <<len, snapshot, handles, era, logical>>

spill_region(r) ==
  /\ CanSpill(r)
  /\ \/ SpillOk(r, warm_lru)
     \/ \E leftover \in {store[Key(r)], Torn} : SpillErr(r, warm_lru, leftover)

(* The future owns &mut self, so nothing interleaves with the await; it    *)
(* may be dropped there, with the file untouched, torn or complete.        *)
spill_region_async(r) ==
  /\ CanSpill(r)
  /\ \/ SpillOk(r, warm_lru)
     \/ \E leftover \in {store[Key(r)], Torn, regions[r].memory} :
          SpillErr(r, warm_lru, leftover)

(* load_region past its early return: a Hot region with memory is left.    *)
Loaded(r) ==
  /\ Live(r)
  /\ ~(regions[r].residency = "Hot" /\ regions[r].memory # NoMemory)
  /\ store[Key(r)] # NoMemory

load_region(r) ==
  /\ Loaded(r)
  /\ regions' = [regions EXCEPT ![r].memory = store[Key(r)], ![r].residency = "Hot"]
  /\ mishaps' = IF regions[r].residency = "Cold" THEN mishaps
                ELSE [mishaps EXCEPT ![r] = @ \cup {"load_not_cold"}]
  /\ UNCHANGED <<len, warm_lru, io, handles, era, logical>>

promote_region(r) ==
  \/ /\ Live(r)
     /\ regions[r].residency = "Warm"
     /\ regions' = [regions EXCEPT ![r].residency = "Hot"]
     /\ warm_lru' = lru_remove(warm_lru, r)
     /\ UNCHANGED <<len, io, handles, ghosts>>
  \/ Live(r) /\ regions[r].residency = "Cold" /\ load_region(r)

demote_region(r) ==
  /\ Live(r)
  /\ ~regions[r].pinned
  /\ regions[r].spillable
  /\ \/ /\ regions[r].residency = "Hot"
        /\ regions' = [regions EXCEPT ![r].residency = "Warm"]
        /\ warm_lru' = lru_push_front(warm_lru, r)
        /\ UNCHANGED <<len, io, handles, ghosts>>
     \/ regions[r].residency = "Warm" /\ spill_region(r)

(* What evict_warm_region looks for, scanning from the back of the LRU.    *)
Evictable(r) == Live(r) /\ ~regions[r].pinned /\ regions[r].residency = "Warm"
VictimPos == SelectLastInSeq(warm_lru, Evictable)

(* Ids behind the victim are dropped from the LRU; the victim is spilled,  *)
(* and an error of that spill (refused or failed) is returned as it is.    *)
evict_warm_region ==
  LET scanned == SubSeq(warm_lru, 1, VictimPos)
      victim == warm_lru[VictimPos]
  IN \/ /\ VictimPos # 0 => ~CanSpill(victim)
        /\ warm_lru' = scanned
        /\ UNCHANGED <<regions, len, io, handles, ghosts>>
     \/ /\ VictimPos # 0
        /\ CanSpill(victim)
        /\ \/ SpillOk(victim, scanned)
           \/ \E leftover \in {store[Key(victim)], Torn} :
                 SpillErr(victim, scanned, leftover)

(* The auto-fault loads a Cold region before the handle is validated.      *)
read_or_fault(h) ==
  Live(h.region) /\ regions[h.region].residency = "Cold" /\ load_region(h.region)

write_or_fault(h, c) ==
  LET r == h.region
  IN \/ Live(r) /\ regions[r].residency # "Cold" /\ write(h, c)
     \/ /\ Live(r) /\ regions[r].residency = "Cold"
        /\ Loaded(r)
        /\ LET lands == Valid(h) /\ store[Key(r)] \in Contents
           IN /\ regions' = [regions EXCEPT ![r].residency = "Hot",
                               ![r].memory = IF lands THEN c ELSE store[Key(r)]]
              /\ logical' = IF lands THEN [logical EXCEPT ![r] = c] ELSE logical
        /\ UNCHANGED <<len, warm_lru, io, handles, era, mishaps>>

mark_external(r) ==
  /\ Live(r)
  /\ ~regions[r].pinned
  /\ regions' = [regions EXCEPT ![r].memory = NoMemory, ![r].residency = "External"]
  /\ warm_lru' = lru_remove(warm_lru, r)
  /\ UNCHANGED <<len, io, handles, ghosts>>

(* The loader's bytes become the region's: history starts anew.            *)
load_external_region(r, c) ==
  /\ Live(r)
  /\ regions[r].residency = "External"
  /\ regions' = [regions EXCEPT ![r].memory = c, ![r].residency = "Hot"]
  /\ logical' = [logical EXCEPT ![r] = c]
  /\ mishaps' = [mishaps EXCEPT ![r] = {}]
  /\ UNCHANGED <<len, warm_lru, io, handles, era>>

snapshot_region(r) ==
  /\ Resident(r)
  /\ snapshot' \in {regions[r].memory, snapshot, Torn}
  /\ UNCHANGED <<regions, len, warm_lru, store, handles, ghosts>>

restore_region(r) ==
  /\ Live(r)
  /\ snapshot # NoMemory
  /\ regions' = [regions EXCEPT ![r].memory = snapshot, ![r].residency = "Hot"]
  /\ logical' = [logical EXCEPT ![r] = snapshot]
  /\ mishaps' = [mishaps EXCEPT ![r] = {}]
  /\ UNCHANGED <<len, warm_lru, io, handles, era>>

Next ==
  \/ \E p \in Policies : create_region(p)
  \/ \E r \in Ids :
       \/ destroy_region(r) \/ alloc(r) \/ pin(r) \/ unpin(r)
       \/ bump_generation(r) \/ compact_region(r)
       \/ spill_region(r) \/ spill_region_async(r)
       \/ load_region(r) \/ promote_region(r) \/ demote_region(r)
       \/ mark_external(r) \/ snapshot_region(r) \/ restore_region(r)
       \/ \E c \in Contents : load_external_region(r, c)
       \/ \E s \in Ids : cross_region_copy(s, r)
       \/ \E h \in handles : read_into(h, r) \/ write_from(r, h)
  \/ \E h \in handles :
       \/ read_or_fault(h)
       \/ \E c \in Contents : write(h, c) \/ write_or_fault(h, c)
  \/ evict_warm_region

Spec == Init /\ [][Next]_vars

-----------------------------------------------------------------------------
(* Properties *)

TypeOK ==
  /\ regions \in [Ids -> Entry \cup {NoEntry}]
  /\ len \in 0..MaxRegions
  /\ warm_lru \in Seq(Ids)
  /\ store \in [Ids \X Gens -> Memory]
  /\ snapshot \in Memory
  /\ handles \subseteq [region : Ids, generation : Gens, era : Nat]
  /\ era \in [Ids -> Nat]
  /\ logical \in [Ids -> Bytes]
  /\ mishaps \in [Ids -> SUBSET Mishaps]

(* What the next faulting read of region r finds.                          *)
Found(r) == IF regions[r].memory # NoMemory THEN regions[r].memory
            ELSE IF regions[r].residency = "Cold" THEN store[Key(r)]
            ELSE NoMemory

(* Whatever sequence of tier moves, evictions, faults, copies, compactions *)
(* and generation bumps a region goes through, a faulting read finds the   *)
(* bytes last written to it, unless the region met a mishap.               *)
BytesSurvive ==
  \A r \in Ids : Live(r) /\ regions[r].residency # "External" /\ mishaps[r] = {}
                  => Found(r) = logical[r]

(* The LRU list has no duplicates and names only regions that exist and    *)
(* are Hot or Warm, so evict_warm_region never chases a region that is     *)
(* gone, Cold or External.                                                 *)
LruSound ==
  /\ \A i, j \in DOMAIN warm_lru : warm_lru[i] = warm_lru[j] => i = j
  /\ \A i \in DOMAIN warm_lru :
        Live(warm_lru[i]) /\ regions[warm_lru[i]].residency \in {"Hot", "Warm"}

(* While a Warm region that cannot be pinned exists, evict_warm_region     *)
(* finds a victim, and the spill of that victim is not refused unless its  *)
(* policy forbids spilling or an earlier spill of it was interrupted.      *)
EvictionFindsWarm ==
  (\E r \in Ids : Live(r) /\ regions[r].residency = "Warm" /\ ~regions[r].pinnable)
  => /\ VictimPos # 0
     /\ LET v == warm_lru[VictimPos]
        IN regions[v].spillable /\ "spill_interrupted" \notin mishaps[v]
           => CanSpill(v)

(* A handle is accepted exactly when the number of generation bumps since  *)
(* it was issued is a multiple of 65535 (LastGen).                         *)
HandlesExact ==
  \A h \in handles : Live(h.region) =>
     (Valid(h) <=> (era[h.region] - h.era) % LastGen = 0)

(* No operation but destroy_region takes the memory of a pinned region.    *)
PinnedStaysResident ==
  [][\A r \in Ids : Resident(r) /\ regions[r].pinned /\ Live(r)' => Resident(r)']_vars

=============================================================================
