------------------------ MODULE RegionDirectory_proofs ------------------------
(* Proofs about RegionDirectory, for any number of regions, any contents,    *)
(* any policies and any generation width.                                    *)
EXTENDS RegionDirectory, TvmLemmas

USE DEF Ids, Gens, Bytes, Memory, Entry, Residency, Policy, Live, Resident, Key, Valid

-----------------------------------------------------------------------------
(* The LRU list *)

(* Removing an id from the LRU list leaves a list of ids.                    *)
LEMMA LruRemoveType ==
  ASSUME NEW lru \in Seq(Ids), NEW r \in Ids
  PROVE  lru_remove(lru, r) \in Seq(Ids)
<1>1. CASE ~ \E i \in 1..Len(lru) : lru[i] = r
  BY <1>1 DEF lru_remove, RemoveFirst
<1>2. CASE \E i \in 1..Len(lru) : lru[i] = r
  <2> DEFINE I == {i \in 1..Len(lru) : lru[i] = r}
  <2>1. I \in SUBSET Nat /\ I # {}
    BY <1>2
  <2>2. Min(I) \in 1..Len(lru)
    BY <2>1, MinProperties
  <2>3. lru_remove(lru, r) = SubSeq(lru, 1, Min(I) - 1) \o SubSeq(lru, Min(I) + 1, Len(lru))
    BY <1>2, <2>1 DEF lru_remove, RemoveFirst, RemoveAt, SelectInSeq
  <2> HIDE DEF I
  <2>4. SubSeq(lru, 1, Min(I) - 1) \in Seq(Ids)
    <3>1. 1 \in Nat \ {0} /\ Min(I) - 1 \in Nat /\ Min(I) - 1 <= Len(lru)
      BY <2>2
    <3> QED BY <3>1, SubSeqType, Zenon
  <2>5. SubSeq(lru, Min(I) + 1, Len(lru)) \in Seq(Ids)
    <3>1. Min(I) + 1 \in Nat \ {0} /\ Len(lru) \in Nat /\ Len(lru) <= Len(lru)
      BY <2>2
    <3> QED BY <3>1, SubSeqType, Zenon
  <2> QED BY <2>3, <2>4, <2>5, ConcatProperties
<1> QED BY <1>1, <1>2

(* The eviction scan stops at a position of the list, or at 0.               *)
LEMMA VictimPosType ==
  ASSUME warm_lru \in Seq(Ids)
  PROVE  /\ VictimPos \in 0..Len(warm_lru)
         /\ VictimPos # 0 => warm_lru[VictimPos] \in Ids /\ Evictable(warm_lru[VictimPos])
         /\ SubSeq(warm_lru, 1, VictimPos) \in Seq(Ids)
<1> DEFINE I == {i \in 1..Len(warm_lru) : Evictable(warm_lru[i])}
<1>1. VictimPos = IF I # {} THEN Max(I) ELSE 0
  BY DEF VictimPos, SelectLastInSeq
<1>2. I # {} => Max(I) \in I
  <2>1. I \in SUBSET (0..Len(warm_lru)) /\ Len(warm_lru) \in Nat
    OBVIOUS
  <2> HIDE DEF I
  <2> QED BY <2>1, MaxProperties
<1>3. VictimPos \in 0..Len(warm_lru)
  BY <1>1, <1>2
<1>4. SubSeq(warm_lru, 1, VictimPos) \in Seq(Ids)
  <2>1. 1 \in Nat \ {0} /\ VictimPos \in Nat /\ VictimPos <= Len(warm_lru)
    BY <1>3
  <2> QED BY <2>1, SubSeqType, Zenon
<1> QED BY <1>1, <1>2, <1>3, <1>4

-----------------------------------------------------------------------------
(* Type correctness *)

(* A live slot holds an entry.                                               *)
LEMMA LiveEntry ==
  ASSUME TypeOK, NEW r \in Ids, Live(r)
  PROVE  regions[r] \in Entry /\ Key(r) \in Ids \X Gens /\ store[Key(r)] \in Memory
  BY DEF TypeOK

(* The next generation is a generation: 0 is never one.                      *)
LEMMA NextGenType ==
  ASSUME NEW g \in Gens
  PROVE  NextGen(g) \in Gens
  BY BoundsAssumption DEF NextGen

(* A spill that reaches the store keeps the types.                           *)
LEMMA SpillOkType ==
  ASSUME TypeOK, NEW r \in Ids, NEW lru \in Seq(Ids), SpillOk(r, lru)
  PROVE  TypeOK'
<1>1. regions[r] \in Entry /\ Key(r) \in Ids \X Gens
  BY LiveEntry DEF SpillOk, CanSpill
<1>2. warm_lru' \in Seq(Ids)
  BY LruRemoveType DEF SpillOk
<1>3. regions' \in [Ids -> Entry \cup {NoEntry}]
  BY <1>1 DEF SpillOk, TypeOK
<1>4. store' \in [Ids \X Gens -> Memory]
  BY <1>1 DEF SpillOk, TypeOK
<1> QED BY <1>2, <1>3, <1>4 DEF SpillOk, TypeOK, ghosts

(* So does one that fails there, whatever it leaves in the file.             *)
LEMMA SpillErrType ==
  ASSUME TypeOK, NEW r \in Ids, NEW lru \in Seq(Ids), NEW leftover \in Memory,
         SpillErr(r, lru, leftover)
  PROVE  TypeOK'
<1>1. regions[r] \in Entry /\ Key(r) \in Ids \X Gens
  BY LiveEntry DEF SpillErr, CanSpill
<1>2. regions' \in [Ids -> Entry \cup {NoEntry}]
  BY <1>1 DEF SpillErr, TypeOK
<1>3. store' \in [Ids \X Gens -> Memory]
  BY <1>1 DEF SpillErr, TypeOK
<1>4. mishaps' \in [Ids -> SUBSET Mishaps]
  BY DEF SpillErr, TypeOK, Mishaps
<1> QED BY <1>2, <1>3, <1>4 DEF SpillErr, TypeOK

(* Both spill operations have only those two outcomes.                       *)
LEMMA SpillRegionType ==
  ASSUME TypeOK, NEW r \in Ids, spill_region(r) \/ spill_region_async(r)
  PROVE  TypeOK'
<1>1. warm_lru \in Seq(Ids) /\ regions[r] \in Entry /\ store[Key(r)] \in Memory
  BY LiveEntry DEF TypeOK, spill_region, spill_region_async, CanSpill
<1>2. regions[r].memory \in Memory /\ Torn \in Memory
  BY <1>1
<1>3. CASE SpillOk(r, warm_lru)
  BY <1>1, <1>3, SpillOkType
<1>4. CASE \E leftover \in Memory : SpillErr(r, warm_lru, leftover)
  BY <1>1, <1>4, SpillErrType
<1> QED BY <1>1, <1>2, <1>3, <1>4 DEF spill_region, spill_region_async

(* Loading installs bytes of the store.                                      *)
LEMMA LoadRegionType ==
  ASSUME TypeOK, NEW r \in Ids, load_region(r)
  PROVE  TypeOK'
<1>1. regions[r] \in Entry /\ store[Key(r)] \in Memory
  BY LiveEntry DEF load_region, Loaded
<1>2. regions' \in [Ids -> Entry \cup {NoEntry}]
  BY <1>1 DEF load_region, TypeOK
<1>3. mishaps' \in [Ids -> SUBSET Mishaps]
  BY DEF load_region, TypeOK, Mishaps
<1> QED BY <1>2, <1>3 DEF load_region, TypeOK, io

(* Writing through a handle installs the caller's bytes.                     *)
LEMMA WriteType ==
  ASSUME TypeOK, NEW h \in handles, NEW c \in Contents, write(h, c)
  PROVE  TypeOK'
<1>1. h.region \in Ids
  BY DEF TypeOK
<1>2. regions[h.region] \in Entry
  BY <1>1, LiveEntry DEF write
<1>3. regions' \in [Ids -> Entry \cup {NoEntry}]
  BY <1>1, <1>2 DEF write, TypeOK
<1>4. logical' \in [Ids -> Bytes]
  BY <1>1 DEF write, TypeOK
<1> QED BY <1>3, <1>4 DEF write, TypeOK, io

(* Copying installs the bytes of another region.                             *)
LEMMA CopyType ==
  ASSUME TypeOK, NEW src \in Ids, NEW dst \in Ids, cross_region_copy(src, dst)
  PROVE  TypeOK'
<1>1. regions[dst] \in Entry
  BY LiveEntry DEF cross_region_copy
<1>2. regions' \in [Ids -> Entry \cup {NoEntry}]
  BY <1>1 DEF cross_region_copy, TypeOK
<1>3. logical' \in [Ids -> Bytes]
  BY DEF cross_region_copy, TypeOK
<1> QED BY <1>2, <1>3 DEF cross_region_copy, TypeOK, io

(* Every step keeps the types: one case per operation of the directory.      *)
LEMMA NextType == TypeOK /\ [Next]_vars => TypeOK'
<1> SUFFICES ASSUME TypeOK, [Next]_vars PROVE TypeOK'
  OBVIOUS
<1>1. ASSUME NEW p \in Policies, create_region(p) PROVE TypeOK'
  <2>1. len \in Ids /\ len' \in 0..MaxRegions /\ p \in Policy
    BY <1>1, BoundsAssumption, PolicyAssumption DEF create_region, TypeOK
  <2>2. regions' \in [Ids -> Entry \cup {NoEntry}]
    BY <1>1, <2>1, ContentsAssumption, BoundsAssumption DEF create_region, TypeOK
  <2>3. warm_lru' \in Seq(Ids)
    <3>1. <<len>> \in Seq(Ids) /\ warm_lru \in Seq(Ids)
      BY <2>1 DEF TypeOK
    <3>2. <<len>> \o warm_lru \in Seq(Ids)
      BY <3>1, ConcatProperties
    <3> QED BY <1>1, <3>1, <3>2 DEF create_region
  <2> QED BY <1>1, <2>1, <2>2, <2>3 DEF create_region, TypeOK, io, ghosts
<1>2. ASSUME NEW r \in Ids, destroy_region(r) PROVE TypeOK'
  BY <1>2, LruRemoveType DEF destroy_region, TypeOK, io, ghosts
<1>3. ASSUME NEW r \in Ids, alloc(r) PROVE TypeOK'
  BY <1>3, LiveEntry DEF alloc, TypeOK, io, ghosts
<1>4. ASSUME NEW r \in Ids, pin(r) \/ unpin(r) PROVE TypeOK'
  <2>1. regions[r] \in Entry
    BY <1>4, LiveEntry DEF pin, unpin
  <2>2. PICK b \in BOOLEAN : regions' = [regions EXCEPT ![r].pinned = b]
    BY <1>4 DEF pin, unpin
  <2>3. regions' \in [Ids -> Entry \cup {NoEntry}]
    BY <2>1, <2>2 DEF TypeOK
  <2> QED BY <1>4, <2>3 DEF pin, unpin, TypeOK, io, ghosts
<1>5. ASSUME NEW r \in Ids, bump_generation(r) \/ compact_region(r) PROVE TypeOK'
  <2>1. regions[r] \in Entry /\ NextGen(regions[r].generation) \in Gens
    BY <1>5, LiveEntry, NextGenType DEF bump_generation, compact_region
  <2>2. regions' \in [Ids -> Entry \cup {NoEntry}]
    <3>1. regions' = [regions EXCEPT ![r].generation = NextGen(@)]
      BY <1>5 DEF bump_generation, compact_region
    <3> QED BY <2>1, <3>1 DEF TypeOK
  <2>3. era' \in [Ids -> Nat] /\ mishaps' \in [Ids -> SUBSET Mishaps]
    <3>1. CASE bump_generation(r)
      BY <3>1 DEF bump_generation, TypeOK, Mishaps
    <3>2. CASE compact_region(r)
      BY <3>2 DEF compact_region, TypeOK
    <3> QED BY <1>5, <3>1, <3>2
  <2> QED BY <1>5, <2>2, <2>3 DEF bump_generation, compact_region, TypeOK, io
<1>6. ASSUME NEW r \in Ids, promote_region(r) PROVE TypeOK'
  <2>1. CASE load_region(r)
    BY <2>1, LoadRegionType
  <2>2. CASE ~load_region(r)
    <3>1. regions[r] \in Entry /\ lru_remove(warm_lru, r) \in Seq(Ids)
      BY <1>6, LiveEntry, LruRemoveType DEF promote_region, TypeOK
    <3>2. /\ regions' = [regions EXCEPT ![r].residency = "Hot"]
          /\ warm_lru' = lru_remove(warm_lru, r)
          /\ UNCHANGED <<len, io, handles, ghosts>>
      BY <1>6, <2>2 DEF promote_region
    <3>3. regions' \in [Ids -> Entry \cup {NoEntry}]
      BY <3>1, <3>2 DEF TypeOK
    <3> QED BY <3>1, <3>2, <3>3 DEF TypeOK, io, ghosts
  <2> QED BY <2>1, <2>2
<1>7. ASSUME NEW r \in Ids, demote_region(r) PROVE TypeOK'
  <2>1. CASE spill_region(r)
    BY <2>1, SpillRegionType
  <2>2. CASE ~spill_region(r)
    <3>1. regions[r] \in Entry /\ lru_push_front(warm_lru, r) \in Seq(Ids)
      BY <1>7, LiveEntry, LruRemoveType DEF demote_region, lru_push_front, TypeOK
    <3>2. /\ regions' = [regions EXCEPT ![r].residency = "Warm"]
          /\ warm_lru' = lru_push_front(warm_lru, r)
          /\ UNCHANGED <<len, io, handles, ghosts>>
      BY <1>7, <2>2 DEF demote_region
    <3>3. regions' \in [Ids -> Entry \cup {NoEntry}]
      BY <3>1, <3>2 DEF TypeOK
    <3> QED BY <3>1, <3>2, <3>3 DEF TypeOK, io, ghosts
  <2> QED BY <2>1, <2>2
<1>8. ASSUME NEW r \in Ids, mark_external(r) PROVE TypeOK'
  <2>1. regions[r] \in Entry /\ lru_remove(warm_lru, r) \in Seq(Ids)
    BY <1>8, LiveEntry, LruRemoveType DEF mark_external, TypeOK
  <2> QED BY <1>8, <2>1 DEF mark_external, TypeOK, io, ghosts
<1>9. ASSUME NEW r \in Ids, snapshot_region(r) PROVE TypeOK'
  <2>1. regions[r] \in Entry
    BY <1>9, LiveEntry DEF snapshot_region
  <2> QED BY <1>9, <2>1 DEF snapshot_region, TypeOK, ghosts
<1>10. ASSUME NEW r \in Ids, NEW b \in Bytes,
              regions[r] \in Entry,
              regions' = [regions EXCEPT ![r].memory = b, ![r].residency = "Hot"],
              logical' = [logical EXCEPT ![r] = b],
              mishaps' = [mishaps EXCEPT ![r] = {}],
              UNCHANGED <<len, warm_lru, io, handles, era>>
       PROVE  TypeOK'
  BY <1>10 DEF TypeOK, io
<1>11. ASSUME NEW r \in Ids, restore_region(r) PROVE TypeOK'
  <2>1. snapshot \in Bytes /\ regions[r] \in Entry
    BY <1>11, LiveEntry DEF restore_region, TypeOK
  <2> QED BY <1>10, <1>11, <2>1 DEF restore_region
<1>12. ASSUME NEW r \in Ids, NEW c \in Contents, load_external_region(r, c) PROVE TypeOK'
  <2>1. c \in Bytes /\ regions[r] \in Entry
    BY <1>12, LiveEntry DEF load_external_region
  <2> QED BY <1>10, <1>12, <2>1 DEF load_external_region
<1>13. ASSUME NEW h \in handles, NEW r \in Ids, read_into(h, r) \/ write_from(r, h)
       PROVE  TypeOK'
  <2>1. h.region \in Ids
    BY DEF TypeOK
  <2> QED BY <1>13, <2>1, CopyType DEF read_into, write_from
<1>14. ASSUME NEW h \in handles, read_or_fault(h) PROVE TypeOK'
  <2>1. h.region \in Ids
    BY DEF TypeOK
  <2> QED BY <1>14, <2>1, LoadRegionType DEF read_or_fault
<1>15. ASSUME NEW h \in handles, NEW c \in Contents, write_or_fault(h, c) PROVE TypeOK'
  <2> DEFINE r == h.region
  <2>1. r \in Ids
    BY DEF TypeOK
  <2>2. CASE write(h, c)
    BY <2>2, WriteType
  <2>3. CASE ~write(h, c)
    <3>1. regions[r] \in Entry /\ store[Key(r)] \in Memory
      BY <1>15, <2>1, LiveEntry DEF write_or_fault
    <3>2. regions' \in [Ids -> Entry \cup {NoEntry}]
      <4>1. PICK b \in Memory :
              regions' = [regions EXCEPT ![r].residency = "Hot", ![r].memory = b]
        BY <1>15, <2>3, <3>1 DEF write_or_fault
      <4> QED BY <2>1, <3>1, <4>1 DEF TypeOK
    <3>3. logical' \in [Ids -> Bytes]
      BY <1>15, <2>1, <2>3 DEF write_or_fault, TypeOK
    <3> QED BY <1>15, <2>3, <3>2, <3>3 DEF write_or_fault, TypeOK, io
  <2> QED BY <2>2, <2>3
<1>16. CASE evict_warm_region
  <2> DEFINE scanned == SubSeq(warm_lru, 1, VictimPos)
             victim == warm_lru[VictimPos]
  <2>1. scanned \in Seq(Ids) /\ (VictimPos # 0 => victim \in Ids)
    BY VictimPosType DEF TypeOK
  <2>2. CASE warm_lru' = scanned /\ UNCHANGED <<regions, len, io, handles, ghosts>>
    BY <2>1, <2>2 DEF TypeOK, io, ghosts
  <2>3. CASE VictimPos # 0 /\ SpillOk(victim, scanned)
    BY <2>1, <2>3, SpillOkType
  <2>4. CASE /\ VictimPos # 0
             /\ CanSpill(victim)
             /\ \E leftover \in {store[Key(victim)], Torn} :
                   SpillErr(victim, scanned, leftover)
    <3>1. store[Key(victim)] \in Memory
      BY <2>1, <2>4, LiveEntry DEF CanSpill
    <3> QED BY <2>1, <2>4, <3>1, SpillErrType
  <2> QED BY <1>16, <2>2, <2>3, <2>4 DEF evict_warm_region
<1>17. CASE UNCHANGED vars
  BY <1>17 DEF vars, TypeOK
<1> QED BY <1>1, <1>2, <1>3, <1>4, <1>5, <1>6, <1>7, <1>8, <1>9, <1>11, <1>12,
           <1>13, <1>14, <1>15, <1>16, <1>17, SpillRegionType, LoadRegionType,
           WriteType, CopyType DEF Next

(* Type correctness of the directory.                                        *)
THEOREM TypeCorrect == Spec => []TypeOK
<1>1. Init => TypeOK
  BY ContentsAssumption, BoundsAssumption DEF Init, TypeOK, Mishaps
<1> QED BY <1>1, NextType, PTL DEF Spec

-----------------------------------------------------------------------------
(* Bytes survive tiering *)

(* Where the bytes of region r are: in memory while it is Hot or Warm, in    *)
(* the file of its present generation, and nowhere else, while it is Cold.   *)
(* The memory half is what BytesSurvive lacks to be inductive: a Cold        *)
(* region with stale memory would hide its file.                             *)
Safe(r) ==
  Live(r) /\ mishaps[r] = {} =>
    \/ regions[r].residency = "External" /\ regions[r].memory = NoMemory
    \/ regions[r].residency \in {"Hot", "Warm"} /\ regions[r].memory = logical[r]
    \/ /\ regions[r].residency = "Cold"
       /\ regions[r].memory = NoMemory
       /\ store[Key(r)] = logical[r]
(* Slots not yet pushed are empty, with the history of a fresh region.       *)
Fresh(r) == r >= len => ~Live(r) /\ logical[r] = Zero

IInv == TypeOK /\ \A r \in Ids : Safe(r) /\ Fresh(r)

(* A step that touches only region r, and its files, leaves every other      *)
(* region as it was.                                                         *)
LEMMA FrameSafe ==
  ASSUME IInv, TypeOK', NEW r \in Ids, len' = len, Safe(r)', Fresh(r)',
         \A q \in Ids : q # r =>
            /\ regions'[q] = regions[q]
            /\ logical'[q] = logical[q]
            /\ mishaps'[q] = mishaps[q]
            /\ \A g \in Gens : store'[<<q, g>>] = store[<<q, g>>]
  PROVE  IInv'
<1>1. ASSUME NEW q \in Ids, q # r PROVE Safe(q)' /\ Fresh(q)'
  <2>1. Safe(q) /\ Fresh(q)
    BY DEF IInv
  <2>2. Live(q) => regions[q].generation \in Gens
    BY LiveEntry DEF IInv
  <2> QED BY <1>1, <2>1, <2>2 DEF Safe, Fresh
<1> QED BY <1>1 DEF IInv

(* A spill that reaches the store moves the bytes to the region's file.      *)
LEMMA SpillOkSafe ==
  ASSUME IInv, NEW r \in Ids, NEW lru \in Seq(Ids), SpillOk(r, lru)
  PROVE  IInv'
<1>1. TypeOK' /\ regions[r] \in Entry /\ Key(r) \in Ids \X Gens
  BY SpillOkType, LiveEntry DEF IInv, SpillOk, CanSpill
<1>2. Safe(r)
  BY DEF IInv
<1>3. Fresh(r)'
  BY DEF IInv, Fresh, SpillOk, CanSpill, ghosts
<1>4. regions'[r].generation = regions[r].generation /\ regions'[r].memory = NoMemory
      /\ regions'[r].residency = "Cold" /\ store'[Key(r)] = regions[r].memory
  BY <1>1 DEF SpillOk, IInv, TypeOK
<1>5. Safe(r)'
  BY <1>1, <1>2, <1>4 DEF Safe, SpillOk, CanSpill, ghosts
<1> QED BY <1>1, <1>3, <1>5, FrameSafe DEF SpillOk, ghosts, IInv, TypeOK

(* One that fails takes the region out of the promise.                       *)
LEMMA SpillErrSafe ==
  ASSUME IInv, NEW r \in Ids, NEW lru \in Seq(Ids), NEW leftover \in Memory,
         SpillErr(r, lru, leftover)
  PROVE  IInv'
<1>1. TypeOK' /\ Key(r) \in Ids \X Gens
  BY SpillErrType, LiveEntry DEF IInv, SpillErr, CanSpill
<1>2. mishaps'[r] # {}
  BY DEF SpillErr, IInv, TypeOK
<1>3. Safe(r)' /\ Fresh(r)'
  BY <1>2 DEF Safe, Fresh, IInv, SpillErr, CanSpill
<1> QED BY <1>1, <1>3, FrameSafe DEF SpillErr, IInv, TypeOK

(* Both spill operations have only those two outcomes.                       *)
LEMMA SpillRegionSafe ==
  ASSUME IInv, NEW r \in Ids, spill_region(r) \/ spill_region_async(r)
  PROVE  IInv'
<1>1. warm_lru \in Seq(Ids) /\ regions[r] \in Entry /\ store[Key(r)] \in Memory
  BY LiveEntry DEF IInv, TypeOK, spill_region, spill_region_async, CanSpill
<1>2. regions[r].memory \in Memory /\ Torn \in Memory
  BY <1>1
<1>3. CASE SpillOk(r, warm_lru)
  BY <1>1, <1>3, SpillOkSafe
<1>4. CASE \E leftover \in Memory : SpillErr(r, warm_lru, leftover)
  BY <1>1, <1>4, SpillErrSafe
<1> QED BY <1>1, <1>2, <1>3, <1>4 DEF spill_region, spill_region_async

(* Loading a Cold region brings its file back; loading any other is a mishap.*)
LEMMA LoadRegionSafe ==
  ASSUME IInv, NEW r \in Ids, load_region(r)
  PROVE  IInv'
<1>1. TypeOK' /\ regions[r] \in Entry /\ Safe(r)
  BY LoadRegionType, LiveEntry DEF IInv, load_region, Loaded
<1>2. regions'[r].memory = store[Key(r)] /\ regions'[r].residency = "Hot"
  BY <1>1 DEF load_region, IInv, TypeOK
<1>3. CASE regions[r].residency = "Cold"
  <2>1. Safe(r)'
    BY <1>1, <1>2, <1>3 DEF Safe, load_region, Loaded
  <2>2. Fresh(r)'
    BY DEF Fresh, IInv, load_region, Loaded
  <2> QED BY <1>1, <1>3, <2>1, <2>2, FrameSafe DEF load_region, io, IInv, TypeOK
<1>4. CASE regions[r].residency # "Cold"
  <2>1. mishaps'[r] # {}
    BY <1>4 DEF load_region, IInv, TypeOK
  <2>2. Safe(r)' /\ Fresh(r)'
    BY <2>1 DEF Safe, Fresh, IInv, load_region, Loaded
  <2> QED BY <1>1, <1>4, <2>2, FrameSafe DEF load_region, io, IInv, TypeOK
<1> QED BY <1>3, <1>4

(* A write and a copy change memory and history together, and need memory.   *)
LEMMA InstallSafe ==
  ASSUME IInv, TypeOK', NEW r \in Ids, NEW b \in Contents,
         Live(r), regions[r].memory \in Contents,
         regions' = [regions EXCEPT ![r].memory = b],
         logical' = [logical EXCEPT ![r] = b],
         UNCHANGED <<len, store, mishaps>>
  PROVE  IInv'
<1>1. regions[r] \in Entry /\ Safe(r) /\ Fresh(r)
  BY LiveEntry DEF IInv
<1>2. /\ regions'[r].memory = b /\ logical'[r] = b
      /\ regions'[r].residency = regions[r].residency
  BY <1>1 DEF IInv, TypeOK
<1>3. Safe(r)' /\ Fresh(r)'
  BY <1>1, <1>2, ContentsAssumption DEF Safe, Fresh, IInv, TypeOK
<1> QED BY <1>3, FrameSafe DEF IInv, TypeOK

(* restore_region and load_external_region start a region's history anew.    *)
LEMMA ReplaceSafe ==
  ASSUME IInv, TypeOK', NEW r \in Ids, NEW b, Live(r),
         regions' = [regions EXCEPT ![r].memory = b, ![r].residency = "Hot"],
         logical' = [logical EXCEPT ![r] = b],
         mishaps' = [mishaps EXCEPT ![r] = {}],
         UNCHANGED <<len, store>>
  PROVE  IInv'
<1>1. regions[r] \in Entry /\ Fresh(r)
  BY LiveEntry DEF IInv
<1>2. regions'[r].memory = b /\ logical'[r] = b /\ regions'[r].residency = "Hot"
  BY <1>1 DEF IInv, TypeOK
<1>3. Safe(r)' /\ Fresh(r)'
  BY <1>1, <1>2 DEF Safe, Fresh, IInv, TypeOK
<1> QED BY <1>3, FrameSafe DEF IInv, TypeOK

(* Every step keeps the inductive invariant.                                 *)
LEMMA NextSafe == IInv /\ [Next]_vars => IInv'
<1> SUFFICES ASSUME IInv, [Next]_vars PROVE IInv'
  OBVIOUS
<1>0. TypeOK /\ TypeOK'
  BY NextType DEF IInv
<1>1. ASSUME NEW p \in Policies, create_region(p) PROVE IInv'
  <2>1. len \in Ids /\ Fresh(len) /\ mishaps[len] \in SUBSET Mishaps
    BY <1>0, <1>1, BoundsAssumption DEF create_region, TypeOK, IInv
  <2>2. /\ regions'[len] # NoEntry /\ regions'[len].memory = Zero
        /\ regions'[len].residency \in {"Hot", "Warm"}
    <3>1. p \in Policy
      BY PolicyAssumption
    <3>2. regions'[len] =
            [generation |-> 1, residency |-> p.initial, pinned |-> FALSE,
             pinnable |-> p.pinnable, spillable |-> p.spillable, memory |-> Zero]
      BY <1>0, <1>1, <2>1 DEF create_region, TypeOK
    <3>3. regions'[len] \in Entry
      BY <3>1, <3>2, ContentsAssumption, BoundsAssumption
    <3>4. regions'[len] # NoEntry
      BY <3>3, NoEntryAssumption
    <3>5. p.initial \in {"Hot", "Warm"}
      BY <3>1
    <3> QED BY <3>2, <3>4, <3>5
  <2>3. ASSUME NEW q \in Ids PROVE Safe(q)' /\ Fresh(q)'
    <3>1. Safe(q) /\ Fresh(q)
      BY DEF IInv
    <3>2. CASE q = len
      BY <1>0, <1>1, <2>1, <2>2, <3>2 DEF Safe, Fresh, create_region, io, ghosts, TypeOK
    <3>3. CASE q # len
      BY <1>0, <1>1, <2>1, <3>1, <3>3 DEF Safe, Fresh, create_region, io, ghosts, TypeOK
    <3> QED BY <3>2, <3>3
  <2> QED BY <1>0, <2>3 DEF IInv
<1>2. ASSUME NEW r \in Ids, destroy_region(r) PROVE IInv'
  <2>1. Safe(r)' /\ Fresh(r)'
    BY <1>0, <1>2 DEF Safe, Fresh, IInv, destroy_region, ghosts, TypeOK
  <2> QED BY <1>0, <1>2, <2>1, FrameSafe DEF destroy_region, io, ghosts, TypeOK
<1>3. ASSUME NEW r \in Ids, alloc(r) \/ snapshot_region(r) PROVE IInv'
  BY <1>0, <1>3 DEF alloc, snapshot_region, IInv, Safe, Fresh, io, ghosts
<1>4. ASSUME NEW r \in Ids, pin(r) \/ unpin(r) PROVE IInv'
  <2>1. regions[r] \in Entry /\ Safe(r) /\ Fresh(r)
    BY <1>4, LiveEntry DEF pin, unpin, IInv
  <2>2. /\ regions'[r].memory = regions[r].memory
        /\ regions'[r].residency = regions[r].residency
        /\ regions'[r].generation = regions[r].generation
    BY <1>0, <1>4, <2>1 DEF pin, unpin, TypeOK
  <2>3. Safe(r)' /\ Fresh(r)'
    BY <1>4, <2>1, <2>2 DEF Safe, Fresh, pin, unpin, io, ghosts
  <2>4. /\ len' = len
        /\ \A q \in Ids : q # r => /\ regions'[q] = regions[q]
                                   /\ logical'[q] = logical[q]
                                   /\ mishaps'[q] = mishaps[q]
                                   /\ \A g \in Gens : store'[<<q, g>>] = store[<<q, g>>]
    BY <1>0, <1>4 DEF pin, unpin, io, ghosts, TypeOK
  <2> QED BY <1>0, <2>3, <2>4, FrameSafe
<1>5. ASSUME NEW r \in Ids, bump_generation(r) \/ compact_region(r) PROVE IInv'
  <2>1. regions[r] \in Entry /\ Safe(r) /\ Fresh(r)
    BY <1>5, LiveEntry DEF bump_generation, compact_region, IInv
  <2>2. regions' = [regions EXCEPT ![r].generation = NextGen(@)]
    BY <1>5 DEF bump_generation, compact_region
  <2>3. /\ regions'[r].memory = regions[r].memory
        /\ regions'[r].residency = regions[r].residency
    BY <1>0, <2>1, <2>2 DEF TypeOK
  <2>4. len' = len /\ logical' = logical /\ store' = store
    BY <1>5 DEF bump_generation, compact_region, io
  <2>5. mishaps'[r] = {} => mishaps[r] = {} /\ (regions[r].residency # "Cold" \/ regions[r].memory # NoMemory)
    <3>1. CASE bump_generation(r)
      BY <1>0, <3>1 DEF bump_generation, TypeOK
    <3>2. CASE compact_region(r)
      BY <3>2, ContentsAssumption DEF compact_region
    <3> QED BY <1>5, <3>1, <3>2
  <2>6. Safe(r)' /\ Fresh(r)'
    BY <1>5, <2>1, <2>3, <2>4, <2>5 DEF Safe, Fresh, bump_generation, compact_region
  <2>7. \A q \in Ids : q # r => mishaps'[q] = mishaps[q] /\ regions'[q] = regions[q]
    <3>1. mishaps' = mishaps \/ mishaps' = [mishaps EXCEPT ![r] = @ \cup {"bumped_cold"}]
      BY <1>5 DEF bump_generation, compact_region
    <3> QED BY <1>0, <2>2, <3>1 DEF TypeOK
  <2> QED BY <1>0, <2>4, <2>6, <2>7, FrameSafe
<1>6. ASSUME NEW r \in Ids, Live(r), regions[r].residency \in {"Hot", "Warm"},
             NEW tier \in {"Hot", "Warm"},
             regions' = [regions EXCEPT ![r].residency = tier],
             UNCHANGED <<len, io, handles, ghosts>>
      PROVE  IInv'
  <2>1. regions[r] \in Entry /\ Safe(r) /\ Fresh(r)
    BY <1>6, LiveEntry DEF IInv
  <2>2. regions'[r].memory = regions[r].memory /\ regions'[r].residency = tier
    BY <1>0, <1>6, <2>1 DEF TypeOK
  <2>3. Safe(r)' /\ Fresh(r)'
    BY <1>6, <2>1, <2>2 DEF Safe, Fresh, ghosts
  <2> QED BY <1>0, <1>6, <2>3, FrameSafe DEF io, ghosts, TypeOK
<1>7. ASSUME NEW r \in Ids, promote_region(r) PROVE IInv'
  BY <1>6, <1>7, LoadRegionSafe DEF promote_region
<1>8. ASSUME NEW r \in Ids, demote_region(r) PROVE IInv'
  BY <1>6, <1>8, SpillRegionSafe DEF demote_region
<1>9. ASSUME NEW r \in Ids, mark_external(r) PROVE IInv'
  <2>1. regions'[r].memory = NoMemory /\ regions'[r].residency = "External"
    BY <1>0, <1>9, LiveEntry DEF mark_external, TypeOK
  <2>2. Safe(r)' /\ Fresh(r)'
    BY <1>9, <2>1 DEF Safe, Fresh, IInv, mark_external, ghosts
  <2> QED BY <1>0, <1>9, <2>2, FrameSafe DEF mark_external, io, ghosts, TypeOK
<1>10. ASSUME NEW r \in Ids, restore_region(r) PROVE IInv'
  BY <1>0, <1>10, ReplaceSafe DEF restore_region, io
<1>11. ASSUME NEW r \in Ids, NEW c \in Contents, load_external_region(r, c) PROVE IInv'
  BY <1>0, <1>11, ReplaceSafe DEF load_external_region, io
<1>12. ASSUME NEW s \in Ids, NEW r \in Ids, cross_region_copy(s, r) PROVE IInv'
  BY <1>0, <1>12, InstallSafe DEF cross_region_copy, io
<1>13. ASSUME NEW h \in handles PROVE h.region \in Ids
  BY <1>0 DEF TypeOK
<1>14. ASSUME NEW h \in handles, NEW r \in Ids, read_into(h, r) \/ write_from(r, h)
       PROVE  IInv'
  BY <1>12, <1>13, <1>14 DEF read_into, write_from
<1>15. ASSUME NEW h \in handles, read_or_fault(h) PROVE IInv'
  BY <1>13, <1>15, LoadRegionSafe DEF read_or_fault
<1>16. ASSUME NEW h \in handles, NEW c \in Contents, write(h, c) PROVE IInv'
  BY <1>0, <1>13, <1>16, InstallSafe DEF write, io
<1>17. ASSUME NEW h \in handles, NEW c \in Contents, write_or_fault(h, c) PROVE IInv'
  <2> DEFINE r == h.region
  <2>1. r \in Ids
    BY <1>13
  <2>2. CASE write(h, c)
    BY <1>16, <2>2
  <2>3. CASE ~write(h, c)
    <3>1. regions[r] \in Entry /\ Safe(r) /\ Fresh(r)
      BY <1>17, <2>1, LiveEntry DEF write_or_fault, IInv
    <3>2. /\ regions[r].residency = "Cold"
          /\ UNCHANGED <<len, warm_lru, io, handles, era, mishaps>>
      BY <1>17, <2>3 DEF write_or_fault
    <3>3. \/ /\ regions' = [regions EXCEPT ![r].residency = "Hot", ![r].memory = c]
             /\ logical' = [logical EXCEPT ![r] = c]
          \/ /\ regions' = [regions EXCEPT ![r].residency = "Hot", ![r].memory = store[Key(r)]]
             /\ logical' = logical
      BY <1>17, <2>3 DEF write_or_fault
    <3>4. Safe(r)'
      <4>1. CASE /\ regions' = [regions EXCEPT ![r].residency = "Hot", ![r].memory = c]
                 /\ logical' = [logical EXCEPT ![r] = c]
        <5>1. /\ regions'[r].residency = "Hot" /\ regions'[r].memory = c
              /\ logical'[r] = c
          BY <1>0, <2>1, <3>1, <4>1 DEF TypeOK
        <5> QED BY <5>1 DEF Safe
      <4>2. CASE /\ regions' = [regions EXCEPT ![r].residency = "Hot",
                                               ![r].memory = store[Key(r)]]
                 /\ logical' = logical
        <5>1. regions'[r].residency = "Hot" /\ regions'[r].memory = store[Key(r)]
          BY <1>0, <2>1, <3>1, <4>2 DEF TypeOK
        <5>2. mishaps[r] = {} => store[Key(r)] = logical[r]
          BY <1>17, <2>3, <3>1, <3>2 DEF Safe, write_or_fault
        <5>3. mishaps'[r] = mishaps[r] /\ logical'[r] = logical[r]
          BY <3>2, <4>2
        <5> QED BY <5>1, <5>2, <5>3 DEF Safe
      <4> QED BY <3>3, <4>1, <4>2
    <3>5. Fresh(r)'
      BY <1>0, <1>17, <2>1, <3>1, <3>2 DEF Fresh, write_or_fault, TypeOK
    <3>6. \A q \in Ids : q # r => logical'[q] = logical[q] /\ regions'[q] = regions[q]
      BY <1>0, <2>1, <3>3 DEF TypeOK
    <3> QED BY <1>0, <2>1, <3>2, <3>4, <3>5, <3>6, FrameSafe DEF io
  <2> QED BY <2>2, <2>3
<1>18. CASE evict_warm_region
  <2> DEFINE scanned == SubSeq(warm_lru, 1, VictimPos)
             victim == warm_lru[VictimPos]
  <2>1. scanned \in Seq(Ids) /\ (VictimPos # 0 => victim \in Ids)
    BY <1>0, VictimPosType DEF TypeOK
  <2>2. CASE warm_lru' = scanned /\ UNCHANGED <<regions, len, io, handles, ghosts>>
    BY <1>0, <2>2 DEF IInv, Safe, Fresh, io, ghosts
  <2>3. CASE VictimPos # 0 /\ SpillOk(victim, scanned)
    BY <2>1, <2>3, SpillOkSafe
  <2>4. CASE /\ VictimPos # 0
             /\ CanSpill(victim)
             /\ \E leftover \in {store[Key(victim)], Torn} :
                   SpillErr(victim, scanned, leftover)
    <3>1. store[Key(victim)] \in Memory
      BY <1>0, <2>1, <2>4, LiveEntry DEF CanSpill
    <3> QED BY <2>1, <2>4, <3>1, SpillErrSafe
  <2> QED BY <1>18, <2>2, <2>3, <2>4 DEF evict_warm_region
<1>19. CASE UNCHANGED vars
  BY <1>0, <1>19 DEF vars, IInv, Safe, Fresh
<1> QED BY <1>1, <1>2, <1>3, <1>4, <1>5, <1>7, <1>8, <1>9, <1>10, <1>11, <1>12, <1>14,
           <1>15, <1>16, <1>17, <1>18, <1>19, SpillRegionSafe, LoadRegionSafe DEF Next

(* The inductive invariant holds in every state the directory reaches.       *)
LEMMA SafeInvariance == Spec => []IInv
<1>1. Init => IInv
  <2>1. Init => TypeOK
    BY ContentsAssumption, BoundsAssumption DEF Init, TypeOK, Mishaps
  <2> QED BY <2>1 DEF Init, IInv, Safe, Fresh
<1> QED BY <1>1, NextSafe, PTL DEF Spec

(* Safe says where a faulting read finds the bytes.                          *)
LEMMA SafeFound == IInv => BytesSurvive
<1> SUFFICES ASSUME IInv, NEW r \in Ids, Live(r),
                    regions[r].residency # "External", mishaps[r] = {}
             PROVE  Found(r) = logical[r]
  BY DEF BytesSurvive
<1>1. Safe(r) /\ logical[r] \in Bytes /\ Bytes \cap {NoMemory} = {}
  BY ContentsAssumption DEF IInv, TypeOK
<1> QED BY <1>1 DEF Safe, Found

(* Outside the three mishaps, no sequence of directory operations loses or   *)
(* replaces the bytes last written to a region.                              *)
THEOREM BytesSurviveTiering == Spec => []BytesSurvive
  BY SafeInvariance, SafeFound, PTL

-----------------------------------------------------------------------------
(* Handles *)

(* A generation is the number of bumps, counted from 1 and wrapped past      *)
(* LastGen; a slot not yet pushed has had none.                              *)
Wrapped(n) == (n % LastGen) + 1
GenInv ==
  /\ \A r \in Ids : /\ Live(r) => regions[r].generation = Wrapped(era[r])
                    /\ r >= len => era[r] = 0
  /\ \A h \in handles : h.generation = Wrapped(h.era)

(* wrapping_add(1) that skips 0 is the wrapped count of one bump more.       *)
LEMMA NextGenWraps ==
  ASSUME NEW n \in Nat
  PROVE  NextGen(Wrapped(n)) = Wrapped(n + 1)
<1>1. LastGen \in Nat \ {0} /\ n \in Int
  BY BoundsAssumption
<1>2. (n + 1) % LastGen = IF n % LastGen = LastGen - 1 THEN 0 ELSE (n % LastGen) + 1
  BY <1>1, RemainderNext, Zenon
<1>3. n % LastGen \in 0..(LastGen - 1)
  BY <1>1, Division, Zenon
<1> QED BY <1>1, <1>2, <1>3 DEF NextGen, Wrapped

(* A step that issues no handle and keeps the generation of every live       *)
(* region keeps GenInv.                                                      *)
LEMMA SameGenerations ==
  ASSUME GenInv, len' = len, handles' = handles, era' = era,
         \A r \in Ids : regions'[r] # NoEntry =>
            Live(r) /\ regions'[r].generation = regions[r].generation
  PROVE  GenInv'
BY DEF GenInv

(* A step that replaces the entry of r, or empties its slot.                 *)
LEMMA OneEntry ==
  ASSUME TypeOK, GenInv, NEW r \in Ids, Live(r), NEW e,
         regions' = [regions EXCEPT ![r] = e],
         e # NoEntry => e.generation = regions[r].generation,
         len' = len, handles' = handles, era' = era
  PROVE  GenInv'
<1>1. regions'[r] = e /\ \A q \in Ids \ {r} : regions'[q] = regions[q]
  BY DEF TypeOK
<1> QED BY <1>1, SameGenerations

(* bump_generation and compact_region advance generation and era together.   *)
LEMMA BumpGen ==
  ASSUME TypeOK, GenInv, IInv, NEW r \in Ids, bump_generation(r) \/ compact_region(r)
  PROVE  GenInv'
<1>1. Live(r) /\ regions[r] \in Entry /\ era \in [Ids -> Nat] /\ len' = len /\ handles' = handles
  BY LiveEntry DEF bump_generation, compact_region, TypeOK
<1>2. /\ regions' = [regions EXCEPT ![r].generation = NextGen(@)]
      /\ era' = [era EXCEPT ![r] = @ + 1]
  BY DEF bump_generation, compact_region
<1>3. /\ regions'[r] = [regions[r] EXCEPT !.generation = NextGen(regions[r].generation)]
      /\ \A q \in Ids \ {r} : regions'[q] = regions[q]
  BY <1>2 DEF TypeOK
<1>4. regions'[r].generation = NextGen(regions[r].generation)
  BY <1>1, <1>3
<1>5. era'[r] = era[r] + 1 /\ \A q \in Ids \ {r} : era'[q] = era[q]
  BY <1>1, <1>2
<1>6. regions'[r].generation = Wrapped(era'[r])
  BY <1>1, <1>4, <1>5, NextGenWraps DEF GenInv
<1>7. ~(r >= len)
  BY <1>1 DEF IInv, Fresh
<1>8. ASSUME NEW q \in Ids
      PROVE  /\ regions'[q] # NoEntry => regions'[q].generation = Wrapped(era'[q])
             /\ q >= len' => era'[q] = 0
  BY <1>1, <1>3, <1>5, <1>6, <1>7 DEF GenInv
<1>9. \A h \in handles' : h.generation = Wrapped(h.era)
  BY <1>1 DEF GenInv
<1> QED BY <1>8, <1>9 DEF GenInv

(* A region starts at generation 1, with no bump.                            *)
LEMMA CreateGen ==
  ASSUME TypeOK, GenInv, NEW p \in Policies, create_region(p)
  PROVE  GenInv'
<1>1. len \in Ids /\ len' = len + 1 /\ handles' = handles /\ era' = era
  BY BoundsAssumption DEF create_region, TypeOK, ghosts
<1>2. regions'[len].generation = 1 /\ \A q \in Ids \ {len} : regions'[q] = regions[q]
  BY <1>1 DEF create_region, TypeOK
<1>3. Wrapped(0) = 1
  <2>1. 0 = LastGen * 0 + 0 /\ 0 \in 0..(LastGen - 1) /\ LastGen \in Nat \ {0}
    BY BoundsAssumption
  <2>2. 0 % LastGen = 0
    BY <2>1, RemainderUnique
  <2> QED BY <2>2 DEF Wrapped
<1>4. era[len] = 0
  BY <1>1 DEF GenInv
<1>5. ASSUME NEW q \in Ids
      PROVE  /\ regions'[q] # NoEntry => regions'[q].generation = Wrapped(era'[q])
             /\ q >= len' => era'[q] = 0
  <2>1. q >= len + 1 => q >= len
    BY <1>1
  <2> QED BY <1>1, <1>2, <1>3, <1>4, <2>1 DEF GenInv
<1>6. \A h \in handles' : h.generation = Wrapped(h.era)
  BY <1>1 DEF GenInv
<1> QED BY <1>5, <1>6 DEF GenInv

(* A handle is stamped with the generation and the era of its region.        *)
LEMMA AllocGen ==
  ASSUME TypeOK, GenInv, NEW r \in Ids, alloc(r)
  PROVE  GenInv'
<1>1. UNCHANGED <<regions, len, era>> /\ Live(r)
  BY DEF alloc, ghosts
<1>2. ASSUME NEW h \in handles' PROVE h.generation = Wrapped(h.era)
  <2>1. h \in handles \/ h = [region |-> r, generation |-> regions[r].generation, era |-> era[r]]
    BY <1>2 DEF alloc
  <2> QED BY <1>1, <2>1 DEF GenInv
<1> QED BY <1>1, <1>2 DEF GenInv

(* Every other step keeps the generations: it changes memory, tier or pin    *)
(* of one region, or empties its slot.                                       *)
LEMMA OtherGen ==
  ASSUME TypeOK, GenInv, NEW r \in Ids, Live(r), regions[r] \in Entry,
         \/ regions' = regions
         \/ regions' = [regions EXCEPT ![r] = NoEntry]
         \/ \E b \in BOOLEAN : regions' = [regions EXCEPT ![r].pinned = b]
         \/ \E t \in Residency : regions' = [regions EXCEPT ![r].residency = t]
         \/ \E m \in Memory : regions' = [regions EXCEPT ![r].memory = m]
         \/ \E t \in Residency, m \in Memory :
               regions' = [regions EXCEPT ![r].memory = m, ![r].residency = t]
         \/ \E t \in Residency, m \in Memory :
               regions' = [regions EXCEPT ![r].residency = t, ![r].memory = m],
         len' = len, handles' = handles, era' = era
  PROVE  GenInv'
<1>1. \A q \in Ids \ {r} : regions'[q] = regions[q]
  BY DEF TypeOK
<1>2. \/ regions'[r] = regions[r] \/ regions'[r] = NoEntry
      \/ \E b \in BOOLEAN : regions'[r] = [regions[r] EXCEPT !.pinned = b]
      \/ \E t \in Residency : regions'[r] = [regions[r] EXCEPT !.residency = t]
      \/ \E m \in Memory : regions'[r] = [regions[r] EXCEPT !.memory = m]
      \/ \E t \in Residency, m \in Memory :
            regions'[r] = [regions[r] EXCEPT !.memory = m, !.residency = t]
      \/ \E t \in Residency, m \in Memory :
            regions'[r] = [regions[r] EXCEPT !.residency = t, !.memory = m]
  <2>1. r \in DOMAIN regions
    BY DEF TypeOK
  <2> QED BY <2>1
<1>3. regions'[r] # NoEntry => regions'[r].generation = regions[r].generation
  BY <1>2
<1> QED BY <1>1, <1>3, SameGenerations

(* Every step keeps generations, eras and handles in line.                   *)
LEMMA NextGenInv == IInv /\ GenInv /\ [Next]_vars => GenInv'
<1> SUFFICES ASSUME IInv, GenInv, [Next]_vars PROVE GenInv'
  OBVIOUS
<1>1. TypeOK /\ regions \in [Ids -> Entry \cup {NoEntry}] /\ \A h \in handles : h.region \in Ids
  BY DEF IInv, TypeOK
<1>2. \A q \in Ids : Live(q) => store[Key(q)] \in Memory /\ regions[q] \in Entry
  BY <1>1, LiveEntry
<1>3. Contents \subseteq Memory /\ NoMemory \in Memory /\ snapshot \in Memory
  BY <1>1 DEF TypeOK
<1>4. ASSUME NEW r \in Ids,
             \/ destroy_region(r) \/ pin(r) \/ unpin(r) \/ mark_external(r)
             \/ snapshot_region(r) \/ restore_region(r) \/ load_region(r)
             \/ \E c \in Contents : load_external_region(r, c)
             \/ \E s \in Ids : cross_region_copy(s, r)
      PROVE  GenInv'
  <2>1. Live(r) /\ len' = len /\ handles' = handles /\ era' = era
    BY <1>4 DEF destroy_region, pin, unpin, mark_external, snapshot_region, restore_region,
       load_region, Loaded, load_external_region, cross_region_copy, ghosts
  <2> QED BY <1>1, <1>2, <1>3, <1>4, <2>1, OtherGen
       DEF destroy_region, pin, unpin, mark_external, snapshot_region, restore_region,
       load_region, load_external_region, cross_region_copy
<1>5. ASSUME NEW r \in Ids, NEW lru,
             SpillOk(r, lru) \/ \E leftover : SpillErr(r, lru, leftover)
      PROVE  GenInv'
  <2>1. Live(r) /\ len' = len /\ handles' = handles /\ era' = era
    BY <1>5 DEF SpillOk, SpillErr, CanSpill, ghosts
  <2> QED BY <1>1, <1>2, <1>3, <1>5, <2>1, OtherGen DEF SpillOk, SpillErr
<1>6. ASSUME NEW r \in Ids, spill_region(r) \/ spill_region_async(r) PROVE GenInv'
  BY <1>5, <1>6 DEF spill_region, spill_region_async
<1>7. ASSUME NEW r \in Ids, promote_region(r) PROVE GenInv'
  <2>1. CASE load_region(r)
    BY <1>4, <2>1
  <2>2. CASE Live(r) /\ regions' = [regions EXCEPT ![r].residency = "Hot"]
             /\ len' = len /\ handles' = handles /\ era' = era
    BY <1>1, <1>2, <2>2, OtherGen
  <2> QED BY <1>7, <2>1, <2>2 DEF promote_region, ghosts
<1>8. ASSUME NEW r \in Ids, demote_region(r) PROVE GenInv'
  <2>1. CASE spill_region(r)
    BY <1>6, <2>1
  <2>2. CASE Live(r) /\ regions' = [regions EXCEPT ![r].residency = "Warm"]
             /\ len' = len /\ handles' = handles /\ era' = era
    BY <1>1, <1>2, <2>2, OtherGen
  <2> QED BY <1>8, <2>1, <2>2 DEF demote_region, ghosts
<1>9. ASSUME NEW h \in handles, NEW c \in Contents, write(h, c) PROVE GenInv'
  <2>1. Live(h.region) /\ len' = len /\ handles' = handles /\ era' = era
    BY <1>9 DEF write
  <2> QED BY <1>1, <1>2, <1>3, <1>9, <2>1, OtherGen DEF write
<1>10. ASSUME NEW h \in handles, NEW c \in Contents, write_or_fault(h, c) PROVE GenInv'
  <2>1. CASE write(h, c)
    BY <1>9, <2>1
  <2>2. CASE ~write(h, c)
    <3>1. PICK r \in Ids : r = h.region
      BY <1>1
    <3>2. Live(r) /\ len' = len /\ handles' = handles /\ era' = era
      BY <1>10, <2>2, <3>1 DEF write_or_fault
    <3>3. PICK m \in Memory : regions' = [regions EXCEPT ![r].residency = "Hot", ![r].memory = m]
      <4>1. PICK m : /\ m = IF Valid(h) /\ store[Key(r)] \in Contents THEN c ELSE store[Key(r)]
                     /\ regions' = [regions EXCEPT ![r].residency = "Hot", ![r].memory = m]
        BY <1>10, <2>2, <3>1 DEF write_or_fault
      <4> QED BY <1>2, <1>3, <3>2, <4>1
    <3> QED BY <1>1, <1>2, <3>2, <3>3, OtherGen
  <2> QED BY <2>1, <2>2
<1>11. ASSUME NEW h \in handles, NEW r \in Ids, read_into(h, r) \/ write_from(r, h) PROVE GenInv'
  BY <1>1, <1>4, <1>11 DEF read_into, write_from
<1>12. ASSUME NEW h \in handles, read_or_fault(h) PROVE GenInv'
  BY <1>1, <1>4, <1>12 DEF read_or_fault
<1>13. CASE evict_warm_region
  <2>1. CASE UNCHANGED <<regions, len, io, handles, ghosts>>
    BY <2>1 DEF GenInv, ghosts
  <2>2. CASE VictimPos # 0
    <3>1. PICK v \in Ids : v = warm_lru[VictimPos]
      BY <1>1, <2>2, VictimPosType DEF TypeOK
    <3> QED BY <1>5, <1>13, <2>1, <3>1 DEF evict_warm_region
  <2> QED BY <1>13, <2>1, <2>2 DEF evict_warm_region
<1>14. CASE UNCHANGED vars
  BY <1>14 DEF vars, GenInv
<1> QED BY <1>1, <1>4, <1>6, <1>7, <1>8, <1>9, <1>10, <1>11, <1>12, <1>13, <1>14,
           CreateGen, AllocGen, BumpGen DEF Next

(* Generation and era stay in line in every state the directory reaches.     *)
LEMMA GenInvariance == Spec => [](IInv /\ GenInv)
<1>1. Init => GenInv
  BY DEF Init, GenInv
<1> QED BY <1>1, NextGenInv, SafeInvariance, PTL DEF Spec

(* A handle is accepted exactly when the generation of its region has been   *)
(* bumped a multiple of LastGen times since: never between two wraps.        *)
THEOREM HandlesAcceptedExactly == Spec => []HandlesExact
<1>1. ASSUME IInv, GenInv PROVE HandlesExact
  <2> SUFFICES ASSUME NEW h \in handles, Live(h.region)
               PROVE  Valid(h) <=> (era[h.region] - h.era) % LastGen = 0
    BY DEF HandlesExact
  <2>1. h.region \in Ids /\ h.era \in Int /\ LastGen \in Nat \ {0}
    BY <1>1, BoundsAssumption DEF IInv, TypeOK
  <2>2. PICK n \in Int : n = era[h.region]
    BY <1>1, <2>1 DEF IInv, TypeOK
  <2>3. h.generation = Wrapped(h.era) /\ regions[h.region].generation = Wrapped(n)
    BY <1>1, <2>1, <2>2 DEF GenInv
  <2>4. (n - h.era) % LastGen = 0 <=> n % LastGen = h.era % LastGen
    BY <2>1, <2>2, RemainderEqual, Zenon
  <2>5. n % LastGen \in Int /\ h.era % LastGen \in Int
    BY <2>1, <2>2
  <2>6. Wrapped(n) = Wrapped(h.era) <=> n % LastGen = h.era % LastGen
    BY <2>5 DEF Wrapped
  <2> QED BY <2>2, <2>3, <2>4, <2>6
<1> QED BY <1>1, GenInvariance, PTL

-----------------------------------------------------------------------------
(* Pins *)

(* What a step may not do to the memory of a pinned region.                  *)
PinsKept == \A r \in Ids : Resident(r) /\ regions[r].pinned /\ Live(r)' => Resident(r)'

(* A step that replaces the entry of r, with memory if r is pinned.          *)
LEMMA OnePin ==
  ASSUME TypeOK, NEW r \in Ids, NEW e, regions' = [regions EXCEPT ![r] = e],
         Resident(r) /\ regions[r].pinned /\ e # NoEntry => e.memory # NoMemory
  PROVE  PinsKept
<1>1. regions'[r] = e /\ \A q \in Ids \ {r} : regions'[q] = regions[q]
  BY DEF TypeOK
<1> QED BY <1>1 DEF PinsKept

(* Only a spill and mark_external take memory, and both refuse a pinned      *)
(* region, also when evict_warm_region or demote_region asks.                *)
LEMMA NextPin ==
  ASSUME TypeOK, Next
  PROVE  PinsKept
<1>1. regions \in [Ids -> Entry \cup {NoEntry}] /\ \A h \in handles : h.region \in Ids
  BY DEF TypeOK
<1>2. ASSUME regions' = regions PROVE PinsKept
  BY <1>2 DEF PinsKept
<1>3. ASSUME NEW r \in Ids, NEW b, b # NoMemory, Live(r),
             \/ regions' = [regions EXCEPT ![r].memory = b]
             \/ regions' = [regions EXCEPT ![r].memory = b, ![r].residency = "Hot"]
             \/ regions' = [regions EXCEPT ![r].residency = "Hot", ![r].memory = b]
      PROVE  PinsKept
  <2>1. PICK e : /\ regions' = [regions EXCEPT ![r] = e]
                 /\ \/ e = [regions[r] EXCEPT !.memory = b]
                    \/ e = [regions[r] EXCEPT !.memory = b, !.residency = "Hot"]
                    \/ e = [regions[r] EXCEPT !.residency = "Hot", !.memory = b]
    BY <1>1, <1>3
  <2>2. e.memory = b
    BY <1>1, <1>3, <2>1
  <2> QED BY <1>3, <2>1, <2>2, OnePin
<1>4. ASSUME NEW r \in Ids, Live(r),
             \/ \E b \in BOOLEAN : regions' = [regions EXCEPT ![r].pinned = b]
             \/ \E t \in Residency : regions' = [regions EXCEPT ![r].residency = t]
             \/ \E g : regions' = [regions EXCEPT ![r].generation = g]
      PROVE  PinsKept
  <2>1. PICK e : /\ regions' = [regions EXCEPT ![r] = e]
                 /\ \/ \E b \in BOOLEAN : e = [regions[r] EXCEPT !.pinned = b]
                    \/ \E t \in Residency : e = [regions[r] EXCEPT !.residency = t]
                    \/ \E g : e = [regions[r] EXCEPT !.generation = g]
    BY <1>4, Zenon
  <2>2. e.memory = regions[r].memory
    BY <1>1, <1>4, <2>1
  <2> QED BY <2>1, <2>2, OnePin
<1>5. ASSUME NEW r \in Ids, ~regions[r].pinned, NEW e, regions' = [regions EXCEPT ![r] = e]
      PROVE  PinsKept
  BY <1>5, OnePin
<1>6. ASSUME NEW r \in Ids, NEW lru,
             SpillOk(r, lru) \/ \E leftover : SpillErr(r, lru, leftover)
      PROVE  PinsKept
  <2>1. ~regions[r].pinned /\ \E e : regions' = [regions EXCEPT ![r] = e]
    BY <1>6 DEF SpillOk, SpillErr, CanSpill
  <2> QED BY <1>5, <2>1
<1>7. ASSUME NEW r \in Ids, spill_region(r) \/ spill_region_async(r) PROVE PinsKept
  BY <1>6, <1>7 DEF spill_region, spill_region_async
<1>8. ASSUME NEW r \in Ids, load_region(r) PROVE PinsKept
  BY <1>3, <1>8 DEF load_region, Loaded
<1>9. ASSUME NEW r \in Ids, promote_region(r) \/ demote_region(r) PROVE PinsKept
  BY <1>4, <1>7, <1>8, <1>9 DEF promote_region, demote_region
<1>10. NoMemory \notin Contents
  BY ContentsAssumption
<1>11. ASSUME NEW s \in Ids, NEW r \in Ids, cross_region_copy(s, r) PROVE PinsKept
  BY <1>3, <1>10, <1>11 DEF cross_region_copy
<1>12. ASSUME NEW h \in handles, NEW c \in Contents, write(h, c) PROVE PinsKept
  BY <1>1, <1>3, <1>10, <1>12 DEF write
<1>13. ASSUME NEW h \in handles, NEW c \in Contents, write_or_fault(h, c) PROVE PinsKept
  <2>1. CASE write(h, c)
    BY <1>12, <2>1
  <2>2. CASE ~write(h, c)
    <3>1. PICK b : /\ b = IF Valid(h) /\ store[Key(h.region)] \in Contents THEN c
                          ELSE store[Key(h.region)]
                   /\ regions' = [regions EXCEPT ![h.region].residency = "Hot",
                                    ![h.region].memory = b]
                   /\ Live(h.region) /\ store[Key(h.region)] # NoMemory
      BY <1>13, <2>2 DEF write_or_fault, Loaded
    <3> QED BY <1>1, <1>3, <1>10, <3>1
  <2> QED BY <2>1, <2>2
<1>14. ASSUME NEW r \in Ids, mark_external(r) PROVE PinsKept
  <2>1. ~regions[r].pinned /\ \E e : regions' = [regions EXCEPT ![r] = e]
    BY <1>14 DEF mark_external
  <2> QED BY <1>5, <2>1
<1>15. ASSUME NEW p \in Policies, create_region(p) PROVE PinsKept
  <2>1. len \in Ids /\ Zero # NoMemory
    BY <1>15, BoundsAssumption, ContentsAssumption DEF create_region, TypeOK
  <2>2. PICK e : /\ e = [generation |-> 1, residency |-> p.initial, pinned |-> FALSE,
                         pinnable |-> p.pinnable, spillable |-> p.spillable, memory |-> Zero]
                 /\ regions' = [regions EXCEPT ![len] = e]
    BY <1>15 DEF create_region
  <2>3. e.memory # NoMemory
    BY <2>1, <2>2
  <2> QED BY <2>1, <2>2, <2>3, OnePin
<1>16. ASSUME NEW r \in Ids, destroy_region(r) PROVE PinsKept
  BY <1>16, OnePin DEF destroy_region
<1>17. ASSUME NEW r \in Ids,
              pin(r) \/ unpin(r) \/ bump_generation(r) \/ compact_region(r)
       PROVE  PinsKept
  <2>1. /\ Live(r)
        /\ \/ \E b \in BOOLEAN : regions' = [regions EXCEPT ![r].pinned = b]
           \/ \E g : regions' = [regions EXCEPT ![r].generation = g]
    BY <1>17 DEF pin, unpin, bump_generation, compact_region
  <2> QED BY <1>4, <2>1
<1>18. ASSUME NEW r \in Ids,
              \/ restore_region(r) \/ \E c \in Contents : load_external_region(r, c)
       PROVE  PinsKept
  BY <1>3, <1>10, <1>18 DEF restore_region, load_external_region
<1>19. ASSUME NEW r \in Ids, alloc(r) \/ snapshot_region(r) PROVE PinsKept
  BY <1>2, <1>19 DEF alloc, snapshot_region
<1>20. ASSUME NEW h \in handles, NEW r \in Ids, read_into(h, r) \/ write_from(r, h) PROVE PinsKept
  BY <1>1, <1>11, <1>20 DEF read_into, write_from
<1>21. ASSUME NEW h \in handles, read_or_fault(h) PROVE PinsKept
  BY <1>1, <1>8, <1>21 DEF read_or_fault
<1>22. CASE evict_warm_region
  <2>1. CASE regions' = regions
    BY <1>2, <2>1
  <2>2. CASE VictimPos # 0
    <3>1. PICK v \in Ids : v = warm_lru[VictimPos]
      BY <2>2, VictimPosType DEF TypeOK
    <3> QED BY <1>6, <1>22, <2>1, <3>1 DEF evict_warm_region
  <2> QED BY <1>22, <2>1, <2>2 DEF evict_warm_region
<1> QED
  BY <1>7, <1>8, <1>9, <1>11, <1>12, <1>13, <1>14, <1>15, <1>16, <1>17, <1>18, <1>19,
     <1>20, <1>21, <1>22 DEF Next

(* No operation but destroy_region takes the memory of a pinned region.      *)
THEOREM PinHonoured == Spec => PinnedStaysResident
<1>1. TypeOK /\ [Next]_vars =>
        [\A r \in Ids : Resident(r) /\ regions[r].pinned /\ Live(r)' => Resident(r)']_vars
  BY NextPin DEF PinsKept
<1> QED BY <1>1, TypeCorrect, PTL DEF Spec, PinnedStaysResident

-----------------------------------------------------------------------------
(***************************************************************************)
(* The warm list and the eviction scan.                                    *)
(*                                                                         *)
(* EvictionFindsWarm is not inductive: that the scan finds a region needs  *)
(* every Warm region that cannot be pinned to be on the list, and that its *)
(* spill is not refused needs what keeps the memory of a Hot or Warm       *)
(* region in place.  Kept says both, region by region.                     *)
(***************************************************************************)
HIDE DEF Ids, Gens, Bytes, Memory, Entry, Residency, Policy

Listed(r) == \E i \in DOMAIN warm_lru : warm_lru[i] = r
NoDuplicates == IsInjective(warm_lru)

Kept(r) ==
  /\ Listed(r) => Live(r) /\ regions[r].residency \in {"Hot", "Warm"}
  /\ Live(r) =>
       /\ regions[r].pinned => regions[r].pinnable
       /\ regions[r].residency = "Warm" /\ ~regions[r].pinnable => Listed(r)
       /\ regions[r].residency \in {"Hot", "Warm"} /\ "spill_interrupted" \notin mishaps[r]
            => regions[r].memory # NoMemory

LruInv == NoDuplicates /\ \A r \in Ids : Kept(r)

(* What the list holds after a step that makes it lru.                     *)
LEMMA ListAfter ==
  ASSUME NEW lru, warm_lru' = lru
  PROVE  /\ NoDuplicates' <=> IsInjective(lru)
         /\ \A q : Listed(q)' <=> q \in Range(lru)
<1>1. NoDuplicates' <=> IsInjective(lru)
  BY DEF NoDuplicates, IsInjective
<1>2. ASSUME NEW q PROVE Listed(q)' <=> q \in Range(lru)
  BY DEF Listed, Range
<1> QED BY <1>1, <1>2

(* What it holds now.                                                      *)
LEMMA ListNow ==
  /\ NoDuplicates <=> IsInjective(warm_lru)
  /\ \A q : Listed(q) <=> q \in Range(warm_lru)
BY DEF NoDuplicates, Listed, Range

(* A step that touches only region r, and moves no other on the list.      *)
LEMMA LruFrame ==
  ASSUME LruInv, NEW r \in Ids, Kept(r)', NoDuplicates',
         \A q \in Ids \ {r} : /\ regions'[q] = regions[q]
                              /\ mishaps'[q] = mishaps[q]
                              /\ Listed(q)' <=> Listed(q)
  PROVE  LruInv'
<1>1. ASSUME NEW q \in Ids \ {r} PROVE Kept(q)'
  BY DEF Kept, LruInv
<1> QED BY <1>1 DEF LruInv

(* A step that leaves the list alone.                                      *)
LEMMA SameList ==
  ASSUME warm_lru' = warm_lru
  PROVE  (NoDuplicates' <=> NoDuplicates) /\ \A q : Listed(q)' <=> Listed(q)
BY ListAfter, ListNow

(* A step that changes the entry of r and leaves the list alone: a region  *)
(* stays in its tier or becomes Hot, with memory.                          *)
LEMMA EntryKept ==
  ASSUME TypeOK, LruInv, NEW r \in Ids, Live(r), NEW e \in Entry,
         regions' = [regions EXCEPT ![r] = e], warm_lru' = warm_lru,
         e.pinnable = regions[r].pinnable, e.pinned => e.pinnable,
         e.residency \in {regions[r].residency, "Hot"},
         e.residency \in {"Hot", "Warm"} /\ "spill_interrupted" \notin mishaps'[r]
           => e.memory # NoMemory,
         \A q \in Ids \ {r} : mishaps'[q] = mishaps[q]
  PROVE  LruInv'
<1>1. regions'[r] = e /\ \A q \in Ids \ {r} : regions'[q] = regions[q]
  BY DEF TypeOK
<1>2. Kept(r)'
  <2>1. Listed(r)' <=> Listed(r)
    BY SameList
  <2>2. Kept(r) /\ e # NoEntry
    BY NoEntryAssumption DEF LruInv
  <2> QED BY <1>1, <2>1, <2>2 DEF Kept
<1> QED BY <1>1, <1>2, SameList, LruFrame DEF LruInv

(* A step that changes neither entries, nor list, nor mishaps.             *)
LEMMA SameKept ==
  ASSUME LruInv, regions' = regions, warm_lru' = warm_lru, mishaps' = mishaps
  PROVE  LruInv'
<1>1. ASSUME NEW q \in Ids PROVE Kept(q)'
  BY SameList DEF LruInv, Kept
<1> QED BY <1>1, SameList DEF LruInv

(* Region r leaves the list, with those a scan has dropped before it: r is *)
(* gone, in no tier that the list serves, or Hot.                          *)
LEMMA RemoveKept ==
  ASSUME LruInv, NEW r \in Ids,
         NEW lru \in Seq(Ids), IsInjective(lru),
         \A q \in Ids : q \in Range(lru) => Listed(q),
         \A q \in Ids : Listed(q) /\ q \notin Range(lru) =>
                          regions[q].residency # "Warm" \/ regions[q].pinnable,
         warm_lru' = lru_remove(lru, r),
         \A q \in Ids \ {r} : mishaps'[q] = mishaps[q] /\ regions'[q] = regions[q],
         regions'[r] # NoEntry =>
           /\ regions'[r].residency # "Warm"
           /\ regions'[r].pinned => regions'[r].pinnable
           /\ regions'[r].residency = "Hot" /\ "spill_interrupted" \notin mishaps'[r] =>
                regions'[r].memory # NoMemory
  PROVE  LruInv'
<1>1. NoDuplicates' /\ \A q : Listed(q)' <=> q \in Range(lru) \ {r}
  BY RemoveFirstElements, ListAfter DEF lru_remove
<1>2. Kept(r)'
  BY <1>1 DEF Kept
<1>3. ASSUME NEW q \in Ids \ {r} PROVE Kept(q)'
  BY <1>1 DEF Kept, LruInv
<1> QED BY <1>1, <1>2, <1>3 DEF LruInv

(* The list loses what a scan dropped; the entry of r may change as well.  *)
LEMMA DropKept ==
  ASSUME LruInv, NEW r \in Ids, NEW lru \in Seq(Ids), IsInjective(lru),
         \A q \in Ids : q \in Range(lru) => Listed(q),
         \A q \in Ids : Listed(q) /\ q \notin Range(lru) =>
                          regions[q].residency # "Warm" \/ regions[q].pinnable,
         warm_lru' = lru, Kept(r)',
         \A q \in Ids \ {r} : mishaps'[q] = mishaps[q] /\ regions'[q] = regions[q]
  PROVE  LruInv'
<1>1. NoDuplicates' /\ \A q : Listed(q)' <=> q \in Range(lru)
  BY ListAfter
<1>2. ASSUME NEW q \in Ids \ {r} PROVE Kept(q)'
  BY <1>1 DEF Kept, LruInv
<1> QED BY <1>1, <1>2 DEF LruInv

-----------------------------------------------------------------------------
(* The steps *)

(* An id not on the list yet goes to its front.                            *)
LEMMA PushAfter ==
  ASSUME NEW lru \in Seq(Ids), NEW r \in Ids, IsInjective(lru), r \notin Range(lru),
         warm_lru' = <<r>> \o lru
  PROVE  NoDuplicates' /\ \A q : Listed(q)' <=> q \in Range(lru) \cup {r}
<1>1. PICK l : /\ l = <<r>> \o lru
               /\ IsInjective(l)
               /\ Range(l) = Range(lru) \cup {r}
  <2>1. IsInjective(<<r>> \o lru) /\ Range(<<r>> \o lru) = Range(lru) \cup {r}
    BY PushElements
  <2> QED BY <2>1, Zenon
<1>2. warm_lru' = l
  BY <1>1
<1> QED BY <1>1, <1>2, ListAfter, Zenon

(* A region created Warm goes to the front; its id is on no list yet.      *)
LEMMA CreateKept ==
  ASSUME IInv, LruInv, NEW p \in Policies, create_region(p)
  PROVE  LruInv'
<1>1. len \in Ids /\ ~Live(len) /\ regions \in [Ids -> Entry \cup {NoEntry}]
        /\ warm_lru \in Seq(Ids) /\ mishaps' = mishaps
  BY BoundsAssumption DEF IInv, TypeOK, Fresh, create_region, ghosts, Ids
<1>2. PICK r \in Ids : r = len
  BY <1>1
<1>3. ~Listed(r) /\ r \notin Range(warm_lru) /\ IsInjective(warm_lru)
  BY <1>1, <1>2, ListNow DEF LruInv, Kept
<1>4. p \in Policy /\ Zero # NoMemory
  BY PolicyAssumption, ContentsAssumption
<1>5. PICK e : /\ e = [generation |-> 1, residency |-> p.initial, pinned |-> FALSE,
                       pinnable |-> p.pinnable, spillable |-> p.spillable, memory |-> Zero]
               /\ regions' = [regions EXCEPT ![r] = e]
  BY <1>2 DEF create_region
<1>6. /\ e.residency = p.initial /\ e.residency \in {"Hot", "Warm"} /\ e.pinned = FALSE
      /\ e.memory # NoMemory
  BY <1>4, <1>5 DEF Policy
<1>7. /\ regions'[r] = e /\ \A q \in Ids \ {r} : regions'[q] = regions[q]
      /\ warm_lru' = IF e.residency = "Warm" THEN <<r>> \o warm_lru ELSE warm_lru
  BY <1>1, <1>2, <1>5, <1>6 DEF create_region
<1>8. e # NoEntry
  <2>1. e \in Entry
    BY <1>4, <1>5, ContentsAssumption, BoundsAssumption
          DEF Entry, Policy, Gens, Residency, Memory, Bytes
  <2> QED BY <2>1, NoEntryAssumption
<1>9. CASE e.residency = "Warm"
  <2>1. NoDuplicates' /\ \A q : Listed(q)' <=> q \in Range(warm_lru) \cup {r}
    BY <1>1, <1>3, <1>7, <1>9, PushAfter
  <2>2. Kept(r)'
    BY <1>6, <1>7, <1>8, <2>1 DEF Kept
  <2>3. \A q \in Ids \ {r} : Listed(q)' <=> Listed(q)
    BY <2>1, ListNow
  <2> QED BY <1>1, <1>7, <2>1, <2>2, <2>3, LruFrame
<1>10. CASE e.residency # "Warm"
  <2>1. (NoDuplicates' <=> NoDuplicates) /\ \A q : Listed(q)' <=> Listed(q)
    BY <1>7, <1>10, SameList
  <2>2. Kept(r)'
    BY <1>3, <1>6, <1>7, <1>10, <2>1 DEF Kept
  <2> QED BY <1>1, <1>7, <2>1, <2>2, LruFrame DEF LruInv
<1> QED BY <1>9, <1>10

(* The list as a scan that drops nothing leaves it.                        *)
LEMMA WholeList ==
  ASSUME TypeOK, LruInv
  PROVE  /\ warm_lru \in Seq(Ids) /\ IsInjective(warm_lru)
         /\ \A q \in Ids : q \in Range(warm_lru) => Listed(q)
         /\ \A q \in Ids : Listed(q) /\ q \notin Range(warm_lru) =>
                             regions[q].residency # "Warm" \/ regions[q].pinnable
BY ListNow DEF TypeOK, LruInv

(* A region destroyed or marked External, or promoted from Warm, leaves it. *)
LEMMA LeaveKept ==
  ASSUME TypeOK, LruInv, NEW r \in Ids,
         \/ destroy_region(r) \/ mark_external(r)
         \/ /\ Live(r) /\ regions[r].residency = "Warm"
            /\ regions' = [regions EXCEPT ![r].residency = "Hot"]
            /\ warm_lru' = lru_remove(warm_lru, r)
            /\ UNCHANGED ghosts
  PROVE  LruInv'
<1>1. Live(r) /\ mishaps' = mishaps /\ warm_lru' = lru_remove(warm_lru, r)
  BY DEF destroy_region, mark_external, ghosts
<1>2. regions[r] \in Entry /\ Kept(r)
  BY <1>1, LiveEntry DEF LruInv
<1>3. \A q \in Ids \ {r} : regions'[q] = regions[q]
  BY DEF destroy_region, mark_external, TypeOK
<1>4. regions'[r] # NoEntry =>
        /\ regions'[r].residency # "Warm"
        /\ regions'[r].pinned => regions'[r].pinnable
        /\ regions'[r].residency = "Hot" /\ "spill_interrupted" \notin mishaps'[r] =>
             regions'[r].memory # NoMemory
  <2>1. CASE destroy_region(r)
    BY <2>1 DEF destroy_region, TypeOK
  <2>2. CASE mark_external(r)
    <3>1. regions'[r] = [regions[r] EXCEPT !.memory = NoMemory, !.residency = "External"]
      BY <2>2 DEF mark_external, TypeOK
    <3>2. regions'[r].residency = "External" /\ regions'[r].pinned = regions[r].pinned
            /\ regions'[r].pinnable = regions[r].pinnable
      BY <1>2, <3>1 DEF Entry
    <3> QED BY <1>1, <1>2, <3>2 DEF Kept
  <2>3. CASE regions[r].residency = "Warm" /\ regions' = [regions EXCEPT ![r].residency = "Hot"]
    <3>1. regions'[r] = [regions[r] EXCEPT !.residency = "Hot"]
      BY <2>3 DEF TypeOK
    <3>2. /\ regions'[r].residency = "Hot" /\ regions'[r].pinned = regions[r].pinned
          /\ regions'[r].pinnable = regions[r].pinnable /\ regions'[r].memory = regions[r].memory
      BY <1>2, <3>1 DEF Entry
    <3> QED BY <1>1, <1>2, <2>3, <3>2 DEF Kept
  <2> QED BY <2>1, <2>2, <2>3
<1>5. \A q \in Ids \ {r} : mishaps'[q] = mishaps[q] /\ regions'[q] = regions[q]
  BY <1>1, <1>3
<1> QED BY <1>1, <1>4, <1>5, WholeList, RemoveKept

(* A spill that succeeds, of a region in a list a scan may have shortened. *)
LEMMA SpillOkKept ==
  ASSUME TypeOK, LruInv, NEW r \in Ids, NEW lru \in Seq(Ids), IsInjective(lru),
         \A q \in Ids : q \in Range(lru) => Listed(q),
         \A q \in Ids : Listed(q) /\ q \notin Range(lru) =>
                          regions[q].residency # "Warm" \/ regions[q].pinnable,
         SpillOk(r, lru)
  PROVE  LruInv'
<1>1. regions[r] \in Entry /\ Live(r) /\ Kept(r)
  BY LiveEntry DEF SpillOk, CanSpill, LruInv
<1>2. warm_lru' = lru_remove(lru, r) /\ mishaps' = mishaps
  BY DEF SpillOk, ghosts
<1>3. regions'[r] = [regions[r] EXCEPT !.memory = NoMemory, !.residency = "Cold"]
        /\ \A q \in Ids \ {r} : regions'[q] = regions[q]
  BY DEF SpillOk, TypeOK
<1>4. regions'[r].residency = "Cold" /\ regions'[r].pinned = regions[r].pinned
        /\ regions'[r].pinnable = regions[r].pinnable
  BY <1>1, <1>3 DEF Entry
<1>5. regions'[r] # NoEntry =>
        /\ regions'[r].residency # "Warm"
        /\ regions'[r].pinned => regions'[r].pinnable
        /\ regions'[r].residency = "Hot" /\ "spill_interrupted" \notin mishaps'[r] =>
             regions'[r].memory # NoMemory
  BY <1>1, <1>4 DEF Kept
<1>6. \A q \in Ids \ {r} : mishaps'[q] = mishaps[q] /\ regions'[q] = regions[q]
  BY <1>2, <1>3
<1> QED BY <1>2, <1>5, <1>6, RemoveKept

(* A spill that fails leaves r in its tier and on the list, without memory. *)
LEMMA SpillErrKept ==
  ASSUME TypeOK, LruInv, NEW r \in Ids, NEW lru \in Seq(Ids), IsInjective(lru),
         \A q \in Ids : q \in Range(lru) => Listed(q),
         \A q \in Ids : Listed(q) /\ q \notin Range(lru) =>
                          regions[q].residency # "Warm" \/ regions[q].pinnable,
         NEW leftover, SpillErr(r, lru, leftover)
  PROVE  LruInv'
<1>1. regions[r] \in Entry /\ Live(r) /\ Kept(r)
  BY LiveEntry DEF SpillErr, CanSpill, LruInv
<1>2. warm_lru' = lru /\ mishaps' = [mishaps EXCEPT ![r] = @ \cup {"spill_interrupted"}]
  BY DEF SpillErr
<1>3. "spill_interrupted" \in mishaps'[r] /\ \A q \in Ids \ {r} : mishaps'[q] = mishaps[q]
  BY <1>2 DEF TypeOK
<1>4. regions'[r] = [regions[r] EXCEPT !.memory = NoMemory]
        /\ \A q \in Ids \ {r} : regions'[q] = regions[q]
  BY DEF SpillErr, TypeOK
<1>5. /\ regions'[r].residency = regions[r].residency /\ regions'[r].pinned = regions[r].pinned
      /\ regions'[r].pinnable = regions[r].pinnable /\ regions'[r] \in Entry
  BY <1>1, <1>4 DEF Entry, Memory
<1>6. Listed(r)' <=> r \in Range(lru)
  BY <1>2, ListAfter
<1>7. Kept(r)'
  BY <1>1, <1>3, <1>5, <1>6, NoEntryAssumption DEF Kept
<1>8. \A q \in Ids \ {r} : mishaps'[q] = mishaps[q] /\ regions'[q] = regions[q]
  BY <1>3, <1>4
<1> QED BY <1>2, <1>7, <1>8, DropKept

(* spill_region and spill_region_async.                                    *)
LEMMA SpillKept ==
  ASSUME TypeOK, LruInv, NEW r \in Ids, spill_region(r) \/ spill_region_async(r)
  PROVE  LruInv'
BY WholeList, SpillOkKept, SpillErrKept DEF spill_region, spill_region_async

(* What the scan of evict_warm_region drops are regions it may not spill:  *)
(* pinned, or no longer Warm.                                              *)
LEMMA ScanDrops ==
  ASSUME TypeOK, LruInv
  PROVE  LET scanned == SubSeq(warm_lru, 1, VictimPos)
         IN /\ scanned \in Seq(Ids) /\ IsInjective(scanned)
            /\ \A q \in Ids : q \in Range(scanned) => Listed(q)
            /\ \A q \in Ids : Listed(q) /\ q \notin Range(scanned) =>
                                regions[q].residency # "Warm" \/ regions[q].pinnable
<1> DEFINE I == {i \in 1..Len(warm_lru) : Evictable(warm_lru[i])}
<1>1. VictimPos = IF I # {} THEN Max(I) ELSE 0
  BY DEF VictimPos, SelectLastInSeq
<1>2. warm_lru \in Seq(Ids) /\ IsInjective(warm_lru)
  BY WholeList
<1>3. I # {} => Max(I) \in I /\ \A i \in I : Max(I) >= i
  <2>1. I \in SUBSET (0..Len(warm_lru)) /\ Len(warm_lru) \in Nat
    BY <1>2
  <2> HIDE DEF I
  <2> QED BY <2>1, MaxProperties
<1>4. VictimPos \in 0..Len(warm_lru)
  BY <1>1, <1>2, <1>3
<1>5. \A i \in 1..Len(warm_lru) : i > VictimPos => ~Evictable(warm_lru[i])
  <2> SUFFICES ASSUME NEW i \in 1..Len(warm_lru), i > VictimPos, Evictable(warm_lru[i])
               PROVE  FALSE
    OBVIOUS
  <2>1. i \in I
    OBVIOUS
  <2> QED BY <1>1, <1>2, <1>3, <2>1
<1> HIDE DEF I
<1>6. PICK n \in 0..Len(warm_lru) : n = VictimPos
  BY <1>4
<1>7. PICK l \in Seq(Ids) : /\ l = SubSeq(warm_lru, 1, n)
                            /\ IsInjective(l)
                            /\ Range(l) = {warm_lru[i] : i \in 1..n}
  BY <1>2, PrefixElements, Zenon
<1>8. DOMAIN warm_lru = 1..Len(warm_lru) /\ Len(warm_lru) \in Nat
  BY <1>2
<1>9. ASSUME NEW q \in Range(l) PROVE Listed(q)
  BY <1>7, <1>8, <1>9 DEF Listed
<1>10. ASSUME NEW q \in Ids, Listed(q), q \notin Range(l)
       PROVE  regions[q].residency # "Warm" \/ regions[q].pinnable
  <2>1. PICK i \in 1..Len(warm_lru) : warm_lru[i] = q
    BY <1>8, <1>10 DEF Listed
  <2>2. i > n
    BY <1>7, <1>8, <1>10, <2>1
  <2>3. ~Evictable(q)
    BY <1>5, <1>6, <2>1, <2>2
  <2>4. Kept(q)
    BY DEF LruInv
  <2>5. regions[q] \in Entry /\ Live(q)
    BY <1>10, <2>4, LiveEntry DEF Kept
  <2> QED BY <1>10, <2>3, <2>4, <2>5 DEF Kept, Evictable, Entry
<1>11. l = SubSeq(warm_lru, 1, VictimPos)
  BY <1>6, <1>7
<1> QED BY <1>7, <1>9, <1>10, <1>11

(* evict_warm_region.                                                      *)
LEMMA EvictKept ==
  ASSUME TypeOK, LruInv, evict_warm_region
  PROVE  LruInv'
<1>1. PICK lru \in Seq(Ids) :
        /\ lru = SubSeq(warm_lru, 1, VictimPos)
        /\ IsInjective(lru)
        /\ \A q \in Ids : q \in Range(lru) => Listed(q)
        /\ \A q \in Ids : Listed(q) /\ q \notin Range(lru) =>
                            regions[q].residency # "Warm" \/ regions[q].pinnable
  BY ScanDrops
<1>2. CASE warm_lru' = lru /\ UNCHANGED <<regions, len, io, handles, ghosts>>
  <2>1. regions' = regions /\ mishaps' = mishaps
    BY <1>2 DEF ghosts
  <2>2. NoDuplicates' /\ \A q : Listed(q)' <=> q \in Range(lru)
    BY <1>1, <1>2, ListAfter
  <2>3. ASSUME NEW q \in Ids PROVE Kept(q)'
    BY <1>1, <2>1, <2>2 DEF Kept, LruInv
  <2> QED BY <2>2, <2>3 DEF LruInv
<1>3. ASSUME VictimPos # 0,
             \/ SpillOk(warm_lru[VictimPos], lru)
             \/ \E leftover \in {store[Key(warm_lru[VictimPos])], Torn} :
                   SpillErr(warm_lru[VictimPos], lru, leftover)
      PROVE  LruInv'
  <2>1. PICK v \in Ids : v = warm_lru[VictimPos]
    BY <1>3, VictimPosType DEF TypeOK
  <2> QED BY <1>1, <1>3, <2>1, SpillOkKept, SpillErrKept
<1> QED BY <1>1, <1>2, <1>3 DEF evict_warm_region

(* demote_region: a Hot region becomes Warm at the front of the list, a    *)
(* Warm one is spilled.                                                    *)
LEMMA DemoteKept ==
  ASSUME TypeOK, LruInv, NEW r \in Ids, demote_region(r)
  PROVE  LruInv'
<1>1. CASE spill_region(r)
  BY <1>1, SpillKept
<1>2. CASE /\ Live(r) /\ regions[r].residency = "Hot"
           /\ regions' = [regions EXCEPT ![r].residency = "Warm"]
           /\ warm_lru' = lru_push_front(warm_lru, r)
           /\ UNCHANGED ghosts
  <2>1. PICK lru \in Seq(Ids) : /\ lru = lru_remove(warm_lru, r)
                                /\ IsInjective(lru)
                                /\ Range(lru) = Range(warm_lru) \ {r}
    BY WholeList, RemoveFirstElements DEF lru_remove
  <2>2. warm_lru' = <<r>> \o lru
    BY <1>2, <2>1 DEF lru_push_front
  <2>3. NoDuplicates' /\ \A q : Listed(q)' <=> q \in Range(lru) \cup {r}
    BY <2>1, <2>2, PushAfter
  <2>4. regions[r] \in Entry /\ Kept(r)
    BY <1>2, LiveEntry DEF LruInv
  <2>5. regions'[r] = [regions[r] EXCEPT !.residency = "Warm"]
          /\ \A q \in Ids \ {r} : regions'[q] = regions[q]
    BY <1>2 DEF TypeOK
  <2>6. /\ regions'[r].residency = "Warm" /\ regions'[r].pinned = regions[r].pinned
        /\ regions'[r].pinnable = regions[r].pinnable /\ regions'[r].memory = regions[r].memory
        /\ regions'[r] \in Entry
    BY <2>4, <2>5 DEF Entry, Residency
  <2>7. mishaps' = mishaps
    BY <1>2 DEF ghosts
  <2>8. Kept(r)'
    BY <1>2, <2>3, <2>4, <2>6, <2>7, NoEntryAssumption DEF Kept
  <2>9. \A q \in Ids \ {r} : Listed(q)' <=> Listed(q)
    BY <2>1, <2>3, ListNow
  <2> QED BY <2>3, <2>5, <2>7, <2>8, <2>9, LruFrame
<1> QED BY <1>1, <1>2 DEF demote_region

(* pin, unpin and a new generation.                                        *)
LEMMA FlagsKept ==
  ASSUME TypeOK, TypeOK', LruInv, NEW r \in Ids,
         pin(r) \/ unpin(r) \/ bump_generation(r) \/ compact_region(r)
  PROVE  LruInv'
<1>1. Live(r) /\ regions[r] \in Entry /\ Kept(r) /\ warm_lru' = warm_lru
  BY LiveEntry DEF pin, unpin, bump_generation, compact_region, LruInv
<1>2. PICK e : /\ regions' = [regions EXCEPT ![r] = e]
               /\ \/ e = [regions[r] EXCEPT !.pinned = TRUE] /\ regions[r].pinnable
                  \/ e = [regions[r] EXCEPT !.pinned = FALSE]
                  \/ e = [regions[r] EXCEPT !.generation = NextGen(@)]
  BY DEF pin, unpin, bump_generation, compact_region
<1>3. e \in Entry
  <2>1. NextGen(regions[r].generation) \in Gens
    BY <1>1, NextGenType DEF Entry
  <2> QED BY <1>1, <1>2, <2>1 DEF Entry
<1>4. /\ e.pinnable = regions[r].pinnable /\ e.memory = regions[r].memory
      /\ e.residency = regions[r].residency /\ (e.pinned => e.pinnable)
  BY <1>1, <1>2 DEF Entry, Kept
<1>5. /\ "spill_interrupted" \in mishaps[r] => "spill_interrupted" \in mishaps'[r]
      /\ \A q \in Ids \ {r} : mishaps'[q] = mishaps[q]
  BY DEF pin, unpin, bump_generation, compact_region, ghosts, TypeOK
<1> QED BY <1>1, <1>2, <1>3, <1>4, <1>5, EntryKept DEF Kept

(* Every step that puts bytes in the memory of r: a write, a copy, a load, *)
(* a restore.  The region stays in its tier or becomes Hot.                *)
LEMMA FilledKept ==
  ASSUME TypeOK, LruInv, NEW r \in Ids, Live(r), NEW b \in Memory \ {NoMemory},
         NEW tier \in {regions[r].residency, "Hot"},
         regions' = [regions EXCEPT ![r] =
                       [regions[r] EXCEPT !.memory = b, !.residency = tier]],
         warm_lru' = warm_lru, \A q \in Ids \ {r} : mishaps'[q] = mishaps[q]
  PROVE  LruInv'
<1>1. regions[r] \in Entry /\ Kept(r)
  BY LiveEntry DEF LruInv
<1>2. tier \in Residency
  BY <1>1 DEF Entry, Residency
<1>3. PICK e : e = [regions[r] EXCEPT !.memory = b, !.residency = tier]
  OBVIOUS
<1>4. /\ e \in Entry /\ e.memory = b /\ e.residency = tier
      /\ e.pinned = regions[r].pinned /\ e.pinnable = regions[r].pinnable
  BY <1>1, <1>2, <1>3 DEF Entry
<1>5. e.pinned => e.pinnable
  BY <1>1, <1>4 DEF Kept
<1>6. regions' = [regions EXCEPT ![r] = e]
  BY <1>3
<1> QED BY <1>4, <1>5, <1>6, EntryKept

(* write, with or without a fault, cross_region_copy.                      *)
LEMMA WriteKept ==
  ASSUME TypeOK, LruInv, NEW r \in Ids, Live(r), NEW b \in Contents,
         regions' = [regions EXCEPT ![r].memory = b],
         warm_lru' = warm_lru, mishaps' = mishaps
  PROVE  LruInv'
<1>1. b \in Memory \ {NoMemory} /\ regions[r] \in Entry
  BY ContentsAssumption, LiveEntry DEF Memory, Bytes
<1>2. PICK tier \in {regions[r].residency, "Hot"} : tier = regions[r].residency
  OBVIOUS
<1>3. [regions[r] EXCEPT !.memory = b] = [regions[r] EXCEPT !.memory = b, !.residency = tier]
  BY <1>1, <1>2 DEF Entry
<1>4. regions' = [regions EXCEPT ![r] =
                    [regions[r] EXCEPT !.memory = b, !.residency = tier]]
  BY <1>3
<1> QED BY <1>1, <1>4, FilledKept

(* A step that makes r Hot with the bytes b.                               *)
LEMMA HotKept ==
  ASSUME TypeOK, LruInv, NEW r \in Ids, Live(r), NEW b \in Memory \ {NoMemory},
         regions' = [regions EXCEPT ![r].memory = b, ![r].residency = "Hot"],
         warm_lru' = warm_lru, \A q \in Ids \ {r} : mishaps'[q] = mishaps[q]
  PROVE  LruInv'
<1>1. regions' = [regions EXCEPT ![r] = [regions[r] EXCEPT !.memory = b, !.residency = "Hot"]]
  BY DEF TypeOK
<1> QED BY <1>1, FilledKept

(* load_region finds a file.                                               *)
LEMMA LoadKept ==
  ASSUME TypeOK, LruInv, NEW r \in Ids, load_region(r)
  PROVE  LruInv'
<1>1. Live(r) /\ store[Key(r)] # NoMemory /\ warm_lru' = warm_lru
  BY DEF load_region, Loaded
<1>2. PICK b \in Memory \ {NoMemory} : b = store[Key(r)]
  BY <1>1, LiveEntry
<1>3. regions' = [regions EXCEPT ![r].memory = b, ![r].residency = "Hot"]
  BY <1>2 DEF load_region
<1>4. \A q \in Ids \ {r} : mishaps'[q] = mishaps[q]
  BY DEF load_region, TypeOK
<1> QED BY <1>1, <1>3, <1>4, HotKept

(* The auto-fault, the loader's bytes, a snapshot read back.               *)
LEMMA RefilledKept ==
  ASSUME TypeOK, LruInv, NEW r \in Ids,
         \/ restore_region(r)
         \/ \E c \in Contents : load_external_region(r, c)
         \/ \E h \in handles, c \in Contents : h.region = r /\ write_or_fault(h, c)
  PROVE  LruInv'
<1>1. CASE restore_region(r)
  <2>1. PICK b \in Memory \ {NoMemory} : b = snapshot
    BY <1>1 DEF restore_region, TypeOK
  <2>2. /\ regions' = [regions EXCEPT ![r].memory = b, ![r].residency = "Hot"]
        /\ Live(r) /\ warm_lru' = warm_lru
    BY <1>1, <2>1 DEF restore_region
  <2>3. \A q \in Ids \ {r} : mishaps'[q] = mishaps[q]
    BY <1>1 DEF restore_region, TypeOK
  <2> QED BY <2>2, <2>3, HotKept
<1>2. ASSUME NEW c \in Contents, load_external_region(r, c) PROVE LruInv'
  <2>1. c \in Memory \ {NoMemory}
    BY ContentsAssumption DEF Memory, Bytes
  <2>2. /\ regions' = [regions EXCEPT ![r].memory = c, ![r].residency = "Hot"]
        /\ Live(r) /\ warm_lru' = warm_lru
    BY <1>2 DEF load_external_region
  <2>3. \A q \in Ids \ {r} : mishaps'[q] = mishaps[q]
    BY <1>2 DEF load_external_region, TypeOK
  <2> QED BY <2>1, <2>2, <2>3, HotKept
<1>3. ASSUME NEW h \in handles, NEW c \in Contents, h.region = r, write_or_fault(h, c)
      PROVE  LruInv'
  <2>1. CASE write(h, c)
    BY <1>3, <2>1, WriteKept DEF write
  <2>2. CASE /\ Live(r) /\ Loaded(r)
             /\ LET lands == Valid(h) /\ store[Key(r)] \in Contents
                IN regions' = [regions EXCEPT ![r].residency = "Hot",
                                 ![r].memory = IF lands THEN c ELSE store[Key(r)]]
             /\ UNCHANGED <<len, warm_lru, io, handles, era, mishaps>>
    <3>1. PICK b \in Memory \ {NoMemory} :
            b = IF Valid(h) /\ store[Key(r)] \in Contents THEN c ELSE store[Key(r)]
      BY <2>2, LiveEntry, ContentsAssumption DEF Loaded, Memory, Bytes
    <3>2. regions' = [regions EXCEPT ![r].residency = "Hot", ![r].memory = b]
      BY <2>2, <3>1
    <3>3. regions' = [regions EXCEPT ![r].memory = b, ![r].residency = "Hot"]
      <4>1. regions[r] \in Entry
        BY <2>2, LiveEntry
      <4>2. [regions[r] EXCEPT !.residency = "Hot", !.memory = b]
              = [regions[r] EXCEPT !.memory = b, !.residency = "Hot"]
        BY <4>1 DEF Entry
      <4> QED BY <3>2, <4>2, Zenon
    <3> QED BY <2>2, <3>3, HotKept
  <2> QED BY <1>3, <2>1, <2>2 DEF write_or_fault
<1> QED BY <1>1, <1>2, <1>3

(* Every step keeps the list.                                              *)
LEMMA NextKept == IInv /\ LruInv /\ [Next]_vars => LruInv'
<1> SUFFICES ASSUME IInv, LruInv, [Next]_vars PROVE LruInv'
  OBVIOUS
<1>1. TypeOK /\ TypeOK'
  BY NextType DEF IInv
<1>2. ASSUME NEW r \in Ids, alloc(r) \/ snapshot_region(r) PROVE LruInv'
  BY <1>2, SameKept DEF alloc, snapshot_region, ghosts
<1>3. ASSUME NEW r \in Ids, promote_region(r) PROVE LruInv'
  BY <1>1, <1>3, LeaveKept, LoadKept DEF promote_region
<1>4. ASSUME NEW s \in Ids, NEW r \in Ids, cross_region_copy(s, r) PROVE LruInv'
  BY <1>1, <1>4, WriteKept DEF cross_region_copy
<1>5. \A h \in handles : h.region \in Ids
  BY <1>1 DEF TypeOK
<1>6. ASSUME NEW h \in handles, NEW r \in Ids, read_into(h, r) \/ write_from(r, h) PROVE LruInv'
  BY <1>4, <1>5, <1>6 DEF read_into, write_from
<1>7. ASSUME NEW h \in handles, read_or_fault(h) PROVE LruInv'
  BY <1>1, <1>5, <1>7, LoadKept DEF read_or_fault
<1>8. ASSUME NEW h \in handles, NEW c \in Contents, write(h, c) PROVE LruInv'
  BY <1>1, <1>5, <1>8, WriteKept DEF write
<1>9. ASSUME NEW h \in handles, NEW c \in Contents, write_or_fault(h, c) PROVE LruInv'
  BY <1>1, <1>5, <1>9, RefilledKept
<1>10. CASE UNCHANGED vars
  BY <1>10, SameKept DEF vars
<1> QED BY <1>1, <1>2, <1>3, <1>4, <1>6, <1>7, <1>8, <1>9, <1>10, CreateKept, LeaveKept, FlagsKept,
           SpillKept, LoadKept, DemoteKept, RefilledKept, EvictKept DEF Next

(* The list is sound in every state the directory reaches.                 *)
LEMMA LruInvariance == Spec => [](IInv /\ LruInv)
<1>1. Init => LruInv
  <2> SUFFICES ASSUME Init PROVE LruInv
    OBVIOUS
  <2>1. ASSUME NEW r \in Ids PROVE Kept(r)
    BY DEF Init, Kept, Listed
  <2>2. NoDuplicates
    BY DEF Init, NoDuplicates, IsInjective
  <2> QED BY <2>1, <2>2 DEF LruInv
<1> QED BY <1>1, NextKept, SafeInvariance, PTL DEF Spec

(* The warm list never names a region twice, nor one that is gone, Cold or *)
(* External.                                                               *)
THEOREM WarmListSound == Spec => []LruSound
<1>1. ASSUME IInv, LruInv PROVE LruSound
  <2>1. ASSUME NEW i \in DOMAIN warm_lru
        PROVE  Live(warm_lru[i]) /\ regions[warm_lru[i]].residency \in {"Hot", "Warm"}
    <3>1. PICK q \in Ids : q = warm_lru[i]
      BY <1>1, <2>1, ElementOfSeq DEF IInv, TypeOK
    <3>2. Listed(q) /\ Kept(q)
      BY <1>1, <2>1, <3>1 DEF Listed, LruInv
    <3> QED BY <3>1, <3>2 DEF Kept
  <2> QED BY <1>1, <2>1 DEF LruSound, LruInv, NoDuplicates, IsInjective
<1> QED BY <1>1, LruInvariance, PTL

(* While a Warm region that cannot be pinned exists, evict_warm_region     *)
(* finds a victim, and its spill is refused only by policy or after an     *)
(* interrupted spill of the same region.                                   *)
THEOREM EvictionWorks == Spec => []EvictionFindsWarm
<1>1. ASSUME IInv, LruInv PROVE EvictionFindsWarm
  <2> SUFFICES ASSUME NEW r \in Ids, Live(r), regions[r].residency = "Warm",
                      ~regions[r].pinnable
               PROVE  /\ VictimPos # 0
                      /\ LET v == warm_lru[VictimPos]
                         IN regions[v].spillable /\ "spill_interrupted" \notin mishaps[v]
                            => CanSpill(v)
    BY DEF EvictionFindsWarm
  <2>1. TypeOK /\ Kept(r) /\ warm_lru \in Seq(Ids)
    BY <1>1 DEF IInv, LruInv, TypeOK
  <2>2. PICK i \in 1..Len(warm_lru) : warm_lru[i] = r
    BY <2>1 DEF Kept, Listed
  <2>3. regions[r] \in Entry
    BY <2>1, LiveEntry
  <2>4. Evictable(warm_lru[i])
    BY <2>1, <2>2, <2>3 DEF Evictable, Kept, Entry
  <2>5. VictimPos # 0
    <3> DEFINE I == {j \in 1..Len(warm_lru) : Evictable(warm_lru[j])}
    <3>1. VictimPos = IF I # {} THEN Max(I) ELSE 0
      BY DEF VictimPos, SelectLastInSeq
    <3>2. I # {} /\ I \in SUBSET (0..Len(warm_lru)) /\ Len(warm_lru) \in Nat /\ \A j \in I : j # 0
      BY <2>1, <2>2, <2>4
    <3> HIDE DEF I
    <3> QED BY <3>1, <3>2, MaxProperties
  <2>6. PICK v \in Ids : v = warm_lru[VictimPos] /\ Evictable(v)
    BY <2>1, <2>5, VictimPosType
  <2>7. Kept(v)
    BY <1>1 DEF LruInv
  <2>8. regions[v].spillable /\ "spill_interrupted" \notin mishaps[v] => CanSpill(v)
    BY <2>6, <2>7 DEF Evictable, CanSpill, Kept
  <2> QED BY <2>5, <2>6, <2>8
<1> QED BY <1>1, LruInvariance, PTL

=============================================================================
