------------------------ MODULE ConcurrentDirectory ------------------------
(***************************************************************************)
(* The directory that threads share through &self                          *)
(* (crates/tvm-core/src/concurrent.rs, eviction.rs): an RwLock around the  *)
(* slots, a mutex per region entry, a mutex around the LRU list.           *)
(*                                                                         *)
(* A call is a sequence of steps.  entry_arc clones the entry's Arc under  *)
(* the slots' read lock, so a call may go on with an entry that has been   *)
(* destroyed since.  The body runs under the entry's mutex: one step if it *)
(* takes that mutex alone, several for a copy between two regions.  The    *)
(* LRU list is updated after the mutex is released.                        *)
(***************************************************************************)
EXTENDS Integers, Sequences, FiniteSets, SequencesExt

CONSTANTS
  Threads,
  Contents, Zero, Torn, NoMemory,   \* as in RegionDirectory
  MaxRegions,    \* slots; ids are never reused
  Created,       \* how many regions may exist before the threads start
  Policies,      \* placement policies regions are created with
  MaxUsed,       \* a region's capacity, in allocations
  MaxGen,        \* bound: the last generation compaction reaches
  Targets,       \* targets demote_until is called with
  WithinTier,    \* "LargestFirst", "SmallestFirst" or "InsertionOrder"
  Operations,    \* the operations threads call
  MaxCalls,      \* bound: calls each thread makes
  Nobody         \* the owner of a free mutex

Ids == 0..(MaxRegions - 1)
Gens == 1..MaxGen
Bytes == Contents \cup {Torn}
Memory == Bytes \cup {NoMemory}
Policy == [initial : {"Hot", "Warm"}, pinnable : BOOLEAN, spillable : BOOLEAN]
AllOperations == {"create", "destroy", "alloc", "dealloc", "write", "copy", "pin", "unpin",
                  "spill", "load", "compact", "demote_until", "alloc_or_demote"}

ASSUME ConcurrentAssumption ==
  /\ Zero \in Contents /\ Torn \notin Contents /\ NoMemory \notin Bytes
  /\ MaxRegions \in Nat \ {0} /\ Created \subseteq 0..MaxRegions
  /\ MaxUsed \in Nat /\ MaxGen \in Nat \ {0} /\ MaxCalls \in Nat
  /\ Policies \subseteq Policy /\ Targets \subseteq Nat
  /\ WithinTier \in {"LargestFirst", "SmallestFirst", "InsertionOrder"}
  /\ Operations \subseteq AllOperations
  /\ Nobody \notin Threads

VARIABLES
  len,        \* slots pushed so far
  present,    \* ids whose slot is Some
  entries,    \* the entries, by id; a destroyed one lives while an Arc does
  owner,      \* the thread that holds each entry's mutex
  warm_lru,
  store,      \* the files of the backing store, by (id, generation)
  call,       \* the call each thread is in
  frame,      \* the demote_until a thread is in, around the calls it makes
  report,     \* the EvictionReport a thread got last
  calls,      \* calls each thread has made
  logical,    \* history: the bytes callers are entitled to read
  failed,     \* history: regions a spill of which failed
  disturbed   \* history: threads in whose demote_until another one meddled

shared == <<len, present, entries, owner, warm_lru, store>>
history == <<logical, failed>>
vars == <<shared, call, frame, report, calls, history, disturbed>>

Idle == [op |-> "idle"]
NoFrame == [stage |-> "none"]
NoReport == [target_met |-> FALSE, target |-> -1]

NewEntry(p, used) ==
  [residency |-> p.initial, pinned |-> FALSE, pinnable |-> p.pinnable,
   spillable |-> p.spillable, memory |-> Zero, generation |-> 1, used |-> used]

Init ==
  /\ len \in Created
  /\ present = 0..(len - 1)
  /\ \E p \in [Ids -> Policies], used \in [Ids -> 0..MaxUsed] :
       /\ \A r \in Ids : r >= len => used[r] = 0 /\ p[r] = p[0]
       /\ entries = [r \in Ids |-> NewEntry(p[r], used[r])]
       /\ warm_lru = SelectSeq([i \in 1..len |-> len - i],
                               LAMBDA r : p[r].initial = "Warm")
  /\ owner = [r \in Ids |-> Nobody]
  /\ store = [k \in Ids \X Gens |-> NoMemory]
  /\ call = [t \in Threads |-> Idle]
  /\ frame = [t \in Threads |-> NoFrame]
  /\ report = [t \in Threads |-> NoReport]
  /\ calls = [t \in Threads |-> 0]
  /\ logical = [r \in Ids |-> Zero]
  /\ failed = {}
  /\ disturbed = {}

-----------------------------------------------------------------------------
(* Calls *)

Waiting(t) == call[t] = Idle /\ frame[t] = NoFrame

Begin(t, op) ==
  /\ op \in Operations
  /\ Waiting(t)
  /\ calls[t] < MaxCalls
  /\ calls' = [calls EXCEPT ![t] = @ + 1]
  /\ report' = [report EXCEPT ![t] = NoReport]

Goto(t, c) == call' = [call EXCEPT ![t] = c]
Return(t) == Goto(t, Idle)
Running(t, op) == call[t].op = op
Unlocked(r) == owner[r] = Nobody

(* A call with the Arc of r in hand, about to lock it.                     *)
entry_arc(t, c) ==
  /\ c.r \in present
  /\ Goto(t, c)
  /\ UNCHANGED <<shared, frame, history>>

create_region(t, p) ==
  /\ Begin(t, "create")
  /\ len < MaxRegions
  /\ entries' = [entries EXCEPT ![len] = NewEntry(p, 0)]
  /\ present' = present \cup {len}
  /\ len' = len + 1
  /\ IF p.initial = "Warm" THEN Goto(t, [op |-> "lru_push", r |-> len]) ELSE Return(t)
  /\ UNCHANGED <<owner, warm_lru, store, frame, history>>

destroy_region(t, r) ==
  /\ Begin(t, "destroy")
  /\ r \in present
  /\ present' = present \ {r}
  /\ Goto(t, [op |-> "lru_remove", r |-> r])
  /\ UNCHANGED <<len, entries, owner, warm_lru, store, frame, history>>

lru_push_front(t) ==
  /\ Running(t, "lru_push")
  /\ warm_lru' = <<call[t].r>> \o SelectSeq(warm_lru, LAMBDA r : r # call[t].r)
  /\ Return(t)
  /\ UNCHANGED <<len, present, entries, owner, store, frame, report, calls, history>>

lru_remove(t) ==
  /\ Running(t, "lru_remove")
  /\ warm_lru' = SelectSeq(warm_lru, LAMBDA r : r # call[t].r)
  /\ Return(t)
  /\ UNCHANGED <<len, present, entries, owner, store, frame, report, calls, history>>

-----------------------------------------------------------------------------
(* Bodies that run under one entry's mutex *)

(* The entry becomes e; the store and the rest of the call are the         *)
(* caller's business.                                                      *)
Update(t, op, r, e) ==
  /\ Running(t, op)
  /\ Unlocked(r)
  /\ entries' = [entries EXCEPT ![r] = e]
  /\ UNCHANGED <<len, present, owner, warm_lru, report, calls>>

alloc(t) ==
  LET r == call[t].r
      e == entries[r]
      full == e.used = MaxUsed
  IN /\ Update(t, "alloc", r, IF full THEN e ELSE [e EXCEPT !.used = @ + 1])
     /\ Return(t)
     /\ frame' = [frame EXCEPT ![t] =
          IF full /\ call[t].target >= 0
          THEN [stage |-> "start", target |-> call[t].target, retry |-> r]
          ELSE NoFrame]
     /\ UNCHANGED <<store, history>>

dealloc(t) ==
  LET r == call[t].r
      e == entries[r]
  IN /\ Update(t, "dealloc", r,
               IF e.generation = call[t].g /\ e.used > 0 THEN [e EXCEPT !.used = @ - 1] ELSE e)
     /\ Return(t)
     /\ UNCHANGED <<store, frame, history>>

WriteUnlocked(t) ==      \* mutant: the entry's mutex is not taken
  LET r == call[t].r
  IN /\ Running(t, "write")
     /\ entries[r].generation = call[t].g
     /\ entries[r].memory \in Contents
     /\ entries' = [entries EXCEPT ![r].memory = call[t].c]
     /\ logical' = [logical EXCEPT ![r] = call[t].c]
     /\ Return(t)
     /\ UNCHANGED <<len, present, owner, warm_lru, store, frame, report, calls, failed>>
write(t) ==
  LET r == call[t].r
      e == entries[r]
      lands == e.generation = call[t].g /\ e.memory \in Contents
  IN /\ Update(t, "write", r, IF lands THEN [e EXCEPT !.memory = call[t].c] ELSE e)
     /\ logical' = IF lands THEN [logical EXCEPT ![r] = call[t].c] ELSE logical
     /\ Return(t)
     /\ UNCHANGED <<store, frame, failed>>

pin(t) ==
  LET r == call[t].r
      e == entries[r]
  IN /\ Update(t, "pin", r, IF e.pinnable THEN [e EXCEPT !.pinned = TRUE] ELSE e)
     /\ Return(t)
     /\ UNCHANGED <<store, frame, history>>

unpin(t) ==
  /\ Update(t, "unpin", call[t].r, [entries[call[t].r] EXCEPT !.pinned = FALSE])
  /\ Return(t)
  /\ UNCHANGED <<store, frame, history>>

compact_region(t) ==
  LET r == call[t].r
      e == entries[r]
      moves == ~e.pinned /\ e.memory \in Contents /\ e.generation < MaxGen
  IN /\ Update(t, "compact", r, IF moves THEN [e EXCEPT !.generation = @ + 1] ELSE e)
     /\ Return(t)
     /\ UNCHANGED <<store, frame, history>>

LoadAlways(t) ==         \* mutant: resident bytes replaced by the file
  LET r == call[t].r
      e == entries[r]
      file == store[<<r, e.generation>>]
  IN /\ Update(t, "load", r, IF file = NoMemory THEN e
                             ELSE [e EXCEPT !.memory = file, !.residency = "Hot"])
     /\ Return(t)
     /\ UNCHANGED <<store, frame, history>>
load_region(t) ==
  LET r == call[t].r
      e == entries[r]
      file == store[<<r, e.generation>>]
      loads == ~(e.residency = "Hot" /\ e.memory # NoMemory) /\ file # NoMemory
  IN /\ Update(t, "load", r,
               IF loads THEN [e EXCEPT !.memory = file, !.residency = "Hot"] ELSE e)
     /\ Return(t)
     /\ UNCHANGED <<store, frame, history>>

(* In a demote_until, a spill that returns Ok is credited with the bytes   *)
(* the snapshot saw.                                                       *)
Credit(t) ==
  frame' = IF frame[t] = NoFrame THEN frame
           ELSE [frame EXCEPT ![t].current = IF @ > call[t].used THEN @ - call[t].used ELSE 0]

SpillChecksNothing(e) == e.memory # NoMemory /\ e.residency # "Cold"   \* mutant: trusts the snapshot
CanSpill(e) == ~e.pinned /\ e.spillable /\ e.residency # "Cold" /\ e.memory # NoMemory
SpillNoop(e) == ~e.pinned /\ e.spillable /\ e.residency = "Cold"

spill_region(t) ==
  LET r == call[t].r
      e == entries[r]
      key == <<r, e.generation>>
  IN /\ Running(t, "spill")
     /\ \/ /\ CanSpill(e)                 \* spilled
           /\ Update(t, "spill", r, [e EXCEPT !.memory = NoMemory, !.residency = "Cold"])
           /\ store' = [store EXCEPT ![key] = e.memory]
           /\ Goto(t, [op |-> "lru_remove", r |-> r])
           /\ Credit(t)
           /\ UNCHANGED history
        \/ /\ CanSpill(e)                 \* the store failed: the error ends demote_until too
           /\ Update(t, "spill", r, [e EXCEPT !.memory = NoMemory])
           /\ \E leftover \in {store[key], Torn} : store' = [store EXCEPT ![key] = leftover]
           /\ failed' = failed \cup {r}
           /\ Return(t)
           /\ frame' = [frame EXCEPT ![t] = NoFrame]
           /\ UNCHANGED logical
        \/ /\ SpillNoop(e)                \* Ok(()) for a Cold region
           /\ Update(t, "spill", r, e)
           /\ Return(t)
           /\ Credit(t)
           /\ UNCHANGED <<store, history>>
        \/ /\ ~CanSpill(e) /\ ~SpillNoop(e)    \* Pinned, PolicyViolation, NotResident
           /\ Update(t, "spill", r, e)
           /\ Return(t)
           /\ UNCHANGED <<store, frame, history>>

-----------------------------------------------------------------------------
(* cross_region_copy between two regions: both mutexes, ascending order *)

LockOrderSrcFirst(src, dst) == <<src, dst>>      \* mutant: no global order
LockOrder(src, dst) == IF src < dst THEN <<src, dst>> ELSE <<dst, src>>

(* The two entry_arc calls are one step: what happens between them could   *)
(* as well happen before or after both.  Within one region a single mutex  *)
(* is taken, and the bytes stay the same.                                  *)
copy_begin(t, src, dst) ==
  /\ Begin(t, "copy")
  /\ src # dst
  /\ dst \in present
  /\ entry_arc(t, [op |-> "copy_lo", r |-> src, dst |-> dst])

Acquire(t, r) == Unlocked(r) /\ owner' = [owner EXCEPT ![r] = t]

copy_lock(t) ==
  LET c == call[t]
      order == LockOrder(c.r, c.dst)
  IN /\ \/ /\ Running(t, "copy_lo")
           /\ Acquire(t, order[1])
           /\ Goto(t, [c EXCEPT !.op = "copy_hi"])
        \/ /\ Running(t, "copy_hi")
           /\ Acquire(t, order[2])
           /\ Goto(t, [c EXCEPT !.op = "copy_read"])
     /\ UNCHANGED <<len, present, entries, warm_lru, store, frame, report, calls, history>>

Release(t) == owner' = [r \in Ids |-> IF owner[r] = t THEN Nobody ELSE owner[r]]

copy_read(t) ==
  LET c == call[t]
      bytes == entries[c.r].memory
  IN /\ Running(t, "copy_read")
     /\ \/ /\ bytes \in Contents
           /\ Goto(t, [op |-> "copy_write", r |-> c.r, dst |-> c.dst, buf |-> bytes])
           /\ UNCHANGED owner
        \/ /\ bytes \notin Contents
           /\ Return(t)
           /\ Release(t)
     /\ UNCHANGED <<len, present, entries, warm_lru, store, frame, report, calls, history>>

copy_write(t) ==
  LET c == call[t]
      lands == entries[c.dst].memory \in Contents
  IN /\ Running(t, "copy_write")
     /\ entries' = IF lands THEN [entries EXCEPT ![c.dst].memory = c.buf] ELSE entries
     /\ logical' = IF lands THEN [logical EXCEPT ![c.dst] = c.buf] ELSE logical
     /\ Return(t)
     /\ Release(t)
     /\ UNCHANGED <<len, present, warm_lru, store, frame, report, calls, failed>>

-----------------------------------------------------------------------------
(* demote_until *)

CountsHotOnly(e) == e.residency = "Hot"          \* mutant: Warm bytes not counted
counts_toward_resident(e) == e.residency \in {"Hot", "Warm"}

(* What the elements of S, given by f, use together.                       *)
Used(f, S) == MapThenSumSet(LAMBDA x : f[x].used, S)
Total(metas) == Used(metas, {i \in DOMAIN metas : counts_toward_resident(metas[i])})

within_tier_cmp(a, b) ==
  CASE WithinTier = "LargestFirst"   -> a.used > b.used \/ (a.used = b.used /\ a.id < b.id)
    [] WithinTier = "SmallestFirst"  -> a.used < b.used \/ (a.used = b.used /\ a.id < b.id)
    [] WithinTier = "InsertionOrder" -> a.id < b.id

(* The elements of S in the order that before gives.                       *)
Ordered(S, before(_, _)) ==
  CHOOSE s \in SetToSeqs(S) : \A i, j \in DOMAIN s : i < j => before(s[i], s[j])

Candidates(metas, tier) ==
  Ordered({m \in Range(metas) : ~m.pinned /\ m.spillable /\ m.residency = tier},
          within_tier_cmp)

HotFirst(metas) == Candidates(metas, "Hot") \o Candidates(metas, "Warm")   \* mutant
ColdestFirst(metas) == Candidates(metas, "Warm") \o Candidates(metas, "Hot")

demote_until_begin(t, target) ==
  /\ Begin(t, "demote_until")
  /\ frame' = [frame EXCEPT ![t] = [stage |-> "start", target |-> target, retry |-> -1]]
  /\ UNCHANGED <<shared, call, history>>

(* list_regions: clone every Arc, then lock the entries one at a time.     *)
list_regions(t) ==
  LET f == frame[t]
      m == f.todo[1]
  IN /\ call[t] = Idle
     /\ \/ /\ f.stage = "start"
           /\ frame' = [frame EXCEPT ![t] =
                [stage |-> "list", target |-> f.target, retry |-> f.retry,
                 todo |-> Ordered(present, <), metas |-> << >>]]
        \/ /\ f.stage = "list"
           /\ f.todo # << >>
           /\ Unlocked(m)
           /\ frame' = [frame EXCEPT ![t].todo = Tail(@), ![t].metas = Append(@,
                [id |-> m, used |-> entries[m].used, residency |-> entries[m].residency,
                 pinned |-> entries[m].pinned, spillable |-> entries[m].spillable])]
     /\ UNCHANGED <<shared, call, report, calls, history>>

demote_until_plan(t) ==
  LET f == frame[t]
  IN /\ f.stage = "list"
     /\ f.todo = << >>
     /\ frame' = [frame EXCEPT ![t] =
          [stage |-> "spill", target |-> f.target, retry |-> f.retry,
           current |-> Total(f.metas),
           todo |-> ColdestFirst(f.metas)]]
     /\ UNCHANGED <<shared, call, report, calls, history>>

(* One candidate; a region destroyed since the snapshot is passed over.    *)
demote_until_next(t) ==
  LET f == frame[t]
      m == f.todo[1]
  IN /\ call[t] = Idle
     /\ f.stage = "spill"
     /\ f.current > f.target
     /\ f.todo # << >>
     /\ frame' = [frame EXCEPT ![t].todo = Tail(@)]
     /\ call' = IF m.id \in present
                THEN [call EXCEPT ![t] = [op |-> "spill", r |-> m.id, used |-> m.used]]
                ELSE call
     /\ UNCHANGED <<shared, report, calls, history>>

(* The report; alloc_or_demote drops it and tries its alloc once more.     *)
demote_until_return(t) ==
  LET f == frame[t]
      done == f.current <= f.target \/ f.todo = << >>
  IN /\ call[t] = Idle
     /\ f.stage = "spill"
     /\ done
     /\ frame' = [frame EXCEPT ![t] = NoFrame]
     /\ report' = [report EXCEPT ![t] =
          IF f.retry >= 0 THEN @ ELSE [target_met |-> f.current <= f.target, target |-> f.target]]
     /\ call' = IF f.retry \in present
                THEN [call EXCEPT ![t] = [op |-> "alloc", r |-> f.retry, target |-> -1]]
                ELSE call
     /\ UNCHANGED <<shared, calls, history>>

-----------------------------------------------------------------------------

(* The calls that start with entry_arc.                                    *)
Invoke(t) ==
  \E r \in Ids :
    \/ \E op \in {"pin", "unpin", "load", "compact"} :
         Begin(t, op) /\ entry_arc(t, [op |-> op, r |-> r])
    \/ Begin(t, "spill") /\ entry_arc(t, [op |-> "spill", r |-> r, used |-> 0])
    \/ Begin(t, "alloc") /\ entry_arc(t, [op |-> "alloc", r |-> r, target |-> -1])
    \/ \E target \in Targets :
         Begin(t, "alloc_or_demote") /\ entry_arc(t, [op |-> "alloc", r |-> r, target |-> target])
    \/ \E g \in 1..entries[r].generation :
         \/ Begin(t, "dealloc") /\ entry_arc(t, [op |-> "dealloc", r |-> r, g |-> g])
         \/ \E c \in Contents :
              Begin(t, "write") /\ entry_arc(t, [op |-> "write", r |-> r, g |-> g, c |-> c])
    \/ \E dst \in Ids : copy_begin(t, r, dst)
    \/ destroy_region(t, r)

Continue(t) ==
  \/ lru_push_front(t) \/ lru_remove(t)
  \/ alloc(t) \/ dealloc(t) \/ write(t) \/ pin(t) \/ unpin(t)
  \/ compact_region(t) \/ load_region(t) \/ spill_region(t)
  \/ copy_lock(t) \/ copy_read(t) \/ copy_write(t)
  \/ list_regions(t) \/ demote_until_plan(t) \/ demote_until_next(t)
  \/ demote_until_return(t)

(* History: a demote_until is disturbed once another thread changes an     *)
(* entry or the set of regions while it runs.                              *)
Meddle(t) ==
  disturbed' = LET calm == IF frame[t] = NoFrame THEN disturbed \ {t} ELSE disturbed
               IN IF entries' # entries \/ present' # present
                  THEN calm \cup {u \in Threads \ {t} : frame[u] # NoFrame} ELSE calm

Step(t) == Continue(t) /\ Meddle(t)

Next ==
  \E t \in Threads :
    \/ Step(t)
    \/ /\ \/ Invoke(t)
          \/ \E p \in Policies : create_region(t, p)
          \/ \E target \in Targets : demote_until_begin(t, target)
       /\ Meddle(t)

(* A thread inside a call is eventually scheduled.                         *)
Spec == Init /\ [][Next]_vars /\ \A t \in Threads : WF_vars(Step(t))

-----------------------------------------------------------------------------
(* Properties *)

(* Whatever the threads do to a region at the same time, its memory or,    *)
(* once it is Cold, its file holds the bytes last written or copied to it, *)
(* unless a spill of it failed.                                            *)
BytesSurvive ==
  \A r \in Ids \ failed :
     logical[r] = IF entries[r].residency = "Cold" THEN store[<<r, entries[r].generation>>]
                  ELSE entries[r].memory

(* cross_region_copy is atomic: when the destination changes, the bytes    *)
(* read earlier still are the bytes of the source.                         *)
CopyIsAtomic ==
  [][\A t \in Threads : Running(t, "copy_write") /\ call'[t] = Idle =>
       call[t].buf = entries[call[t].r].memory]_vars

(* A pin that has returned is honoured by every spill, also by one that    *)
(* demote_until planned when the region was not pinned yet.                *)
PinnedStaysResident ==
  [][\A r \in Ids : entries[r].pinned /\ entries[r].memory # NoMemory =>
       entries'[r].memory # NoMemory]_vars

ResidentBytes == Used(entries, {r \in present : entries[r].residency \in {"Hot", "Warm"}})

(* If no other thread meddled, target_met tells the truth: the resident    *)
(* bytes left are at or below the target exactly when it is set.           *)
ReportExact ==
  [][\A t \in Threads \ disturbed :
       report'[t] # report[t] /\ report'[t] # NoReport =>
         (report'[t].target_met <=> ResidentBytes <= report'[t].target)]_vars

(* If no other thread meddled, demote_until spills a region only while the *)
(* target is exceeded, and a Hot one only when no Warm one can be spilled. *)
NoNeedlessSpill ==
  [][\A t \in Threads \ disturbed :
       frame[t].stage = "spill" /\ Running(t, "spill") /\ Running(t, "lru_remove")' =>
         /\ ResidentBytes > frame[t].target
         /\ entries[call[t].r].residency = "Hot" =>
              \A r \in present : CanSpill(entries[r]) => entries[r].residency = "Hot"]_vars

(* Every call returns: two copies in opposite directions, a copy and a     *)
(* listing, or a copy and a spill never wait for each other forever.       *)
EveryCallReturns == \A t \in Threads : ~Waiting(t) ~> Waiting(t)

=============================================================================
