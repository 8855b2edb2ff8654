------------------------------- MODULE WebTvm -------------------------------
(***************************************************************************)
(* The browser host (web/tvm-web/src): the facade tvm.ts, its directory    *)
(* (directory.ts), the pool memories (pools.ts) and the OPFS worker behind *)
(* postMessage (opfs-backend.ts, opfs-worker.ts).                          *)
(*                                                                         *)
(* JavaScript runs one piece at a time; an async call is cut at its        *)
(* awaits.  A call in progress is a task; what it waits for is a request   *)
(* in the worker or a reply on its way back.  Each write of a region       *)
(* stores a new version of its bytes.  A region keeps generation 1 for     *)
(* ever, so its file is named by its id.                                   *)
(***************************************************************************)
EXTENDS Integers, Sequences, SequencesExt, FiniteSetsExt

CONSTANTS
  PoolCount, PoolCapacity,   \* pools, and the 4 GiB each may grow to
  PageBytes,        \* the unit of growth
  Wanted,           \* regions callers create: a policy and a capacity
  Sizes,            \* block sizes callers ask for
  Budgets, NoBudget,   \* soft caps callers set; undefined
  MaxRegions,       \* bound: ids given out
  MaxVersions,      \* bound: writes of one region
  MaxCalls,         \* bound: async calls made
  MaxFaults         \* bound: failed file operations

Policy == [initial : {"Hot", "Warm"}, pinnable : BOOLEAN, spillable : BOOLEAN]

ASSUME WebAssumption ==
  /\ PoolCount \in Nat \ {0} /\ PoolCapacity \in Nat /\ PageBytes \in Nat \ {0}
  /\ Wanted \subseteq [kind : Policy, capacity : Nat \ {0}]
  /\ \A w \in Wanted : w.kind.initial = "Warm" => w.kind.spillable
  /\ Sizes \subseteq Nat
  /\ NoBudget \notin Budgets

VARIABLES
  pools,        \* [used, free] of each pool; free is a sequence of spans
  slots,        \* region id -> entry
  nextId, cursorHot, cursorWarm, warmLru,
  budget,       \* budgetBytes
  memory,       \* the bytes of each pool memory, as long as it has grown
  files,        \* region id -> bytes of its OPFS file
  tasks, calls, \* async calls in progress: number -> what it does; calls made
  inbox, open, replies,   \* requests posted; with their file open; answers posted
  faults, closed,
  version,      \* history: writes of each region
  failed        \* history: regions one of whose evictions was rejected

directory == <<pools, slots, nextId, cursorHot, cursorWarm, warmLru>>
worker == <<inbox, open, replies, files, faults>>
webVars == <<directory, budget, memory, worker, tasks, calls, closed, version, failed>>

Pools == 0..(PoolCount - 1)
Blank == <<0, 0>>     \* what fresh memory holds
Torn == <<0, 1>>      \* what a write that failed half-way leaves

WebInit ==
  /\ pools = [k \in Pools |-> [used |-> 0, free |-> << >>]]
  /\ slots = << >> /\ nextId = 1
  /\ cursorHot = 0 /\ cursorWarm = 0 /\ warmLru = << >>
  /\ budget \in Budgets \cup {NoBudget}
  /\ memory = [k \in Pools |-> [i \in 1..PageBytes |-> Blank]]
  /\ files = << >>
  /\ tasks = << >> /\ calls = 0
  /\ inbox = << >> /\ open = {} /\ replies = << >>
  /\ faults = 0 /\ closed = FALSE
  /\ version = << >> /\ failed = {}

-----------------------------------------------------------------------------
(* Spans: a free list and a bump mark per pool (directory.ts)               *)

With(f, k, v) == [i \in DOMAIN f \cup {k} |-> IF i = k THEN v ELSE f[i]]
Without(f, k) == [i \in DOMAIN f \ {k} |-> f[i]]

SpanTaken(pool, i, capacity) ==
  LET span == pool.free[i]
  IN IF span.size = capacity THEN RemoveAt(pool.free, i)
     ELSE [pool.free EXCEPT ![i] = [offset |-> @.offset + capacity, size |-> @.size - capacity]]

(* First fit from the free list, else bump; -1 when the pool has no room.  *)
allocateFromPool(pool, capacity) ==
  LET i == SelectInSeq(pool.free, LAMBDA span : span.size >= capacity)
  IN IF i # 0 THEN [at |-> pool.free[i].offset,
                    pool |-> [pool EXCEPT !.free = SpanTaken(pool, i, capacity)]]
     ELSE IF PoolCapacity - pool.used >= capacity
       THEN [at |-> pool.used, pool |-> [pool EXCEPT !.used = @ + capacity]]
     ELSE [at |-> -1, pool |-> pool]

Mid == (PoolCount + 1) \div 2
Hot == [lo |-> 0, size |-> Mid, cursor |-> cursorHot]
Warm == [lo |-> Mid, size |-> PoolCount - Mid, cursor |-> cursorWarm]
Tried(band) == [o \in 1..band.size |-> band.lo + ((band.cursor + o - 1) % band.size)]

(* Pools in the order tried: the preferred band from its cursor, then the other. *)
allocateSpan(capacity, residency) ==
  LET order == IF residency = "Hot" THEN Tried(Hot) \o Tried(Warm)
               ELSE Tried(Warm) \o Tried(Hot)
      i == SelectInSeq(order, LAMBDA k : allocateFromPool(pools[k], capacity).at >= 0)
      k == order[i]
      result == allocateFromPool(pools[k], capacity)
  IN IF i = 0 THEN [found |-> FALSE]
     ELSE [found |-> TRUE, poolIndex |-> k, baseOffset |-> result.at,
           pools |-> [pools EXCEPT ![k] = result.pool],
           hot |-> IF k < Mid THEN (k + 1) % Mid ELSE cursorHot,
           warm |-> IF k >= Mid THEN (k - Mid + 1) % (PoolCount - Mid) ELSE cursorWarm]

Highest(spans) == CHOOSE top \in spans : \A span \in spans : span.offset <= top.offset
Merge(span, spans) ==
  IF spans # << >> /\ Last(spans).offset + Last(spans).size = span.offset
  THEN [spans EXCEPT ![Len(spans)].size = @ + span.size]
  ELSE Append(spans, span)

FreedUnmerged(pool, offset, size) ==          \* mutant: no coalescing
  [pool EXCEPT !.free = MapThenFoldSet(LAMBDA span, spans : Append(spans, span), << >>,
     LAMBDA span : span, Highest, ToSet(pool.free) \cup {[offset |-> offset, size |-> size]})]
(* The spans are sorted and joined to the last one in order, the highest    *)
(* last; a tail that meets the bump mark goes back to it.                   *)
freeSpan(pool, offset, size) ==
  LET all == ToSet(pool.free) \cup {[offset |-> offset, size |-> size]}
      merged == MapThenFoldSet(Merge, << >>, LAMBDA span : span, Highest, all)
      tail == Last(merged)
  IN IF tail.offset + tail.size = pool.used
     THEN [used |-> tail.offset, free |-> Front(merged)]
     ELSE [used |-> pool.used, free |-> merged]

lruRemove(lru, r) == RemoveFirst(lru, r)
lruPushFront(lru, r) == <<r>> \o lruRemove(lru, r)

Resident == {r \in DOMAIN slots : slots[r].residency # "Cold"}
residentBytes == MapThenSumSet(LAMBDA r : slots[r].capacity, Resident)

(* The scan drops what is no longer evictable from the back of the list.    *)
Evictable(r) == ~slots[r].pinned /\ slots[r].residency = "Warm"
Scanned == LET last == SelectLastInSeq(warmLru, Evictable) IN SubSeq(warmLru, 1, last)

-----------------------------------------------------------------------------
(* Pool memories (pools.ts)                                                 *)

ensureSize(bytes, length) ==
  LET pages == (length - Len(bytes) + PageBytes - 1) \div PageBytes
  IN IF Len(bytes) >= length THEN bytes
     ELSE bytes \o [i \in 1..(pages * PageBytes) |-> Blank]

writeRange(bytes, offset, new) ==
  LET grown == ensureSize(bytes, offset + Len(new))
  IN [i \in DOMAIN grown |-> IF i - offset \in DOMAIN new THEN new[i - offset] ELSE grown[i]]

-----------------------------------------------------------------------------
(* Calls that do not wait (tvm.ts, directory.ts)                            *)

alloc(r, size) ==
  LET e == slots[r]
  IN /\ e.used + size <= e.capacity
     /\ slots' = [slots EXCEPT ![r].used = @ + size]
     /\ memory' = [memory EXCEPT ![e.poolIndex] = ensureSize(@, e.baseOffset + e.capacity)]
     /\ UNCHANGED <<pools, nextId, cursorHot, cursorWarm, warmLru, budget, worker, tasks, calls,
                    closed, version, failed>>

(* The caller rewrites what it was given; resolve refuses a Cold region.    *)
write(r) ==
  LET e == slots[r]
      next == [n |-> version[r].n + 1, length |-> e.used]
  IN /\ e.used > 0 /\ e.residency # "Cold"
     /\ version[r].n < MaxVersions
     /\ memory' = [memory EXCEPT ![e.poolIndex] =
                     writeRange(@, e.baseOffset, [i \in 1..e.used |-> <<r, next.n>>])]
     /\ version' = [version EXCEPT ![r] = next]
     /\ failed' = failed \ {r}
     /\ UNCHANGED <<directory, budget, worker, tasks, calls, closed>>

Relabel(r, changed, lru) ==
  /\ slots' = [slots EXCEPT ![r] = changed]
  /\ warmLru' = lru
  /\ UNCHANGED <<pools, nextId, cursorHot, cursorWarm, budget, memory, worker, tasks, calls, closed,
                 version, failed>>

pin(r) == /\ slots[r].pinnable
          /\ Relabel(r, [slots[r] EXCEPT !.pinned = TRUE], lruRemove(warmLru, r))

unpin(r) == Relabel(r, [slots[r] EXCEPT !.pinned = FALSE],
              IF slots[r].residency = "Warm" THEN lruPushFront(warmLru, r) ELSE warmLru)

demote(r) ==
  /\ ~slots[r].pinned /\ slots[r].spillable
  /\ slots[r].residency = "Hot"
  /\ Relabel(r, [slots[r] EXCEPT !.residency = "Warm"], lruPushFront(warmLru, r))

setBudget(b) ==
  /\ budget' = b
  /\ UNCHANGED <<directory, memory, worker, tasks, calls, closed, version, failed>>

-----------------------------------------------------------------------------
(* Calls that wait (tvm.ts): a task per call                                *)

Started == calls < MaxCalls /\ calls' = calls + 1
This == calls + 1     \* the task of the call that starts
Post(request) == inbox' = Append(inbox, request)

markEvicted(r, lru) ==
  LET e == slots[r]
  IN /\ pools' = [pools EXCEPT ![e.poolIndex] = freeSpan(@, e.baseOffset, e.capacity)]
     /\ slots' = [slots EXCEPT ![r].residency = "Cold"]
     /\ warmLru' = lruRemove(lru, r)
     /\ UNCHANGED <<nextId, cursorHot, cursorWarm>>

(* The part of evict before its await: the span is given up, then its bytes *)
(* copied and posted; readRange throws when the pool never grew that far.   *)
BeginEvict(r, lru, t, task) ==
  LET e == slots[r]
      bytes == memory[e.poolIndex]
      readable == e.baseOffset + e.capacity <= Len(bytes)
      copy == SubSeq(bytes, e.baseOffset + 1, e.baseOffset + e.capacity)
  IN /\ markEvicted(r, lru)
     /\ \/ /\ readable
           /\ Post([task |-> t, op |-> "spill", region |-> r, bytes |-> copy])
           /\ tasks' = With(tasks, t, task)
           /\ UNCHANGED failed
        \/ /\ ~readable
           /\ failed' = failed \cup {r}
           /\ tasks' = Without(tasks, t)
           /\ UNCHANGED inbox

MayEvict(r) == ~slots[r].pinned /\ slots[r].spillable /\ slots[r].residency # "Cold"

evict(r) ==
  /\ Started /\ MayEvict(r)
  /\ BeginEvict(r, warmLru, This, [op |-> "evict"])
  /\ UNCHANGED <<budget, memory, open, replies, files, faults, closed, version>>

evictColdest ==
  /\ Started /\ Scanned # << >>
  /\ BeginEvict(Last(Scanned), Scanned, This, [op |-> "evict"])
  /\ UNCHANGED <<budget, memory, open, replies, files, faults, closed, version>>

Promoting(r) == \E t \in DOMAIN tasks : tasks[t] = [op |-> "promote", region |-> r]
(* Callers await a promote before they ask for the same region again.       *)
promote(r) ==
  /\ Started /\ slots[r].residency = "Cold"
  /\ ~Promoting(r)
  /\ Post([task |-> This, op |-> "load", region |-> r, bytes |-> << >>])
  /\ tasks' = With(tasks, This, [op |-> "promote", region |-> r])
  /\ UNCHANGED <<directory, budget, memory, open, replies, files, faults, closed, version,
                 failed>>

(* One round of ensureBudgetFor: evict the coldest and wait, or go on.      *)
Creating(kind, capacity, ready) ==
  [op |-> "create", kind |-> kind, capacity |-> capacity, ready |-> ready]
OverBudget(capacity) == budget # NoBudget /\ residentBytes + capacity > budget
ensureBudgetFor(kind, capacity, t) ==
  \/ /\ OverBudget(capacity) /\ Scanned # << >>
     /\ BeginEvict(Last(Scanned), Scanned, t, Creating(kind, capacity, FALSE))
  \/ /\ OverBudget(capacity) => Scanned = << >>
     /\ warmLru' = IF OverBudget(capacity) THEN Scanned ELSE warmLru
     /\ tasks' = With(tasks, t, Creating(kind, capacity, TRUE))
     /\ UNCHANGED <<pools, slots, nextId, cursorHot, cursorWarm, inbox, failed>>

createRegion(kind, capacity) ==
  /\ Started
  /\ ensureBudgetFor(kind, capacity, This)
  /\ UNCHANGED <<budget, memory, open, replies, files, faults, closed, version>>

(* The await of ensureBudgetFor ends after the callers' turn.  An id is     *)
(* spent even when no pool has room.                                        *)
directory_createRegion(t) ==
  LET task == tasks[t]
      place == allocateSpan(task.capacity, task.kind.initial)
      entry == [residency |-> task.kind.initial, pinned |-> FALSE,
                pinnable |-> task.kind.pinnable, spillable |-> task.kind.spillable,
                capacity |-> task.capacity, used |-> 0,
                poolIndex |-> place.poolIndex, baseOffset |-> place.baseOffset]
  IN /\ task.op = "create" /\ task.ready
     /\ nextId <= MaxRegions
     /\ nextId' = nextId + 1
     /\ tasks' = Without(tasks, t)
     /\ \/ /\ place.found
           /\ pools' = place.pools /\ cursorHot' = place.hot /\ cursorWarm' = place.warm
           /\ slots' = With(slots, nextId, entry)
           /\ version' = With(version, nextId, [n |-> 0, length |-> 0])
           /\ warmLru' = IF task.kind.initial = "Warm" THEN lruPushFront(warmLru, nextId)
                         ELSE warmLru
        \/ /\ ~place.found
           /\ UNCHANGED <<pools, slots, cursorHot, cursorWarm, warmLru, version>>
     /\ UNCHANGED <<budget, memory, worker, calls, closed, failed>>

-----------------------------------------------------------------------------
(* The OPFS worker (opfs-worker.ts).  The browser opens files in the order  *)
(* asked, and refuses a second access handle on an open file.               *)

Reply(request, ok, bytes) ==
  replies' = Append(replies, [task |-> request.task, op |-> request.op, region |-> request.region,
                              bytes |-> bytes, ok |-> ok])

NeverLocked(r) == FALSE     \* mutant: "readwrite-unsafe" access handles
Locked(r) == \E other \in open : other.region = r

handleFor ==
  LET request == Head(inbox)
      r == request.region
      refused == Locked(r) \/ (request.op = "load" /\ r \notin DOMAIN files)
  IN /\ inbox # << >>
     /\ inbox' = Tail(inbox)
     /\ \/ /\ ~refused
           /\ open' = open \cup {request}
           /\ files' = IF r \in DOMAIN files THEN files ELSE With(files, r, << >>)
           /\ UNCHANGED <<replies, failed>>
        \/ /\ refused
           /\ Reply(request, FALSE, << >>)
           /\ failed' = IF request.op = "spill" THEN failed \cup {r} ELSE failed
           /\ UNCHANGED <<open, files>>
     /\ UNCHANGED <<directory, budget, memory, tasks, faults, calls, closed, version>>

dispatch(request) ==
  /\ open' = open \ {request}
  /\ \/ /\ request.op = "spill"
        /\ files' = [files EXCEPT ![request.region] = request.bytes]
        /\ Reply(request, TRUE, << >>)
     \/ /\ request.op = "load"
        /\ Reply(request, TRUE, files[request.region])
        /\ UNCHANGED files
  /\ UNCHANGED <<directory, budget, memory, tasks, inbox, faults, calls, closed, version, failed>>

(* The disk fails: a spill has truncated its file and not written it.       *)
dispatch_fails(request) ==
  /\ faults < MaxFaults
  /\ faults' = faults + 1
  /\ open' = open \ {request}
  /\ Reply(request, FALSE, << >>)
  /\ \/ /\ request.op = "spill"
        /\ files' = [files EXCEPT ![request.region] = [i \in DOMAIN request.bytes |-> Torn]]
        /\ failed' = failed \cup {request.region}
     \/ request.op = "load" /\ UNCHANGED <<files, failed>>
  /\ UNCHANGED <<directory, budget, memory, tasks, inbox, calls, closed, version>>

-----------------------------------------------------------------------------
(* Replies resume the calls that wait for them                              *)

evict_returns(reply) ==
  /\ tasks[reply.task].op = "evict"
  /\ tasks' = Without(tasks, reply.task)
  /\ UNCHANGED <<directory, budget, memory, inbox, open, files, faults, calls, closed, version,
                 failed>>

createRegion_resumes(reply) ==
  LET task == tasks[reply.task]
  IN /\ task.op = "create"
     /\ \/ reply.ok /\ ensureBudgetFor(task.kind, task.capacity, reply.task)
        \/ /\ ~reply.ok
           /\ tasks' = Without(tasks, reply.task)
           /\ UNCHANGED <<directory, inbox, failed>>
     /\ UNCHANGED <<budget, memory, open, files, faults, calls, closed, version>>

(* prepareReload, writeRange, markResident.                                 *)
MayReload(r) == slots[r].residency = "Cold"
Reload(reply) ==
  LET r == reply.region
      place == allocateSpan(slots[r].capacity, "Hot")
  IN /\ MayReload(r) /\ place.found
     /\ pools' = place.pools /\ cursorHot' = place.hot /\ cursorWarm' = place.warm
     /\ slots' = [slots EXCEPT ![r].poolIndex = place.poolIndex,
                               ![r].baseOffset = place.baseOffset, ![r].residency = "Hot"]
     /\ memory' = [memory EXCEPT ![place.poolIndex] =
                     writeRange(@, place.baseOffset, reply.bytes)]
     /\ warmLru' = lruRemove(warmLru, r)
     /\ UNCHANGED nextId

Reloadable(reply) ==
  /\ reply.ok /\ MayReload(reply.region)
  /\ allocateSpan(slots[reply.region].capacity, "Hot").found
promote_resumes(reply) ==
  /\ tasks[reply.task].op = "promote"
  /\ tasks' = Without(tasks, reply.task)
  /\ \/ Reloadable(reply) /\ Reload(reply)
     \/ ~Reloadable(reply) /\ UNCHANGED <<directory, memory>>
  /\ UNCHANGED <<budget, inbox, open, files, faults, calls, closed, version, failed>>

resume ==
  /\ replies # << >>
  /\ replies' = Tail(replies)
  /\ \/ evict_returns(Head(replies))
     \/ createRegion_resumes(Head(replies))
     \/ promote_resumes(Head(replies))

(* close ends the worker and rejects every call that waits for it.          *)
Outstanding == ToSet(inbox) \cup open \cup ToSet(replies)
close ==
  /\ closed' = TRUE
  /\ inbox' = << >> /\ open' = {} /\ replies' = << >>
  /\ tasks' = [t \in {u \in DOMAIN tasks : tasks[u].op = "create" /\ tasks[u].ready} |-> tasks[t]]
  /\ failed' = failed \cup {q.region : q \in {p \in Outstanding : p.op = "spill"}}
  /\ UNCHANGED <<directory, budget, memory, files, faults, version, calls>>

(* Callers stop using a Tvm they have closed.                              *)
call ==
  /\ ~closed
  /\ \/ \E r \in DOMAIN slots :
          \/ \E size \in Sizes : alloc(r, size)
          \/ write(r) \/ pin(r) \/ unpin(r) \/ demote(r) \/ evict(r) \/ promote(r)
     \/ \E b \in Budgets \cup {NoBudget} : setBudget(b)
     \/ evictColdest
     \/ \E w \in Wanted : createRegion(w.kind, w.capacity)
     \/ close

WebNext ==
  \/ call
  \/ \E t \in DOMAIN tasks : directory_createRegion(t)
  \/ handleFor
  \/ \E request \in open : dispatch(request) \/ dispatch_fails(request)
  \/ resume

WebSpec == WebInit /\ [][WebNext]_webVars

-----------------------------------------------------------------------------
(* Properties *)

Span(r) == slots[r].baseOffset..(slots[r].baseOffset + slots[r].capacity - 1)
FreeSpan(span) == span.offset..(span.offset + span.size - 1)

(* Whatever order regions are created, evicted, reloaded and refused in,    *)
(* the bytes below a pool's bump mark are shared out exactly: each belongs  *)
(* to one resident region or to one free span, and free spans are merged.   *)
SpansTile ==
  \A k \in Pools :
    LET here == {r \in Resident : slots[r].poolIndex = k}
        free == pools[k].free
    IN /\ UNION ({Span(r) : r \in here} \cup {FreeSpan(f) : f \in ToSet(free)})
            = 0..(pools[k].used - 1)
       /\ \A r, s \in here : r # s => Span(r) \cap Span(s) = {}
       /\ \A r \in here, f \in ToSet(free) : Span(r) \cap FreeSpan(f) = {}
       /\ \A i \in 1..(Len(free) - 1) : free[i].offset + free[i].size < free[i + 1].offset
       /\ \A f \in ToSet(free) : f.offset + f.size < pools[k].used

(* What callers wrote last is what they read next, from memory while the    *)
(* region is resident and from the store (or the spill on its way) while it *)
(* is Cold, unless a spill of the region failed, which its caller is told:  *)
(* evictions, reloads and the budget's own evictions overlap freely.        *)
Latest(r, bytes) ==
  /\ Len(bytes) >= version[r].length
  /\ \A i \in 1..version[r].length : bytes[i] = <<r, version[r].n>>
Spilling(r) == {q \in ToSet(inbox) \cup open : q.op = "spill" /\ q.region = r}
WebBytesSurvive ==
  \A r \in DOMAIN slots \ failed :
    IF r \in Resident
    THEN LET bytes == memory[slots[r].poolIndex]
         IN Latest(r, SubSeq(bytes, slots[r].baseOffset + 1, Len(bytes)))
    ELSE /\ \A q \in Spilling(r) : Latest(r, q.bytes)
         /\ Spilling(r) = {} => r \in DOMAIN files /\ Latest(r, files[r])

=============================================================================
