---------------------- MODULE ConcurrentDirectory_proofs ----------------------
(***************************************************************************)
(* Proofs about ConcurrentDirectory, for any number of threads, regions,   *)
(* calls and generations.                                                  *)
(*                                                                         *)
(* BytesSurvive is not inductive: a load of a Warm region would bring an   *)
(* old file back.  There is none: only Hot regions were ever loaded, and   *)
(* nothing makes them Warm again (WarmUnspilled).  CopyIsAtomic needs to   *)
(* know which mutexes a copy holds (Locked), NoDeadlock also that nothing  *)
(* else holds one between steps (Held).                                    *)
(*                                                                         *)
(* ReportExact and NoNeedlessSpill are about a demote_until no other       *)
(* thread meddles with: what it has listed is what is the case, current is *)
(* the bytes resident, and its Warm candidates come first (PlanInv).       *)
(***************************************************************************)
EXTENDS ConcurrentDirectory, TvmLemmas

Entry == [residency : {"Hot", "Warm", "Cold"}, pinned : BOOLEAN, pinnable : BOOLEAN,
          spillable : BOOLEAN, memory : Memory, generation : Gens, used : Nat]

CopyCall == [op : {"copy_lo", "copy_hi", "copy_read"}, r : Ids, dst : Ids]
CopyWrite == [op : {"copy_write"}, r : Ids, dst : Ids, buf : Contents]
CopyOps == {"copy_lo", "copy_hi", "copy_read", "copy_write"}

(* What a call in progress refers to: regions among the first n.           *)
CallOK(c, n) ==
  /\ c.op # "idle" => c.r \in 0..(n - 1)
  /\ c.op = "write" => c.c \in Contents
  /\ c.op \in {"copy_lo", "copy_hi", "copy_read"} => c \in CopyCall
  /\ c.op = "copy_write" => c \in CopyWrite
  /\ c.op \in CopyOps => c.dst \in 0..(n - 1) /\ c.r # c.dst

TypeInv ==
  /\ len \in 0..MaxRegions
  /\ present \subseteq 0..(len - 1)
  /\ entries \in [Ids -> Entry]
  /\ owner \in [Ids -> Threads \cup {Nobody}]
  /\ store \in [Ids \X Gens -> Memory]
  /\ DOMAIN call = Threads
  /\ \A t \in Threads : CallOK(call[t], len)
  /\ logical \in [Ids -> Contents]
  /\ failed \subseteq Ids

(* The bytes of region r are in its memory, or in its file once it is Cold. *)
Safe(r) ==
  r \notin failed =>
    \/ entries[r].residency # "Cold" /\ entries[r].memory = logical[r]
    \/ /\ entries[r].residency = "Cold"
       /\ entries[r].memory = NoMemory
       /\ store[<<r, entries[r].generation>>] = logical[r]

(* A Warm region was never spilled, so there is no file to load.           *)
WarmUnspilled(r) ==
  r \notin failed /\ entries[r].residency = "Warm" =>
    \A g \in Gens : store[<<r, g>>] = NoMemory

(* A slot not yet pushed has no history.                                   *)
Fresh(r) ==
  r >= len => logical[r] = Zero /\ \A g \in Gens : store[<<r, g>>] = NoMemory

IInv == TypeInv /\ \A r \in Ids : Safe(r) /\ WarmUnspilled(r) /\ Fresh(r)

(* A copy holds the mutex it took first, then both; what it has read is    *)
(* still there when it writes.                                             *)
Locked(t) ==
  LET c == call[t]
  IN /\ c.op = "copy_hi" => owner[LockOrder(c.r, c.dst)[1]] = t
     /\ c.op \in {"copy_read", "copy_write"} => owner[c.r] = t /\ owner[c.dst] = t
     /\ c.op = "copy_write" => c.buf = entries[c.r].memory

(* Only copies hold a mutex from one step to the next.                     *)
Held(r) ==
  owner[r] # Nobody =>
    LET c == call[owner[r]]
    IN \/ c.op = "copy_hi" /\ r = LockOrder(c.r, c.dst)[1]
       \/ c.op \in {"copy_read", "copy_write"} /\ r \in {c.r, c.dst}

Inv ==
  /\ IInv
  /\ \A t \in Threads : Locked(t)
  /\ \A r \in Ids : Held(r)

(* A thread that holds a mutex and waits for none.                         *)
Proceeds(t) ==
  LET c == call[t]
  IN \/ c.op \in {"copy_read", "copy_write"}
     \/ c.op = "copy_hi" /\ Unlocked(LockOrder(c.r, c.dst)[2])

(* While any mutex is held, some holder can go on: copies in opposite      *)
(* directions, or around a ring of regions, never wait for each other.     *)
NoDeadlock ==
  (\E r \in Ids : ~Unlocked(r)) =>
    \E t \in Threads : Proceeds(t) /\ \E r \in Ids : owner[r] = t

(* A step changes at most one call: that of t, which becomes c.            *)
LEMMA GotoOK ==
  ASSUME TypeInv, NEW t \in Threads, NEW c, call' = [call EXCEPT ![t] = c],
         len' = len \/ len' = len + 1, CallOK(c, len')
  PROVE  DOMAIN call' = Threads /\ \A u \in Threads : CallOK(call'[u], len')
<1>1. ASSUME NEW u \in Threads, u # t PROVE CallOK(call'[u], len')
  <2>1. call'[u] = call[u] /\ CallOK(call[u], len)
    BY <1>1 DEF TypeInv
  <2>2. len \in Int
    BY ConcurrentAssumption DEF TypeInv
  <2>3. 0..(len - 1) \subseteq 0..(len' - 1)
    BY <2>2
  <2> QED BY <2>1, <2>3 DEF CallOK
<1>2. call'[t] = c
  BY DEF TypeInv
<1> QED BY <1>1, <1>2 DEF TypeInv

(* A slot stays as it is when nothing about it changes.                    *)
LEMMA RegionFrame ==
  ASSUME NEW x \in Ids, Safe(x), WarmUnspilled(x), Fresh(x),
         entries'[x] = entries[x], logical'[x] = logical[x],
         \A g \in Gens : store'[<<x, g>>] = store[<<x, g>>],
         entries[x].generation \in Gens,
         x \in failed => x \in failed',
         x >= len' => x >= len
  PROVE  Safe(x)' /\ WarmUnspilled(x)' /\ Fresh(x)'
<1>1. Safe(x)'
  BY DEF Safe
<1>2. WarmUnspilled(x)'
  BY DEF WarmUnspilled
<1>3. Fresh(x)'
  BY DEF Fresh
<1> QED BY <1>1, <1>2, <1>3

(* The call of a thread that is in no copy changes neither what the copies *)
(* hold nor the bytes they have read.                                      *)
LEMMA LockFrame ==
  ASSUME Inv, NEW t \in Threads, NEW c, call' = [call EXCEPT ![t] = c],
         call[t].op \notin CopyOps, c.op \notin CopyOps \ {"copy_lo"},
         owner' = owner,
         \A x \in Ids : owner[x] # Nobody => entries'[x].memory = entries[x].memory
  PROVE  (\A u \in Threads : Locked(u)') /\ (\A x \in Ids : Held(x)')
<1> USE DEF CopyOps
<1>1. call'[t] = c /\ \A u \in Threads \ {t} : call'[u] = call[u]
  BY DEF Inv, IInv, TypeInv
<1>2. Locked(t)'
  BY <1>1 DEF Locked
<1>3. ASSUME NEW u \in Threads \ {t} PROVE Locked(u)'
  <2>1. Locked(u) /\ CallOK(call[u], len) /\ call'[u] = call[u]
    BY <1>1 DEF Inv, IInv, TypeInv
  <2>2. u # Nobody
    BY ConcurrentAssumption
  <2>3. call[u].op = "copy_write" => call[u].r \in Ids
    BY <2>1 DEF CallOK, CopyWrite
  <2> QED BY <2>1, <2>2, <2>3 DEF Locked
<1>4. ASSUME NEW x \in Ids PROVE Held(x)'
  <2>1. Held(x) /\ owner[x] \in Threads \cup {Nobody}
    BY DEF Inv, IInv, TypeInv
  <2>2. owner[x] # t
    <3>1. t # Nobody
      BY ConcurrentAssumption
    <3> QED BY <2>1, <3>1 DEF Held
  <2> QED BY <1>1, <2>1, <2>2 DEF Held
<1> QED BY <1>2, <1>3, <1>4

(* A body that runs under the mutex of r and replaces its entry.           *)
LEMMA BodyInv ==
  ASSUME Inv, NEW t \in Threads, NEW c, NEW r \in 0..(len - 1), NEW e \in Entry,
         call' = [call EXCEPT ![t] = c], CallOK(c, len),
         call[t].op \notin CopyOps, c.op \notin CopyOps,
         Unlocked(r), entries' = [entries EXCEPT ![r] = e],
         len' = len, present' = present, owner' = owner,
         store' \in [Ids \X Gens -> Memory],
         \A x \in Ids \ {r}, g \in Gens : store'[<<x, g>>] = store[<<x, g>>],
         logical' \in [Ids -> Contents],
         \A x \in Ids \ {r} : logical'[x] = logical[x],
         failed \subseteq failed', failed' \subseteq Ids,
         \A x \in Ids : x = r => Safe(x)' /\ WarmUnspilled(x)'
  PROVE  Inv'
<1>1. r \in Ids /\ len \in Nat
  BY ConcurrentAssumption DEF Inv, IInv, TypeInv, Ids
<1>2. TypeInv'
  <2>1. DOMAIN call' = Threads /\ \A u \in Threads : CallOK(call'[u], len')
    BY GotoOK DEF Inv, IInv
  <2>2. entries' \in [Ids -> Entry]
    BY <1>1 DEF Inv, IInv, TypeInv
  <2> QED BY <2>1, <2>2 DEF TypeInv, Inv, IInv
<1>3. ASSUME NEW x \in Ids PROVE Safe(x)' /\ WarmUnspilled(x)' /\ Fresh(x)'
  <2>1. CASE x = r
    <3>1. Fresh(x)'
      BY <2>1, <1>1 DEF Fresh
    <3> QED BY <2>1, <3>1
  <2>2. CASE x # r
    <3>1. entries'[x] = entries[x] /\ entries[x].generation \in Gens
      BY <2>2 DEF Inv, IInv, TypeInv, Entry
    <3> QED BY <2>2, <3>1, RegionFrame DEF Inv, IInv
  <2> QED BY <2>1, <2>2
<1>4. (\A u \in Threads : Locked(u)') /\ (\A x \in Ids : Held(x)')
  <2>1. ASSUME NEW x \in Ids, owner[x] # Nobody PROVE entries'[x].memory = entries[x].memory
    BY <2>1 DEF Unlocked, Inv, IInv, TypeInv
  <2> QED BY <2>1, LockFrame
<1> QED BY <1>2, <1>3, <1>4 DEF Inv, IInv

-----------------------------------------------------------------------------
(* The bodies that run under one mutex *)

(* The region a call is about exists, and so does its entry.               *)
LEMMA CalledEntry ==
  ASSUME Inv, NEW t \in Threads, call[t].op # "idle"
  PROVE  /\ CallOK(call[t], len)
         /\ call[t].r \in 0..(len - 1)
         /\ call[t].r \in Ids
         /\ entries[call[t].r] \in Entry
         /\ Safe(call[t].r)
         /\ WarmUnspilled(call[t].r)
<1>1. CallOK(call[t], len) /\ len \in 0..MaxRegions
  BY DEF Inv, IInv, TypeInv
<1>2. call[t].r \in 0..(len - 1)
  BY <1>1 DEF CallOK
<1>3. call[t].r \in Ids
  BY <1>1, <1>2, ConcurrentAssumption DEF Ids
<1> QED BY <1>1, <1>2, <1>3 DEF Inv, IInv, TypeInv

(* A body that changes neither bytes, generation nor tier of its region.   *)
LEMMA SameBytesInv ==
  ASSUME Inv, NEW t \in Threads, NEW r \in 0..(len - 1), NEW e \in Entry,
         call[t].op \notin CopyOps, call' = [call EXCEPT ![t] = Idle],
         Unlocked(r), entries' = [entries EXCEPT ![r] = e],
         e.memory = entries[r].memory, e.residency = entries[r].residency,
         e.generation = entries[r].generation,
         len' = len, present' = present, owner' = owner, store' = store,
         logical' = logical, failed' = failed
  PROVE  Inv'
<1>1. r \in Ids
  BY ConcurrentAssumption DEF Inv, IInv, TypeInv, Ids
<1>2. CallOK(Idle, len) /\ Idle.op \notin CopyOps
  BY DEF CallOK, Idle, CopyOps
<1>3. entries'[r] = e
  BY <1>1 DEF Inv, IInv, TypeInv
<1>4. Safe(r)' /\ WarmUnspilled(r)'
  BY <1>1, <1>3 DEF Inv, IInv, Safe, WarmUnspilled
<1>5. store' \in [Ids \X Gens -> Memory] /\ logical' \in [Ids -> Contents] /\ failed' \subseteq Ids
  BY DEF Inv, IInv, TypeInv
<1> HIDE DEF Idle
<1> QED BY <1>2, <1>4, <1>5, BodyInv

(* alloc adds to the used count of its region and may start an eviction.   *)
LEMMA AllocInv ==
  ASSUME Inv, NEW t \in Threads, alloc(t)
  PROVE  Inv'
<1>1. call[t].op = "alloc"
  BY DEF alloc, Update, Running
<1>2. PICK r \in 0..(len - 1) : r = call[t].r
  BY <1>1, CalledEntry
<1>3. entries[r] \in Entry
  BY <1>1, <1>2, CalledEntry
<1>4. PICK e \in Entry : e = IF entries[r].used = MaxUsed THEN entries[r]
                             ELSE [entries[r] EXCEPT !.used = @ + 1]
  <2>1. [entries[r] EXCEPT !.used = @ + 1] \in Entry
    BY <1>3 DEF Entry
  <2> QED BY <1>3, <2>1
<1>5. e.memory = entries[r].memory /\ e.residency = entries[r].residency
        /\ e.generation = entries[r].generation
  BY <1>3, <1>4 DEF Entry
<1>6. /\ Unlocked(r) /\ entries' = [entries EXCEPT ![r] = e]
      /\ len' = len /\ present' = present /\ owner' = owner /\ store' = store
      /\ logical' = logical /\ failed' = failed
      /\ call' = [call EXCEPT ![t] = Idle]
  BY <1>2, <1>4 DEF alloc, Update, Return, Goto, history
<1> QED BY <1>1, <1>5, <1>6, SameBytesInv DEF CopyOps

(* dealloc of a handle of the current generation takes from it.            *)
LEMMA DeallocInv ==
  ASSUME Inv, NEW t \in Threads, dealloc(t)
  PROVE  Inv'
<1>1. call[t].op = "dealloc"
  BY DEF dealloc, Update, Running
<1>2. PICK r \in 0..(len - 1) : r = call[t].r
  BY <1>1, CalledEntry
<1>3. entries[r] \in Entry
  BY <1>1, <1>2, CalledEntry
<1>4. PICK e \in Entry :
        e = IF entries[r].generation = call[t].g /\ entries[r].used > 0
            THEN [entries[r] EXCEPT !.used = @ - 1] ELSE entries[r]
  <2>1. entries[r].used > 0 => [entries[r] EXCEPT !.used = @ - 1] \in Entry
    BY <1>3 DEF Entry
  <2> QED BY <1>3, <2>1
<1>5. e.memory = entries[r].memory /\ e.residency = entries[r].residency
        /\ e.generation = entries[r].generation
  BY <1>3, <1>4 DEF Entry
<1>6. /\ Unlocked(r) /\ entries' = [entries EXCEPT ![r] = e]
      /\ len' = len /\ present' = present /\ owner' = owner /\ store' = store
      /\ logical' = logical /\ failed' = failed
      /\ call' = [call EXCEPT ![t] = Idle]
  BY <1>2, <1>4 DEF dealloc, Update, Return, Goto, history
<1> QED BY <1>1, <1>5, <1>6, SameBytesInv DEF CopyOps

(* pin and unpin change the flag alone.                                    *)
LEMMA PinInv ==
  ASSUME Inv, NEW t \in Threads, pin(t) \/ unpin(t)
  PROVE  Inv'
<1>1. call[t].op \in {"pin", "unpin"}
  BY DEF pin, unpin, Update, Running
<1>2. PICK r \in 0..(len - 1) : r = call[t].r
  BY <1>1, CalledEntry
<1>3. entries[r] \in Entry
  BY <1>1, <1>2, CalledEntry
<1>4. PICK e \in Entry :
        /\ \E b \in BOOLEAN : e = [entries[r] EXCEPT !.pinned = b]
        /\ entries' = [entries EXCEPT ![r] = e]
  <2>1. \A b \in BOOLEAN : [entries[r] EXCEPT !.pinned = b] \in Entry
    BY <1>3 DEF Entry
  <2>2. entries[r] = [entries[r] EXCEPT !.pinned = entries[r].pinned]
          /\ entries[r].pinned \in BOOLEAN
    BY <1>3 DEF Entry
  <2> QED BY <1>2, <2>1, <2>2 DEF pin, unpin, Update
<1>5. e.memory = entries[r].memory /\ e.residency = entries[r].residency
        /\ e.generation = entries[r].generation
  BY <1>3, <1>4 DEF Entry
<1>6. /\ Unlocked(r)
      /\ len' = len /\ present' = present /\ owner' = owner /\ store' = store
      /\ logical' = logical /\ failed' = failed
      /\ call' = [call EXCEPT ![t] = Idle]
  BY <1>2 DEF pin, unpin, Update, Return, Goto, history
<1> QED BY <1>1, <1>4, <1>5, <1>6, SameBytesInv DEF CopyOps

(* write replaces the bytes in memory and what callers may read at once.   *)
LEMMA WriteInv ==
  ASSUME Inv, NEW t \in Threads, write(t)
  PROVE  Inv'
<1>1. call[t].op = "write"
  BY DEF write, Update, Running
<1>2. PICK r \in 0..(len - 1) : r = call[t].r
  BY <1>1, CalledEntry
<1>3. PICK b \in Contents : b = call[t].c
  BY <1>1, CalledEntry DEF CallOK
<1>4. entries[r] \in Entry /\ r \in Ids /\ Safe(r) /\ WarmUnspilled(r)
  BY <1>1, <1>2, CalledEntry
<1> DEFINE lands == entries[r].generation = call[t].g /\ entries[r].memory \in Contents
<1>5. /\ Unlocked(r)
      /\ entries' = [entries EXCEPT ![r] = IF lands THEN [entries[r] EXCEPT !.memory = b]
                                           ELSE entries[r]]
      /\ logical' = IF lands THEN [logical EXCEPT ![r] = b] ELSE logical
      /\ len' = len /\ present' = present /\ owner' = owner /\ store' = store
      /\ failed' = failed
      /\ call' = [call EXCEPT ![t] = Idle]
  BY <1>2, <1>3 DEF write, Update, Return, Goto
<1>6. CASE ~lands
  BY <1>1, <1>4, <1>5, <1>6, SameBytesInv DEF CopyOps
<1>7. CASE lands
  <2>1. PICK e \in Entry : e = [entries[r] EXCEPT !.memory = b]
    BY <1>3, <1>4 DEF Entry, Memory, Bytes
  <2>2. entries' = [entries EXCEPT ![r] = e] /\ logical' = [logical EXCEPT ![r] = b]
    BY <1>5, <1>7, <2>1
  <2>3. entries'[r] = e /\ logical'[r] = b
    BY <1>4, <2>2 DEF Inv, IInv, TypeInv
  <2>4. e.memory = b /\ e.residency = entries[r].residency
    BY <1>4, <2>1 DEF Entry
  <2>5. entries[r].memory # NoMemory
    BY <1>7, ConcurrentAssumption DEF Bytes
  <2>6. Safe(r)' /\ WarmUnspilled(r)'
    BY <1>4, <1>5, <2>3, <2>4, <2>5 DEF Safe, WarmUnspilled
  <2>7. /\ logical' \in [Ids -> Contents] /\ \A x \in Ids \ {r} : logical'[x] = logical[x]
        /\ store' \in [Ids \X Gens -> Memory] /\ failed' \subseteq Ids
    BY <1>4, <1>5, <2>2 DEF Inv, IInv, TypeInv
  <2>8. CallOK(Idle, len) /\ Idle.op \notin CopyOps /\ call[t].op \notin CopyOps
    BY <1>1 DEF CallOK, Idle, CopyOps
  <2> HIDE DEF lands
  <2> QED BY <1>5, <2>2, <2>6, <2>7, <2>8, BodyInv
<1> QED BY <1>6, <1>7

(* compact_region moves resident bytes to the next generation.             *)
LEMMA CompactInv ==
  ASSUME Inv, NEW t \in Threads, compact_region(t)
  PROVE  Inv'
<1>1. call[t].op = "compact"
  BY DEF compact_region, Update, Running
<1>2. PICK r \in 0..(len - 1) : r = call[t].r
  BY <1>1, CalledEntry
<1>3. entries[r] \in Entry /\ r \in Ids /\ Safe(r) /\ WarmUnspilled(r)
  BY <1>1, <1>2, CalledEntry
<1> DEFINE moves == /\ ~entries[r].pinned /\ entries[r].memory \in Contents
                    /\ entries[r].generation < MaxGen
<1>4. /\ Unlocked(r)
      /\ entries' = [entries EXCEPT ![r] =
                       IF moves THEN [entries[r] EXCEPT !.generation = @ + 1] ELSE entries[r]]
      /\ len' = len /\ present' = present /\ owner' = owner /\ store' = store
      /\ logical' = logical /\ failed' = failed
      /\ call' = [call EXCEPT ![t] = Idle]
  BY <1>2 DEF compact_region, Update, Return, Goto, history
<1>5. CASE ~moves
  BY <1>1, <1>3, <1>4, <1>5, SameBytesInv DEF CopyOps
<1>6. CASE moves
  <2>1. [entries[r] EXCEPT !.generation = @ + 1] \in Entry
    BY <1>3, <1>6, ConcurrentAssumption DEF Entry, Gens
  <2>2. PICK e \in Entry : e = [entries[r] EXCEPT !.generation = @ + 1]
    BY <2>1
  <2>3. entries' = [entries EXCEPT ![r] = e]
    BY <1>4, <1>6, <2>2
  <2>4. entries'[r] = e
    BY <1>3, <2>3 DEF Inv, IInv, TypeInv
  <2>5. e.memory = entries[r].memory /\ e.residency = entries[r].residency
    BY <1>3, <2>2 DEF Entry
  <2>6. entries[r].memory # NoMemory
    BY <1>6, ConcurrentAssumption DEF Bytes
  <2>7. Safe(r)' /\ WarmUnspilled(r)'
    BY <1>3, <1>4, <2>4, <2>5, <2>6 DEF Safe, WarmUnspilled
  <2>8. /\ logical' \in [Ids -> Contents]
        /\ store' \in [Ids \X Gens -> Memory] /\ failed' \subseteq Ids
    BY <1>4 DEF Inv, IInv, TypeInv
  <2>9. CallOK(Idle, len) /\ Idle.op \notin CopyOps /\ call[t].op \notin CopyOps
    BY <1>1 DEF CallOK, Idle, CopyOps
  <2> HIDE DEF moves
  <2> QED BY <1>4, <2>3, <2>7, <2>8, <2>9, BodyInv
<1> QED BY <1>5, <1>6

(* load_region brings the file of a Cold region back; a region that is not *)
(* Cold either has its bytes in memory, Hot, or no file to load.           *)
LEMMA LoadInv ==
  ASSUME Inv, NEW t \in Threads, load_region(t)
  PROVE  Inv'
<1>1. call[t].op = "load"
  BY DEF load_region, Update, Running
<1>2. PICK r \in 0..(len - 1) : r = call[t].r
  BY <1>1, CalledEntry
<1>3. entries[r] \in Entry /\ r \in Ids /\ Safe(r) /\ WarmUnspilled(r)
  BY <1>1, <1>2, CalledEntry
<1>4. PICK file \in Memory : file = store[<<r, entries[r].generation>>]
  BY <1>3 DEF Inv, IInv, TypeInv, Entry
<1> DEFINE loads == /\ ~(entries[r].residency = "Hot" /\ entries[r].memory # NoMemory)
                    /\ file # NoMemory
<1>5. /\ Unlocked(r)
      /\ entries' = [entries EXCEPT ![r] =
                       IF loads THEN [entries[r] EXCEPT !.memory = file, !.residency = "Hot"]
                       ELSE entries[r]]
      /\ len' = len /\ present' = present /\ owner' = owner /\ store' = store
      /\ logical' = logical /\ failed' = failed
      /\ call' = [call EXCEPT ![t] = Idle]
  BY <1>2, <1>4 DEF load_region, Update, Return, Goto, history
<1>6. CASE ~loads
  BY <1>1, <1>3, <1>5, <1>6, SameBytesInv DEF CopyOps
<1>7. CASE loads
  <2>1. PICK e \in Entry : e = [entries[r] EXCEPT !.memory = file, !.residency = "Hot"]
    BY <1>3, <1>4 DEF Entry
  <2>2. entries' = [entries EXCEPT ![r] = e]
    BY <1>5, <1>7, <2>1
  <2>3. entries'[r] = e
    BY <1>3, <2>2 DEF Inv, IInv, TypeInv
  <2>4. e.memory = file /\ e.residency = "Hot"
    BY <1>3, <2>1 DEF Entry
  <2>5. logical[r] # NoMemory /\ entries[r].residency \in {"Hot", "Warm", "Cold"}
          /\ entries[r].generation \in Gens
    BY <1>3, ConcurrentAssumption DEF Inv, IInv, TypeInv, Bytes, Entry
  <2>6. r \notin failed => entries[r].residency = "Cold"
    BY <1>3, <1>4, <1>7, <2>5 DEF Safe, WarmUnspilled
  <2>7. Safe(r)' /\ WarmUnspilled(r)'
    BY <1>3, <1>4, <1>5, <2>3, <2>4, <2>6 DEF Safe, WarmUnspilled
  <2>8. /\ logical' \in [Ids -> Contents]
        /\ store' \in [Ids \X Gens -> Memory] /\ failed' \subseteq Ids
    BY <1>5 DEF Inv, IInv, TypeInv
  <2>9. CallOK(Idle, len) /\ Idle.op \notin CopyOps /\ call[t].op \notin CopyOps
    BY <1>1 DEF CallOK, Idle, CopyOps
  <2> HIDE DEF loads
  <2> QED BY <1>5, <2>2, <2>7, <2>8, <2>9, BodyInv
<1> QED BY <1>6, <1>7

(* spill_region: the file gets the bytes before memory loses them, or the  *)
(* region is among those a spill of which failed.                          *)
LEMMA SpillInv ==
  ASSUME Inv, NEW t \in Threads, spill_region(t)
  PROVE  Inv'
<1>1. call[t].op = "spill" /\ call[t].op \notin CopyOps
  BY DEF spill_region, Running, CopyOps
<1>2. PICK r \in 0..(len - 1) : r = call[t].r
  BY <1>1, CalledEntry
<1>3. entries[r] \in Entry /\ r \in Ids /\ Safe(r) /\ WarmUnspilled(r)
  BY <1>1, <1>2, CalledEntry
<1>4. PICK g \in Gens : g = entries[r].generation
  BY <1>3 DEF Entry
<1>5. Unlocked(r) /\ len' = len /\ present' = present /\ owner' = owner
  BY <1>2 DEF spill_region, Update
<1>6. entries \in [Ids -> Entry] /\ store \in [Ids \X Gens -> Memory] /\ <<r, g>> \in Ids \X Gens
        /\ logical \in [Ids -> Contents] /\ failed \subseteq Ids
  BY <1>3, <1>4 DEF Inv, IInv, TypeInv
<1>7. ASSUME CanSpill(entries[r]),
             entries' = [entries EXCEPT ![r] =
                           [entries[r] EXCEPT !.memory = NoMemory, !.residency = "Cold"]],
             store' = [store EXCEPT ![<<r, g>>] = entries[r].memory],
             call' = [call EXCEPT ![t] = [op |-> "lru_remove", r |-> r]],
             logical' = logical, failed' = failed
      PROVE  Inv'
  <2>1. PICK e \in Entry : e = [entries[r] EXCEPT !.memory = NoMemory, !.residency = "Cold"]
    BY <1>3 DEF Entry, Memory
  <2>2. entries' = [entries EXCEPT ![r] = e]
    BY <1>7, <2>1
  <2>3. e.memory = NoMemory /\ e.residency = "Cold" /\ e.generation = g
    BY <1>3, <1>4, <2>1 DEF Entry
  <2>4. entries'[r] = e
    BY <1>3, <1>6, <2>2
  <2>5. store'[<<r, g>>] = entries[r].memory /\ entries[r].residency # "Cold"
    BY <1>6, <1>7 DEF CanSpill
  <2>6. Safe(r)'
    BY <1>3, <1>7, <2>3, <2>4, <2>5 DEF Safe
  <2>7. WarmUnspilled(r)'
    BY <2>3, <2>4 DEF WarmUnspilled
  <2>8. /\ store' \in [Ids \X Gens -> Memory]
        /\ \A x \in Ids \ {r}, h \in Gens : store'[<<x, h>>] = store[<<x, h>>]
    BY <1>3, <1>6, <1>7 DEF Entry
  <2>9. PICK c : c = [op |-> "lru_remove", r |-> r]
    OBVIOUS
  <2>10. CallOK(c, len) /\ c.op \notin CopyOps /\ call' = [call EXCEPT ![t] = c]
    BY <1>7, <2>9 DEF CallOK, CopyOps
  <2>11. /\ logical' \in [Ids -> Contents] /\ \A x \in Ids \ {r} : logical'[x] = logical[x]
         /\ failed \subseteq failed' /\ failed' \subseteq Ids
    BY <1>6, <1>7
  <2> QED BY <1>1, <1>5, <2>2, <2>6, <2>7, <2>8, <2>10, <2>11, BodyInv
<1>8. ASSUME NEW leftover \in {store[<<r, g>>], Torn},
             entries' = [entries EXCEPT ![r] = [entries[r] EXCEPT !.memory = NoMemory]],
             store' = [store EXCEPT ![<<r, g>>] = leftover],
             failed' = failed \cup {r},
             call' = [call EXCEPT ![t] = Idle],
             logical' = logical
      PROVE  Inv'
  <2>1. PICK e \in Entry : e = [entries[r] EXCEPT !.memory = NoMemory]
    BY <1>3 DEF Entry, Memory
  <2>2. entries' = [entries EXCEPT ![r] = e]
    BY <1>8, <2>1
  <2>3. Safe(r)' /\ WarmUnspilled(r)'
    BY <1>8 DEF Safe, WarmUnspilled
  <2>4. leftover \in Memory
    BY <1>6, <1>8 DEF Memory, Bytes
  <2>5. /\ store' \in [Ids \X Gens -> Memory]
        /\ \A x \in Ids \ {r}, h \in Gens : store'[<<x, h>>] = store[<<x, h>>]
    BY <1>3, <1>6, <1>8, <2>4
  <2>6. CallOK(Idle, len) /\ Idle.op \notin CopyOps
    BY DEF CallOK, Idle, CopyOps
  <2>7. /\ logical' \in [Ids -> Contents] /\ \A x \in Ids \ {r} : logical'[x] = logical[x]
        /\ failed \subseteq failed' /\ failed' \subseteq Ids
    BY <1>3, <1>6, <1>8
  <2>8. call' = [call EXCEPT ![t] = Idle]
    BY <1>8
  <2> QED BY <1>1, <1>5, <2>2, <2>3, <2>5, <2>6, <2>7, <2>8, BodyInv
<1>9. ASSUME entries' = [entries EXCEPT ![r] = entries[r]], store' = store,
             call' = [call EXCEPT ![t] = Idle], logical' = logical, failed' = failed
      PROVE  Inv'
  BY <1>1, <1>3, <1>5, <1>9, SameBytesInv
<1> QED
  BY <1>2, <1>4, <1>7, <1>8, <1>9 DEF spill_region, Update, Return, Goto, history

-----------------------------------------------------------------------------
(* Steps that leave the entries and their files alone *)

(* Such a step keeps Inv when its thread is in no copy, before or after.   *)
LEMMA QuietInv ==
  ASSUME Inv, NEW t \in Threads, NEW c,
         call' = [call EXCEPT ![t] = c], CallOK(c, len),
         call[t].op \notin CopyOps, c.op \notin CopyOps \ {"copy_lo"},
         len' = len, present' \subseteq present,
         UNCHANGED <<entries, owner, store, history>>
  PROVE  Inv'
<1>1. UNCHANGED <<logical, failed>>
  BY DEF history
<1>2. TypeInv'
  <2>1. DOMAIN call' = Threads /\ \A u \in Threads : CallOK(call'[u], len')
    BY GotoOK DEF Inv, IInv
  <2> QED BY <1>1, <2>1 DEF Inv, IInv, TypeInv
<1>3. \A x \in Ids : Safe(x)' /\ WarmUnspilled(x)' /\ Fresh(x)'
  BY <1>1 DEF Inv, IInv, Safe, WarmUnspilled, Fresh
<1>4. (\A u \in Threads : Locked(u)') /\ (\A x \in Ids : Held(x)')
  BY LockFrame
<1> QED BY <1>2, <1>3, <1>4 DEF Inv, IInv

(* Nor does it when the thread stays where it is, in a copy or not.        *)
LEMMA StillInv ==
  ASSUME Inv, call' = call, len' = len, present' = present,
         UNCHANGED <<entries, owner, store, history>>
  PROVE  Inv'
BY DEF Inv, IInv, TypeInv, Safe, WarmUnspilled, Fresh, Locked, Held, history

(* The LRU list is updated after the mutex is released.                    *)
LEMMA LruInv ==
  ASSUME Inv, NEW t \in Threads, lru_push_front(t) \/ lru_remove(t)
  PROVE  Inv'
<1>1. call[t].op \notin CopyOps
  BY DEF lru_push_front, lru_remove, Running, CopyOps
<1>2. CallOK(Idle, len) /\ Idle.op \notin CopyOps
  BY DEF CallOK, Idle, CopyOps
<1>3. /\ call' = [call EXCEPT ![t] = Idle] /\ len' = len /\ present' \subseteq present
      /\ UNCHANGED <<entries, owner, store, history>>
  BY DEF lru_push_front, lru_remove, Return, Goto
<1> QED BY <1>1, <1>2, <1>3, QuietInv

(* A thread between two calls is in no copy.                               *)
LEMMA WaitingOps ==
  ASSUME NEW t \in Threads, call[t] = Idle
  PROVE  call[t].op \notin CopyOps
BY DEF Idle, CopyOps

(* entry_arc finds the slot occupied.                                      *)
LEMMA EntryArcInv ==
  ASSUME Inv, NEW t \in Threads, NEW c, call[t] = Idle, entry_arc(t, c),
         c.r \in 0..(len - 1) => CallOK(c, len),
         c.op \notin CopyOps \ {"copy_lo"}
  PROVE  Inv'
<1>1. c.r \in 0..(len - 1)
  BY DEF entry_arc, Inv, IInv, TypeInv
<1>2. /\ call' = [call EXCEPT ![t] = c] /\ len' = len /\ present' \subseteq present
      /\ UNCHANGED <<entries, owner, store, history>>
  BY DEF entry_arc, Goto, shared
<1>3. call[t].op \notin CopyOps
  BY WaitingOps
<1> QED BY <1>1, <1>2, <1>3, QuietInv

(* Every call that starts with entry_arc, and destroy_region.              *)
LEMMA InvokeInv ==
  ASSUME Inv, NEW t \in Threads, Invoke(t)
  PROVE  Inv'
<1>1. call[t] = Idle
  BY DEF Invoke, Begin, Waiting, copy_begin, destroy_region
<1>2. ASSUME NEW c, entry_arc(t, c), c.op \notin CopyOps \cup {"write"} PROVE Inv'
  <2>1. c.r \in 0..(len - 1) => CallOK(c, len)
    BY <1>2 DEF CallOK, CopyOps
  <2> QED BY <1>1, <1>2, <2>1, EntryArcInv
<1>3. ASSUME NEW r \in Ids, NEW g, NEW b \in Contents,
             entry_arc(t, [op |-> "write", r |-> r, g |-> g, c |-> b])
      PROVE  Inv'
  <2>1. PICK c : c = [op |-> "write", r |-> r, g |-> g, c |-> b]
    OBVIOUS
  <2>2. c.op = "write" /\ c.c = b
    BY <2>1
  <2>3. c.r \in 0..(len - 1) => CallOK(c, len)
    BY <2>2 DEF CallOK, CopyOps
  <2> QED BY <1>1, <1>3, <2>1, <2>2, <2>3, EntryArcInv DEF CopyOps
<1>4. ASSUME NEW r \in Ids, NEW dst \in Ids, copy_begin(t, r, dst) PROVE Inv'
  <2>1. PICK c : c = [op |-> "copy_lo", r |-> r, dst |-> dst]
    OBVIOUS
  <2>2. c.op = "copy_lo" /\ c.r = r /\ c.dst = dst /\ c \in CopyCall
    BY <2>1 DEF CopyCall
  <2>3. r # dst /\ dst \in 0..(len - 1) /\ entry_arc(t, c)
    BY <1>4, <2>1 DEF copy_begin, Inv, IInv, TypeInv
  <2>4. c.r \in 0..(len - 1) => CallOK(c, len)
    BY <2>2, <2>3 DEF CallOK, CopyOps
  <2> QED BY <1>1, <2>2, <2>3, <2>4, EntryArcInv DEF CopyOps
<1>5. ASSUME NEW r \in Ids, destroy_region(t, r) PROVE Inv'
  <2>1. PICK c : c = [op |-> "lru_remove", r |-> r]
    OBVIOUS
  <2>2. CallOK(c, len) /\ c.op \notin CopyOps
    BY <1>5, <2>1 DEF destroy_region, Inv, IInv, TypeInv, CallOK, CopyOps
  <2>3. /\ call' = [call EXCEPT ![t] = c] /\ len' = len /\ present' \subseteq present
        /\ UNCHANGED <<entries, owner, store, history>>
    BY <1>5, <2>1 DEF destroy_region, Goto
  <2>4. call[t].op \notin CopyOps
    BY <1>1, WaitingOps
  <2> QED BY <2>2, <2>3, <2>4, QuietInv
<1>6. ASSUME NEW r \in Ids, NEW op \in {"pin", "unpin", "load", "compact"},
             entry_arc(t, [op |-> op, r |-> r])
      PROVE  Inv'
  BY <1>2, <1>6 DEF CopyOps
<1>7. ASSUME NEW r \in Ids, entry_arc(t, [op |-> "spill", r |-> r, used |-> 0]) PROVE Inv'
  BY <1>2, <1>7 DEF CopyOps
<1>8. ASSUME NEW r \in Ids, NEW target, entry_arc(t, [op |-> "alloc", r |-> r, target |-> target])
      PROVE  Inv'
  BY <1>2, <1>8 DEF CopyOps
<1>9. ASSUME NEW r \in Ids, NEW g, entry_arc(t, [op |-> "dealloc", r |-> r, g |-> g]) PROVE Inv'
  BY <1>2, <1>9 DEF CopyOps
<1> QED BY <1>3, <1>4, <1>5, <1>6, <1>7, <1>8, <1>9 DEF Invoke

(* demote_until: its frame changes, and it calls spill_region or alloc for *)
(* a region that is still present.                                         *)
LEMMA DemoteInv ==
  ASSUME Inv, NEW t \in Threads,
         \/ list_regions(t) \/ demote_until_plan(t)
         \/ demote_until_next(t) \/ demote_until_return(t)
         \/ \E target \in Targets : demote_until_begin(t, target)
  PROVE  Inv'
<1>1. CASE \/ list_regions(t) \/ demote_until_plan(t)
           \/ \E target \in Targets : demote_until_begin(t, target)
  BY <1>1, StillInv DEF list_regions, demote_until_plan, demote_until_begin, shared
<1>2. ASSUME call[t] = Idle, UNCHANGED <<shared, history>>,
             NEW c, c.r \in present, c.op \in {"spill", "alloc"},
             call' = IF c.r \in present THEN [call EXCEPT ![t] = c] ELSE call
      PROVE  Inv'
  <2>1. CallOK(c, len) /\ c.op \notin CopyOps
    BY <1>2 DEF Inv, IInv, TypeInv, CallOK, CopyOps
  <2>2. call[t].op \notin CopyOps
    BY <1>2, WaitingOps
  <2>3. /\ call' = [call EXCEPT ![t] = c] /\ len' = len /\ present' \subseteq present
        /\ UNCHANGED <<entries, owner, store, history>>
    BY <1>2 DEF shared
  <2> QED BY <2>1, <2>2, <2>3, QuietInv
<1>3. ASSUME demote_until_next(t) PROVE Inv'
  <2> DEFINE m == frame[t].todo[1]
  <2>1. PICK c : c = [op |-> "spill", r |-> m.id, used |-> m.used]
    OBVIOUS
  <2>2. c.r = m.id /\ c.op = "spill"
    BY <2>1
  <2>3. /\ call[t] = Idle /\ UNCHANGED <<shared, history>>
        /\ call' = IF c.r \in present THEN [call EXCEPT ![t] = c] ELSE call
    BY <1>3, <2>1, <2>2 DEF demote_until_next
  <2>4. CASE c.r \in present
    BY <1>2, <2>2, <2>3, <2>4
  <2>5. CASE c.r \notin present
    BY <2>3, <2>5, StillInv DEF shared
  <2> QED BY <2>4, <2>5
<1>4. ASSUME demote_until_return(t) PROVE Inv'
  <2>1. PICK c : c = [op |-> "alloc", r |-> frame[t].retry, target |-> -1]
    OBVIOUS
  <2>2. c.r = frame[t].retry /\ c.op = "alloc"
    BY <2>1
  <2>3. /\ call[t] = Idle /\ UNCHANGED <<shared, history>>
        /\ call' = IF c.r \in present THEN [call EXCEPT ![t] = c] ELSE call
    BY <1>4, <2>1, <2>2 DEF demote_until_return
  <2>4. CASE c.r \in present
    BY <1>2, <2>2, <2>3, <2>4
  <2>5. CASE c.r \notin present
    BY <2>3, <2>5, StillInv DEF shared
  <2> QED BY <2>4, <2>5
<1> QED BY <1>1, <1>3, <1>4

-----------------------------------------------------------------------------
(* create_region *)

(* Nobody holds the mutex of a slot not yet pushed.                        *)
LEMMA UnpushedUnlocked ==
  ASSUME Inv, NEW x \in Ids, x >= len
  PROVE  owner[x] = Nobody
<1> SUFFICES ASSUME owner[x] # Nobody PROVE FALSE
  OBVIOUS
<1>1. owner[x] \in Threads /\ Held(x)
  BY DEF Inv, IInv, TypeInv
<1>2. CallOK(call[owner[x]], len) /\ len \in Int
  BY <1>1, ConcurrentAssumption DEF Inv, IInv, TypeInv
<1>3. x \in {call[owner[x]].r, call[owner[x]].dst} /\ call[owner[x]].op \in CopyOps
  BY <1>1 DEF Held, LockOrder, CopyOps
<1>4. x \in 0..(len - 1)
  BY <1>2, <1>3 DEF CallOK, CopyOps
<1> QED BY <1>2, <1>4 DEF Ids

(* The entry of a region just created.                                     *)
LEMMA NewEntryType ==
  ASSUME NEW p \in Policies, NEW used \in Nat
  PROVE  /\ NewEntry(p, used) \in Entry
         /\ NewEntry(p, used).memory = Zero
         /\ NewEntry(p, used).residency \in {"Hot", "Warm"}
<1>1. p \in Policy /\ Zero \in Memory /\ 1 \in Gens
  BY ConcurrentAssumption DEF Memory, Bytes, Gens
<1> QED BY <1>1 DEF NewEntry, Policy, Entry

(* The slot pushed gets zeroed memory, and no file has its id.             *)
LEMMA CreateInv ==
  ASSUME Inv, NEW t \in Threads, NEW p \in Policies, create_region(t, p)
  PROVE  Inv'
<1>1. len \in Ids /\ len \in Nat
  BY ConcurrentAssumption DEF create_region, Inv, IInv, TypeInv, Ids
<1>2. PICK e \in Entry : e = NewEntry(p, 0)
  BY NewEntryType
<1>3. e.memory = Zero /\ e.residency \in {"Hot", "Warm"}
  BY <1>2, NewEntryType
<1>4. /\ entries' = [entries EXCEPT ![len] = e] /\ len' = len + 1
      /\ present' = present \cup {len}
      /\ UNCHANGED <<owner, store, logical, failed>>
      /\ call[t] = Idle
  BY <1>2 DEF create_region, history, Begin, Waiting
<1>5. PICK c : /\ c.op \in {"idle", "lru_push"}
               /\ c.op = "lru_push" => c.r = len
               /\ call' = [call EXCEPT ![t] = c]
  <2>1. [op |-> "lru_push", r |-> len].r = len /\ Idle.op = "idle"
    BY DEF Idle
  <2> QED BY <2>1 DEF create_region, Return, Goto
<1>6. CallOK(c, len') /\ c.op \notin CopyOps /\ call[t].op \notin CopyOps
  <2>1. len \in 0..((len + 1) - 1)
    BY <1>1
  <2>2. c.op # "idle" => c.r \in 0..(len' - 1)
    BY <1>4, <1>5, <2>1
  <2>3. CallOK(c, len') /\ c.op \notin CopyOps
    BY <1>5, <2>2 DEF CallOK, CopyOps
  <2> QED BY <1>4, <2>3, WaitingOps
<1>7. TypeInv'
  <2>1. DOMAIN call' = Threads /\ \A u \in Threads : CallOK(call'[u], len')
    BY <1>4, <1>5, <1>6, GotoOK DEF Inv, IInv
  <2>2. len' \in 0..MaxRegions /\ present' \subseteq 0..(len' - 1)
    BY <1>1, <1>4, ConcurrentAssumption DEF Inv, IInv, TypeInv, Ids
  <2>3. entries' \in [Ids -> Entry]
    BY <1>1, <1>4 DEF Inv, IInv, TypeInv
  <2> QED BY <1>4, <2>1, <2>2, <2>3 DEF TypeInv, Inv, IInv
<1>8. ASSUME NEW x \in Ids PROVE Safe(x)' /\ WarmUnspilled(x)' /\ Fresh(x)'
  <2>1. CASE x = len
    <3>1. entries'[x] = e
      BY <1>1, <1>4, <2>1 DEF Inv, IInv, TypeInv
    <3>2. logical[x] = Zero /\ \A g \in Gens : store[<<x, g>>] = NoMemory
      BY <1>1, <2>1 DEF Inv, IInv, Fresh
    <3>3. Safe(x)' /\ WarmUnspilled(x)'
      BY <1>3, <1>4, <3>1, <3>2 DEF Safe, WarmUnspilled
    <3>4. Fresh(x)'
      BY <1>4, <3>2 DEF Fresh
    <3> QED BY <3>3, <3>4
  <2>2. CASE x # len
    <3>1. entries'[x] = entries[x] /\ entries[x].generation \in Gens
      BY <1>4, <2>2 DEF Inv, IInv, TypeInv, Entry
    <3>2. x >= len' => x >= len
      BY <1>1, <1>4 DEF Ids
    <3> QED BY <1>4, <3>1, <3>2, RegionFrame DEF Inv, IInv
  <2> QED BY <2>1, <2>2
<1>9. (\A u \in Threads : Locked(u)') /\ (\A x \in Ids : Held(x)')
  <2>1. ASSUME NEW x \in Ids, owner[x] # Nobody PROVE entries'[x].memory = entries[x].memory
    <3>1. x # len
      BY <1>1, <2>1, UnpushedUnlocked
    <3> QED BY <1>4, <3>1 DEF Inv, IInv, TypeInv
  <2> QED BY <1>4, <1>5, <1>6, <2>1, LockFrame
<1> QED BY <1>7, <1>8, <1>9 DEF Inv, IInv

-----------------------------------------------------------------------------
(* cross_region_copy *)

(* A step of the copy of t: the other copies keep what they hold.          *)
LEMMA CopyFrame ==
  ASSUME Inv, NEW t \in Threads, NEW c, call' = [call EXCEPT ![t] = c],
         \A x \in Ids : owner[x] \notin {t, Nobody} =>
           owner'[x] = owner[x] /\ entries'[x].memory = entries[x].memory,
         \A x \in Ids : owner'[x] # owner[x] => owner'[x] \in {t, Nobody},
         Locked(t)', \A x \in Ids : owner'[x] = t => Held(x)'
  PROVE  (\A u \in Threads : Locked(u)') /\ (\A x \in Ids : Held(x)')
<1>1. \A u \in Threads \ {t} : call'[u] = call[u]
  BY DEF Inv, IInv, TypeInv
<1>2. ASSUME NEW u \in Threads \ {t} PROVE Locked(u)'
  <2>1. Locked(u) /\ CallOK(call[u], len) /\ call'[u] = call[u] /\ u \notin {t, Nobody}
    BY <1>1, ConcurrentAssumption DEF Inv, IInv, TypeInv
  <2>2. call[u].op \in CopyOps => call[u].r \in Ids /\ call[u].dst \in Ids
    BY <2>1 DEF CallOK, CopyOps, CopyCall, CopyWrite
  <2>3. call[u].op \in CopyOps => LockOrder(call[u].r, call[u].dst)[1] \in Ids
    BY <2>2 DEF LockOrder
  <2> QED BY <2>1, <2>2, <2>3 DEF Locked, CopyOps
<1>3. ASSUME NEW x \in Ids PROVE Held(x)'
  <2>1. CASE owner'[x] \in {t, Nobody}
    BY <2>1 DEF Held
  <2>2. CASE owner'[x] \notin {t, Nobody}
    <3>1. owner'[x] = owner[x] /\ owner[x] \in Threads \ {t} /\ Held(x)
      BY <2>2 DEF Inv, IInv, TypeInv
    <3> QED BY <1>1, <2>2, <3>1 DEF Held
  <2> QED BY <2>1, <2>2
<1> QED BY <1>2, <1>3

(* The mutex with the lower id first, then the other.                      *)
LEMMA LockOrderPair ==
  ASSUME NEW src \in Ids, NEW dst \in Ids, src # dst
  PROVE  /\ LockOrder(src, dst)[1] \in Ids /\ LockOrder(src, dst)[2] \in Ids
         /\ LockOrder(src, dst)[1] < LockOrder(src, dst)[2]
         /\ {LockOrder(src, dst)[1], LockOrder(src, dst)[2]} = {src, dst}
BY DEF LockOrder, Ids

(* A step of a copy that leaves bytes and files alone.                     *)
LEMMA CopyQuietInv ==
  ASSUME Inv, NEW t \in Threads, NEW c, call' = [call EXCEPT ![t] = c], CallOK(c, len),
         UNCHANGED <<len, present, entries, store, history>>,
         owner' \in [Ids -> Threads \cup {Nobody}],
         \A x \in Ids : owner[x] \notin {t, Nobody} => owner'[x] = owner[x],
         \A x \in Ids : owner'[x] # owner[x] => owner'[x] \in {t, Nobody},
         Locked(t)', \A x \in Ids : owner'[x] = t => Held(x)'
  PROVE  Inv'
<1>1. UNCHANGED <<logical, failed>>
  BY DEF history
<1>2. TypeInv'
  <2>1. DOMAIN call' = Threads /\ \A u \in Threads : CallOK(call'[u], len')
    BY GotoOK DEF Inv, IInv
  <2> QED BY <1>1, <2>1 DEF Inv, IInv, TypeInv
<1>3. \A x \in Ids : Safe(x)' /\ WarmUnspilled(x)' /\ Fresh(x)'
  BY <1>1 DEF Inv, IInv, Safe, WarmUnspilled, Fresh
<1>4. (\A u \in Threads : Locked(u)') /\ (\A x \in Ids : Held(x)')
  BY CopyFrame
<1> QED BY <1>2, <1>3, <1>4 DEF Inv, IInv

(* The two mutexes, one step each.                                         *)
LEMMA CopyLockInv ==
  ASSUME Inv, NEW t \in Threads, copy_lock(t)
  PROVE  Inv'
<1>1. call[t].op \in {"copy_lo", "copy_hi"}
  BY DEF copy_lock, Running
<1>2. PICK c \in CopyCall : c = call[t]
  BY <1>1, CalledEntry DEF CallOK
<1>3. CallOK(c, len) /\ c.r \in Ids /\ c.dst \in Ids /\ c.r # c.dst
  BY <1>1, <1>2, CalledEntry DEF CallOK, CopyOps, CopyCall
<1>4. PICK lo \in Ids, hi \in Ids :
        /\ lo = LockOrder(c.r, c.dst)[1] /\ hi = LockOrder(c.r, c.dst)[2]
        /\ lo < hi /\ {lo, hi} = {c.r, c.dst}
  BY <1>3, LockOrderPair
<1>5. UNCHANGED <<len, present, entries, store, history>>
  BY DEF copy_lock
<1>6. t # Nobody /\ owner \in [Ids -> Threads \cup {Nobody}] /\ call[t] = c
  BY <1>2, ConcurrentAssumption DEF Inv, IInv, TypeInv
<1>7. \A x \in Ids : owner[x] = t => c.op = "copy_hi" /\ x = lo
  <2> SUFFICES ASSUME NEW x \in Ids, owner[x] = t PROVE c.op = "copy_hi" /\ x = lo
    OBVIOUS
  <2>1. Held(x)
    BY DEF Inv
  <2> QED BY <1>1, <1>2, <1>4, <1>6, <2>1 DEF Held
<1>8. ASSUME NEW a \in Ids, NEW d \in CopyCall, Unlocked(a),
             owner' = [owner EXCEPT ![a] = t],
             call' = [call EXCEPT ![t] = d], d.r = c.r, d.dst = c.dst,
             \/ d.op = "copy_hi" /\ a = lo /\ c.op = "copy_lo"
             \/ d.op = "copy_read" /\ a = hi /\ c.op = "copy_hi"
      PROVE  Inv'
  <2>1. CallOK(d, len)
    BY <1>3, <1>8 DEF CallOK, CopyOps, CopyCall
  <2>2. owner'[a] = t /\ \A x \in Ids \ {a} : owner'[x] = owner[x]
    BY <1>6, <1>8
  <2>3. call'[t] = d
    BY <1>8 DEF Inv, IInv, TypeInv
  <2>4. c.op = "copy_hi" => owner[lo] = t
    BY <1>2, <1>4 DEF Inv, Locked
  <2>5. d.op = "copy_read" => owner'[c.r] = t /\ owner'[c.dst] = t
    <3> SUFFICES ASSUME d.op = "copy_read" PROVE owner'[lo] = t /\ owner'[hi] = t
      BY <1>4
    <3>1. a = hi /\ c.op = "copy_hi" /\ lo # hi
      BY <1>4, <1>8 DEF Ids
    <3> QED BY <2>2, <2>4, <3>1
  <2>6. Locked(t)'
    BY <1>4, <1>8, <2>2, <2>3, <2>5 DEF Locked
  <2>7. ASSUME NEW x \in Ids, owner'[x] = t PROVE Held(x)'
    <3>1. x = a \/ (x = lo /\ c.op = "copy_hi")
      BY <1>7, <2>2, <2>7
    <3> QED BY <1>4, <1>8, <2>3, <2>7, <3>1 DEF Held
  <2>8. /\ owner' \in [Ids -> Threads \cup {Nobody}]
        /\ \A x \in Ids : owner[x] \notin {t, Nobody} => owner'[x] = owner[x]
        /\ \A x \in Ids : owner'[x] # owner[x] => owner'[x] \in {t, Nobody}
    BY <1>6, <1>8 DEF Unlocked
  <2> QED BY <1>5, <1>8, <2>1, <2>6, <2>7, <2>8, CopyQuietInv
<1>9. CASE c.op = "copy_lo"
  <2>1. PICK d \in CopyCall : d = [c EXCEPT !.op = "copy_hi"]
    BY DEF CopyCall
  <2>2. d.op = "copy_hi" /\ d.r = c.r /\ d.dst = c.dst
    BY <2>1 DEF CopyCall
  <2>3. Unlocked(lo) /\ owner' = [owner EXCEPT ![lo] = t] /\ call' = [call EXCEPT ![t] = d]
    BY <1>2, <1>4, <1>9, <2>1 DEF copy_lock, Running, Acquire, Goto
  <2> QED BY <1>8, <1>9, <2>2, <2>3
<1>10. CASE c.op = "copy_hi"
  <2>1. PICK d \in CopyCall : d = [c EXCEPT !.op = "copy_read"]
    BY DEF CopyCall
  <2>2. d.op = "copy_read" /\ d.r = c.r /\ d.dst = c.dst
    BY <2>1 DEF CopyCall
  <2>3. Unlocked(hi) /\ owner' = [owner EXCEPT ![hi] = t] /\ call' = [call EXCEPT ![t] = d]
    BY <1>2, <1>4, <1>10, <2>1 DEF copy_lock, Running, Acquire, Goto
  <2> QED BY <1>8, <1>10, <2>2, <2>3
<1> QED BY <1>1, <1>2, <1>9, <1>10

(* What t holds is free once it has released, and nothing else changes.    *)
LEMMA ReleaseFrees ==
  ASSUME Inv, NEW t \in Threads, Release(t)
  PROVE  /\ owner' \in [Ids -> Threads \cup {Nobody}]
         /\ \A x \in Ids : owner[x] \notin {t, Nobody} => owner'[x] = owner[x]
         /\ \A x \in Ids : owner'[x] # owner[x] => owner'[x] \in {t, Nobody}
         /\ \A x \in Ids : owner'[x] # t
<1>1. t # Nobody /\ owner \in [Ids -> Threads \cup {Nobody}]
  BY ConcurrentAssumption DEF Inv, IInv, TypeInv
<1> QED BY <1>1 DEF Release

(* The bytes of the source are read under both mutexes.                    *)
LEMMA CopyReadInv ==
  ASSUME Inv, NEW t \in Threads, copy_read(t)
  PROVE  Inv'
<1>1. call[t].op = "copy_read"
  BY DEF copy_read, Running
<1>2. PICK c \in CopyCall : c = call[t]
  BY <1>1, CalledEntry DEF CallOK
<1>3. CallOK(c, len) /\ c.r \in Ids /\ c.dst \in Ids /\ c.r # c.dst
  BY <1>1, <1>2, CalledEntry DEF CallOK, CopyOps, CopyCall
<1>4. UNCHANGED <<len, present, entries, store, history>>
  BY DEF copy_read
<1>5. CASE entries[c.r].memory \in Contents
  <2>1. PICK b \in Contents : b = entries[c.r].memory
    BY <1>5
  <2>2. PICK d \in CopyWrite :
          d = [op |-> "copy_write", r |-> c.r, dst |-> c.dst, buf |-> b]
    BY <1>3 DEF CopyWrite
  <2>3. d.op = "copy_write" /\ d.r = c.r /\ d.dst = c.dst /\ d.buf = b
    BY <2>2
  <2>4. call' = [call EXCEPT ![t] = d] /\ owner' = owner
    BY <1>2, <1>5, <2>1, <2>2 DEF copy_read, Goto
  <2>5. CallOK(d, len)
    BY <1>1, <1>2, <1>3, <2>3 DEF CallOK, CopyOps
  <2>6. call'[t] = d
    BY <2>4 DEF Inv, IInv, TypeInv
  <2>7. owner[c.r] = t /\ owner[c.dst] = t
    BY <1>1, <1>2 DEF Inv, Locked
  <2>8. Locked(t)'
    BY <1>4, <2>1, <2>3, <2>4, <2>6, <2>7 DEF Locked
  <2>9. ASSUME NEW x \in Ids, owner'[x] = t PROVE Held(x)'
    <3>1. Held(x) /\ owner[x] = t /\ t # Nobody
      BY <2>4, <2>9, ConcurrentAssumption DEF Inv
    <3>2. x \in {c.r, c.dst}
      BY <1>1, <1>2, <3>1 DEF Held
    <3> QED BY <2>3, <2>6, <2>9, <3>2 DEF Held
  <2>10. owner' \in [Ids -> Threads \cup {Nobody}]
    BY <2>4 DEF Inv, IInv, TypeInv
  <2> QED BY <1>4, <2>4, <2>5, <2>8, <2>9, <2>10, CopyQuietInv
<1>6. CASE entries[c.r].memory \notin Contents
  <2>1. call' = [call EXCEPT ![t] = Idle] /\ Release(t)
    BY <1>2, <1>6 DEF copy_read, Return, Goto
  <2>2. CallOK(Idle, len) /\ Idle.op = "idle"
    BY DEF CallOK, CopyOps, Idle
  <2>3. call'[t] = Idle
    BY <2>1 DEF Inv, IInv, TypeInv
  <2>4. Locked(t)'
    BY <2>2, <2>3 DEF Locked
  <2> QED BY <1>4, <2>1, <2>2, <2>4, ReleaseFrees, CopyQuietInv
<1> QED BY <1>5, <1>6

(* The destination gets them under both mutexes.                           *)
LEMMA CopyWriteInv ==
  ASSUME Inv, NEW t \in Threads, copy_write(t)
  PROVE  Inv'
<1>1. call[t].op = "copy_write"
  BY DEF copy_write, Running
<1>2. PICK c \in CopyWrite : c = call[t]
  BY <1>1, CalledEntry DEF CallOK
<1>3. CallOK(c, len) /\ c.r \in Ids /\ c.dst \in Ids /\ c.r # c.dst /\ c.buf \in Contents
  BY <1>1, <1>2, CalledEntry DEF CallOK, CopyOps, CopyWrite
<1>4. PICK d \in Ids : d = c.dst
  BY <1>3
<1>5. /\ UNCHANGED <<len, present, store, failed>>
      /\ call' = [call EXCEPT ![t] = Idle] /\ Release(t)
  BY DEF copy_write, Return, Goto
<1>6. CallOK(Idle, len) /\ Idle.op = "idle"
  BY DEF CallOK, CopyOps, Idle
<1>7. owner[d] = t
  BY <1>1, <1>2, <1>4 DEF Inv, Locked
<1>8. Locked(t)'
  <2>1. call'[t] = Idle
    BY <1>5 DEF Inv, IInv, TypeInv
  <2> QED BY <1>6, <2>1 DEF Locked
<1>9. CASE entries[d].memory \notin Contents
  <2>1. UNCHANGED <<entries, history>>
    BY <1>2, <1>4, <1>9 DEF copy_write, history
  <2> QED BY <1>5, <1>6, <1>8, <2>1, ReleaseFrees, CopyQuietInv
<1>10. CASE entries[d].memory \in Contents
  <2>1. /\ entries' = [entries EXCEPT ![d].memory = c.buf]
        /\ logical' = [logical EXCEPT ![d] = c.buf]
    BY <1>2, <1>4, <1>10 DEF copy_write
  <2>2. entries \in [Ids -> Entry] /\ entries[d] \in Entry
    BY DEF Inv, IInv, TypeInv
  <2>3. PICK e \in Entry : e = [entries[d] EXCEPT !.memory = c.buf]
    BY <1>3, <2>2 DEF Entry, Memory, Bytes
  <2>4. entries' = [entries EXCEPT ![d] = e]
    BY <2>1, <2>3
  <2>5. /\ entries' \in [Ids -> Entry] /\ entries'[d] = e
        /\ \A x \in Ids \ {d} : entries'[x] = entries[x]
    BY <2>2, <2>4
  <2>6. e.memory = c.buf /\ e.residency = entries[d].residency
    BY <2>2, <2>3 DEF Entry
  <2>7. /\ logical' \in [Ids -> Contents] /\ logical'[d] = c.buf
        /\ \A x \in Ids \ {d} : logical'[x] = logical[x]
    BY <1>3, <2>1 DEF Inv, IInv, TypeInv
  <2>8. TypeInv'
    <3>1. DOMAIN call' = Threads /\ \A u \in Threads : CallOK(call'[u], len')
      BY <1>5, <1>6, GotoOK DEF Inv, IInv
    <3>2. owner' \in [Ids -> Threads \cup {Nobody}]
      BY <1>5, ReleaseFrees
    <3> QED BY <1>5, <2>5, <2>7, <3>1, <3>2 DEF TypeInv, Inv, IInv
  <2>9. ASSUME NEW x \in Ids PROVE Safe(x)' /\ WarmUnspilled(x)' /\ Fresh(x)'
    <3>1. CASE x = d
      <4>1. Safe(d) /\ WarmUnspilled(d) /\ d < len
        BY <1>1, <1>2, <1>3, <1>4 DEF Inv, IInv, CallOK, CopyOps, TypeInv
      <4>2. entries[d].memory # NoMemory
        BY <1>10, ConcurrentAssumption DEF Bytes
      <4>3. Safe(d)' /\ WarmUnspilled(d)'
        BY <1>5, <2>5, <2>6, <2>7, <4>1, <4>2 DEF Safe, WarmUnspilled
      <4>4. Fresh(d)'
        <5>1. len' = len /\ len \in Int /\ d \in Int
          BY <1>5, ConcurrentAssumption DEF Inv, IInv, TypeInv, Ids
        <5> QED BY <4>1, <5>1 DEF Fresh
      <4> QED BY <3>1, <4>3, <4>4
    <3>2. CASE x # d
      <4>1. entries'[x] = entries[x] /\ entries[x].generation \in Gens
        BY <2>2, <2>5, <3>2 DEF Entry
      <4> QED BY <1>5, <2>7, <3>2, <4>1, RegionFrame DEF Inv, IInv
    <3> QED BY <3>1, <3>2
  <2>10. (\A u \in Threads : Locked(u)') /\ (\A x \in Ids : Held(x)')
    <3>1. ASSUME NEW x \in Ids, owner[x] \notin {t, Nobody}
          PROVE  owner'[x] = owner[x] /\ entries'[x].memory = entries[x].memory
      BY <1>5, <1>7, <2>5, <3>1, ReleaseFrees
    <3> QED BY <1>5, <1>8, <3>1, ReleaseFrees, CopyFrame
  <2> QED BY <2>8, <2>9, <2>10 DEF Inv, IInv
<1> QED BY <1>9, <1>10

-----------------------------------------------------------------------------
(* The theorems *)

(* Every step of every thread keeps the invariant.                         *)
LEMMA NextInv ==
  ASSUME Inv, [Next]_vars
  PROVE  Inv'
<1>1. CASE UNCHANGED vars
  BY <1>1, StillInv DEF vars, shared
<1>2. ASSUME NEW t \in Threads, Continue(t) PROVE Inv'
  BY <1>2, LruInv, AllocInv, DeallocInv, WriteInv, PinInv, CompactInv, LoadInv, SpillInv,
     CopyLockInv, CopyReadInv, CopyWriteInv, DemoteInv DEF Continue
<1>3. ASSUME NEW t \in Threads, NEW p \in Policies, create_region(t, p) PROVE Inv'
  BY <1>3, CreateInv
<1>4. ASSUME NEW t \in Threads, NEW target \in Targets, demote_until_begin(t, target) PROVE Inv'
  BY <1>4, DemoteInv
<1>5. ASSUME NEW t \in Threads, Invoke(t) PROVE Inv'
  BY <1>5, InvokeInv
<1> QED BY <1>1, <1>2, <1>3, <1>4, <1>5 DEF Next, Step

(* No mutex is held and no call is under way when the threads start.       *)
LEMMA InitInv ==
  ASSUME Init
  PROVE  Inv
<1>1. PICK p \in [Ids -> Policies], used \in [Ids -> 0..MaxUsed] :
        entries = [r \in Ids |-> NewEntry(p[r], used[r])]
  BY DEF Init
<1>2. ASSUME NEW r \in Ids
      PROVE  /\ entries[r] \in Entry /\ entries[r].memory = Zero
             /\ entries[r].residency \in {"Hot", "Warm"}
  <2>1. used[r] \in Nat /\ p[r] \in Policies
    BY <1>1, ConcurrentAssumption
  <2> QED BY <1>1, <2>1, NewEntryType
<1>3. entries \in [Ids -> Entry]
  BY <1>1, <1>2
<1>4. len \in 0..MaxRegions /\ present \subseteq 0..(len - 1)
  BY ConcurrentAssumption DEF Init
<1>5. /\ owner = [r \in Ids |-> Nobody] /\ store = [k \in Ids \X Gens |-> NoMemory]
      /\ call = [t \in Threads |-> Idle] /\ logical = [r \in Ids |-> Zero] /\ failed = {}
  BY DEF Init
<1>6. CallOK(Idle, len) /\ Idle.op = "idle"
  BY DEF CallOK, CopyOps, Idle
<1>7. TypeInv
  BY <1>3, <1>4, <1>5, <1>6, ConcurrentAssumption DEF TypeInv, Memory
<1>8. ASSUME NEW r \in Ids PROVE Safe(r) /\ WarmUnspilled(r) /\ Fresh(r)
  BY <1>2, <1>5 DEF Safe, WarmUnspilled, Fresh
<1>9. \A t \in Threads : Locked(t)
  BY <1>5, <1>6 DEF Locked
<1>10. \A r \in Ids : Held(r)
  BY <1>5 DEF Held
<1> QED BY <1>7, <1>8, <1>9, <1>10 DEF Inv, IInv

(* The inductive invariant holds in every state the threads reach.         *)
LEMMA Invariance == Spec => []Inv
<1>1. Init => Inv
  BY InitInv
<1>2. Inv /\ [Next]_vars => Inv'
  BY NextInv
<1> QED BY <1>1, <1>2, PTL DEF Spec

(* Whatever the threads do to a region at the same time, memory or file    *)
(* keeps the bytes last written to it, unless a spill of it failed.        *)
THEOREM ConcurrentBytesSurvive == Spec => []BytesSurvive
<1>1. Inv => BytesSurvive
  BY DEF Inv, IInv, Safe, BytesSurvive
<1> QED BY <1>1, Invariance, PTL

(* cross_region_copy writes what the source still holds: no write, copy,   *)
(* spill or load of another thread comes between its read and its write.   *)
THEOREM CopyAtomic == Spec => CopyIsAtomic
<1> DEFINE A == \A t \in Threads : Running(t, "copy_write") /\ call'[t] = Idle =>
                  call[t].buf = entries[call[t].r].memory
<1>1. Inv => A
  BY DEF Inv, Locked, Running
<1>2. Inv /\ [Next]_vars => [A]_vars
  BY <1>1
<1> QED BY <1>2, Invariance, PTL DEF Spec, CopyIsAtomic

(* The replaced entry of a region pinned and resident has memory.          *)
LEMMA UpdateResident ==
  ASSUME Inv, NEW r \in Ids, NEW e, entries' = [entries EXCEPT ![r] = e],
         entries[r].pinned /\ entries[r].memory # NoMemory => e.memory # NoMemory,
         NEW x \in Ids, entries[x].pinned, entries[x].memory # NoMemory
  PROVE  entries'[x].memory # NoMemory
<1>1. entries \in [Ids -> Entry]
  BY DEF Inv, IInv, TypeInv
<1>2. CASE x = r
  BY <1>1, <1>2
<1>3. CASE x # r
  BY <1>1, <1>3
<1> QED BY <1>2, <1>3

(* A step of a call takes the memory of no pinned region: only a spill     *)
(* takes memory, and it checks the pin under the entry's mutex.            *)
LEMMA ContinueResident ==
  ASSUME Inv, NEW t \in Threads, Continue(t),
         NEW x \in Ids, entries[x].pinned, entries[x].memory # NoMemory
  PROVE  entries'[x].memory # NoMemory
<1> DEFINE r == call[t].r
           e == entries[r]
<1>1. call[t].op # "idle" => r \in Ids /\ e \in Entry /\ CallOK(call[t], len)
  BY CalledEntry
<1>2. ASSUME entries' = entries PROVE entries'[x].memory # NoMemory
  BY <1>2
<1>3. ASSUME NEW f, call[t].op # "idle", entries' = [entries EXCEPT ![r] = f],
             e.pinned /\ e.memory # NoMemory => f.memory # NoMemory
      PROVE  entries'[x].memory # NoMemory
  BY <1>1, <1>3, UpdateResident
<1>4. CASE alloc(t) \/ dealloc(t) \/ pin(t) \/ unpin(t) \/ compact_region(t)
  <2>1. PICK f : entries' = [entries EXCEPT ![r] = f] /\ call[t].op # "idle"
                   /\ \/ f = e
                      \/ f = [e EXCEPT !.used = @ + 1] \/ f = [e EXCEPT !.used = @ - 1]
                      \/ f = [e EXCEPT !.pinned = TRUE] \/ f = [e EXCEPT !.pinned = FALSE]
                      \/ f = [e EXCEPT !.generation = @ + 1]
    BY <1>4 DEF alloc, dealloc, pin, unpin, compact_region, Update, Running
  <2>2. f.memory = e.memory
    BY <1>1, <2>1 DEF Entry
  <2> QED BY <1>3, <2>1, <2>2
<1>5. CASE write(t)
  <2>1. PICK f : entries' = [entries EXCEPT ![r] = f] /\ call[t].op = "write"
                   /\ (f = e \/ f = [e EXCEPT !.memory = call[t].c])
    BY <1>5 DEF write, Update, Running
  <2>2. call[t].c # NoMemory
    BY <1>1, <2>1, ConcurrentAssumption DEF CallOK, Bytes
  <2>3. e.memory # NoMemory => f.memory # NoMemory
    BY <1>1, <2>1, <2>2 DEF Entry
  <2> QED BY <1>3, <2>1, <2>3
<1>6. CASE load_region(t)
  <2>1. PICK f : entries' = [entries EXCEPT ![r] = f] /\ call[t].op = "load"
                   /\ \/ f = e
                      \/ /\ store[<<r, e.generation>>] # NoMemory
                         /\ f = [e EXCEPT !.memory = store[<<r, e.generation>>],
                                          !.residency = "Hot"]
    BY <1>6 DEF load_region, Update, Running
  <2>2. e.memory # NoMemory => f.memory # NoMemory
    BY <1>1, <2>1 DEF Entry
  <2> QED BY <1>3, <2>1, <2>2
<1>7. CASE spill_region(t)
  <2>1. PICK f : entries' = [entries EXCEPT ![r] = f] /\ call[t].op = "spill"
                   /\ (f = e \/ ~e.pinned)
    BY <1>7 DEF spill_region, Update, Running, CanSpill
  <2> QED BY <1>3, <2>1
<1>8. CASE copy_write(t)
  <2>1. call[t] \in CopyWrite /\ call[t].dst \in Ids /\ call[t].buf # NoMemory
    BY <1>1, <1>8, ConcurrentAssumption DEF copy_write, Running, CallOK, CopyWrite, Bytes
  <2>2. entries[call[t].dst] \in Entry
    BY <2>1 DEF Inv, IInv, TypeInv
  <2>3. CASE entries' = [entries EXCEPT ![call[t].dst] =
                           [entries[call[t].dst] EXCEPT !.memory = call[t].buf]]
    <3>1. [entries[call[t].dst] EXCEPT !.memory = call[t].buf].memory # NoMemory
      BY <2>1, <2>2 DEF Entry
    <3> QED BY <2>1, <2>3, <3>1, UpdateResident
  <2> QED BY <1>2, <1>8, <2>3 DEF copy_write
<1>9. CASE \/ lru_push_front(t) \/ lru_remove(t) \/ copy_lock(t) \/ copy_read(t)
           \/ list_regions(t) \/ demote_until_plan(t) \/ demote_until_next(t)
           \/ demote_until_return(t)
  BY <1>2, <1>9 DEF lru_push_front, lru_remove, copy_lock, copy_read, list_regions,
     demote_until_plan, demote_until_next, demote_until_return, shared
<1> QED BY <1>4, <1>5, <1>6, <1>7, <1>8, <1>9 DEF Continue

(* A pin that has returned is honoured by every spill, also by one that    *)
(* demote_until planned when the region was not pinned yet.                *)
THEOREM PinHonoured == Spec => PinnedStaysResident
<1> DEFINE A == \A r \in Ids : entries[r].pinned /\ entries[r].memory # NoMemory =>
                  entries'[r].memory # NoMemory
<1>1. Inv /\ [Next]_vars => [A]_vars
  <2> SUFFICES ASSUME Inv, Next, NEW x \in Ids, entries[x].pinned, entries[x].memory # NoMemory
               PROVE  entries'[x].memory # NoMemory
    OBVIOUS
  <2>1. ASSUME NEW t \in Threads, Continue(t) PROVE entries'[x].memory # NoMemory
    BY <2>1, ContinueResident
  <2>2. ASSUME NEW t \in Threads, NEW p \in Policies, create_region(t, p)
        PROVE  entries'[x].memory # NoMemory
    <3>1. len \in Ids
      BY <2>2, ConcurrentAssumption DEF create_region, Inv, IInv, TypeInv, Ids
    <3>2. NewEntry(p, 0).memory # NoMemory
      BY NewEntryType, ConcurrentAssumption DEF Bytes
    <3> QED BY <2>2, <3>1, <3>2, UpdateResident DEF create_region
  <2>3. ASSUME NEW t \in Threads,
               Invoke(t) \/ \E target \in Targets : demote_until_begin(t, target)
        PROVE  entries'[x].memory # NoMemory
    <3>1. entries' = entries
      BY <2>3 DEF Invoke, entry_arc, copy_begin, destroy_region, demote_until_begin, shared
    <3> QED BY <3>1
  <2> QED BY <2>1, <2>2, <2>3 DEF Next, Step
<1> QED BY <1>1, Invariance, PTL DEF Spec, PinnedStaysResident

(* While any mutex is held, the holder of the highest one held can go on:  *)
(* it waits for no mutex, or for a higher one, which is free.  So copies   *)
(* in opposite directions, or around a ring of regions, never deadlock.    *)
THEOREM CopiesNeverDeadlock == Spec => []NoDeadlock
<1>1. ASSUME Inv PROVE NoDeadlock
  <2> SUFFICES ASSUME NEW r \in Ids, ~Unlocked(r)
               PROVE  \E t \in Threads : Proceeds(t) /\ \E x \in Ids : owner[x] = t
    BY DEF NoDeadlock
  <2> DEFINE S == {x \in Ids : ~Unlocked(x)}
  <2>1. S \in SUBSET (0..MaxRegions) /\ S # {} /\ MaxRegions \in Nat
    BY ConcurrentAssumption DEF Ids
  <2> HIDE DEF S
  <2>2. PICK top \in S : \A y \in S : top >= y
    BY <2>1, MaxProperties
  <2>3. top \in Ids /\ owner[top] \in Threads /\ Held(top)
    BY <1>1 DEF S, Unlocked, Inv, IInv, TypeInv
  <2>4. PICK t \in Threads : t = owner[top]
    BY <2>3
  <2>5. t # Nobody /\ CallOK(call[t], len)
    BY <1>1, ConcurrentAssumption DEF Inv, IInv, TypeInv
  <2>6. CASE call[t].op \in {"copy_read", "copy_write"}
    BY <2>3, <2>4, <2>6 DEF Proceeds
  <2>7. CASE call[t].op \notin {"copy_read", "copy_write"}
    <3>1. call[t].op = "copy_hi" /\ top = LockOrder(call[t].r, call[t].dst)[1]
      BY <2>3, <2>4, <2>5, <2>7 DEF Held
    <3>2. call[t].r \in Ids /\ call[t].dst \in Ids /\ call[t].r # call[t].dst
      BY <2>5, <3>1 DEF CallOK, CopyOps, CopyCall
    <3>3. PICK hi \in Ids : hi = LockOrder(call[t].r, call[t].dst)[2] /\ top < hi
      BY <3>1, <3>2, LockOrderPair
    <3>4. hi \notin S
      BY <2>2, <2>3, <3>3 DEF Ids
    <3>5. Unlocked(hi)
      BY <3>4 DEF S
    <3> QED BY <2>3, <2>4, <3>1, <3>3, <3>5 DEF Proceeds
  <2> QED BY <2>6, <2>7
<1> QED BY <1>1, Invariance, PTL

-----------------------------------------------------------------------------
(* demote_until, while no other thread meddles *)

(* What list_regions reads of region r.                                    *)
MetaOf(r) ==
  [id |-> r, used |-> entries[r].used, residency |-> entries[r].residency,
   pinned |-> entries[r].pinned, spillable |-> entries[r].spillable]

(* A list of regions present, as they are now, each at most once.          *)
Metas == {MetaOf(r) : r \in present}
Snapshot(ms) == ms \in Seq(Metas) /\ IsInjective(ms)
Listed(r, ms) == MetaOf(r) \in Range(ms)

(* list_regions: each region present is read, or still to be read.         *)
Listing(t) ==
  LET f == frame[t]
  IN /\ DOMAIN f = {"stage", "target", "retry", "todo", "metas"}
     /\ call[t] = Idle
     /\ Snapshot(f.metas)
     /\ f.todo \in Seq(present) /\ IsInjective(f.todo)
     /\ \A r \in present : r \in Range(f.todo) <=> ~Listed(r, f.metas)

(* The plan: what is left of it is as it was read, current is what is      *)
(* resident, and every Warm region that can be spilled is still in it,     *)
(* before the Hot ones.                                                    *)
Spilling(t) ==
  LET f == frame[t]
      c == call[t]
  IN /\ DOMAIN f = {"stage", "target", "retry", "current", "todo"}
     /\ c = Idle \/ c.op \in {"spill", "lru_remove"}
     /\ f.current = ResidentBytes
     /\ Snapshot(f.todo)
     /\ \A i \in DOMAIN f.todo : f.todo[i].residency \in {"Hot", "Warm"}
     /\ \A i, j \in DOMAIN f.todo :
          i < j /\ f.todo[j].residency = "Warm" => f.todo[i].residency = "Warm"
     /\ c.op = "spill" =>
          /\ f.current > f.target
          /\ c.r \in present /\ c.used = entries[c.r].used /\ ~Listed(c.r, f.todo)
          /\ entries[c.r].residency \in {"Hot", "Warm"}
          /\ entries[c.r].residency = "Hot" =>
               \A i \in DOMAIN f.todo : f.todo[i].residency = "Hot"
     /\ \A r \in present :
          CanSpill(entries[r]) /\ entries[r].residency = "Warm" =>
            Listed(r, f.todo) \/ (c.op = "spill" /\ c.r = r)

Planned(t) ==
  \/ frame[t] = NoFrame
  \/ frame[t].stage = "start" /\ call[t] = Idle
  \/ frame[t].stage = "list" /\ Listing(t)
  \/ frame[t].stage = "spill" /\ Spilling(t)

PlanInv ==
  /\ DOMAIN frame = Threads /\ DOMAIN report = Threads
  /\ \A t \in Threads \ disturbed : Planned(t)

(* Sums of used bytes                                                      *)

(* Used is the sum that SumOf forms.                                       *)
LEMMA UsedSum ==
  ASSUME NEW f, NEW S, IsFiniteSet(S)
  PROVE  Used(f, S) = SumOf([x \in S |-> f[x].used], S)
<1> DEFINE J(g) == g = [s \in SUBSET S |-> IF s = {} THEN 0 ELSE f[Pick(s)].used + g[s \ {Pick(s)}]]
           u == CHOOSE g : J(g)
<1>1. PICK w : w = [x \in S |-> f[x].used]
  OBVIOUS
<1>2. \A g : J(g) <=> Iterates(g, w, S)
  <2>1. \A s \in SUBSET S : s # {} => Pick(s) \in S
    BY DEF Pick
  <2>2. \A s \in SUBSET S : s # {} => w[Pick(s)] = f[Pick(s)].used
    BY <1>1, <2>1
  <2> QED BY <2>2 DEF Iterates
<1>3. Iterates(u, w, S)
  BY <1>2, IterExists
<1>4. Used(f, S) = u[S]
  BY DEF Used, MapThenSumSet, MapThenFoldSet, Pick
<1>5. PICK g : Iterates(g, w, S) /\ SumOf(w, S) = g[S]
  BY SumIterates
<1>6. u[S] = g[S]
  BY <1>3, <1>5, IterAgree
<1> QED BY <1>1, <1>4, <1>5, <1>6

(* There are finitely many regions.                                        *)
LEMMA PresentFinite ==
  ASSUME Inv
  PROVE  /\ present \subseteq Ids /\ IsFiniteSet(present)
         /\ \A r \in present : entries[r] \in Entry /\ entries[r].used \in Nat /\ r \in Nat
<1>1. present \subseteq 0..(len - 1) /\ len \in 0..MaxRegions /\ entries \in [Ids -> Entry]
  BY DEF Inv, IInv, TypeInv
<1>2. IsFiniteSet(0..(len - 1))
  <2>1. 0 \in Int /\ len - 1 \in Int
    BY <1>1
  <2> QED BY <2>1, FS_Interval
<1>3. present \subseteq Ids
  BY <1>1, ConcurrentAssumption DEF Ids
<1>4. \A r \in present : r \in Nat /\ entries[r] \in Entry
  BY <1>1, <1>3
<1> QED BY <1>1, <1>2, <1>3, <1>4, FS_Subset DEF Entry

(* The regions whose bytes count.                                          *)
Counted == {r \in present : entries[r].residency \in {"Hot", "Warm"}}

(* A region that becomes Cold takes its bytes out of the sum.              *)
LEMMA SpilledBytes ==
  ASSUME Inv, present' = present,
         NEW r \in Counted, NEW e, e.residency = "Cold", entries' = [entries EXCEPT ![r] = e]
  PROVE  /\ ResidentBytes' \in Nat /\ entries[r].used \in Nat
         /\ ResidentBytes = entries[r].used + ResidentBytes'
<1>1. /\ present \subseteq Ids /\ IsFiniteSet(present)
      /\ \A x \in present : entries[x] \in Entry /\ entries[x].used \in Nat
  BY PresentFinite
<1>2. PICK A : A = Counted /\ r \in A /\ A \subseteq present /\ IsFiniteSet(A)
  BY <1>1, FS_Subset DEF Counted
<1>3. PICK B : B = A \ {r} /\ IsFiniteSet(B)
  BY <1>2, FS_RemoveElement
<1>4. \A x \in present \ {r} : entries'[x] = entries[x]
  BY <1>1 DEF Inv, IInv, TypeInv
<1>5. B = {x \in present' : entries'[x].residency \in {"Hot", "Warm"}}
  <2>1. entries'[r].residency = "Cold"
    BY <1>1, <1>2 DEF Inv, IInv, TypeInv
  <2>2. \A x \in present : x \in A <=> entries[x].residency \in {"Hot", "Warm"}
    BY <1>2 DEF Counted
  <2> QED BY <1>2, <1>3, <1>4, <2>1, <2>2
<1>6. PICK w : w = [x \in A |-> entries[x].used]
  OBVIOUS
<1>7. PICK v : v = [x \in B |-> entries'[x].used]
  OBVIOUS
<1>8. ResidentBytes = SumOf(w, A)
  BY <1>2, <1>6, UsedSum DEF ResidentBytes, Counted
<1>9. ResidentBytes' = SumOf(v, B)
  <2>1. ResidentBytes' = Used(entries', B)
    BY <1>5 DEF ResidentBytes
  <2>2. PICK f : f = entries'
    OBVIOUS
  <2>3. v = [x \in B |-> f[x].used]
    BY <1>7, <2>2
  <2>4. Used(f, B) = SumOf([x \in B |-> f[x].used], B)
    BY <1>3, UsedSum
  <2> QED BY <2>1, <2>2, <2>3, <2>4
<1>10. \A x \in A : w[x] \in Nat
  BY <1>1, <1>2, <1>6
<1>11. SumOf(w, A) = w[r] + SumOf(w, B)
  BY <1>2, <1>3, <1>10, SumRemove
<1>12. SumOf(w, B) = SumOf(v, B)
  <2>1. \A x \in B : w[x] = v[x]
    BY <1>2, <1>3, <1>4, <1>6, <1>7
  <2> QED BY <1>3, <2>1, SumAgree
<1>13. SumOf(w, B) \in Nat
  BY <1>2, <1>3, <1>10, SumType
<1>14. w[r] = entries[r].used
  BY <1>2, <1>6
<1> QED BY <1>8, <1>9, <1>10, <1>11, <1>12, <1>13, <1>14, <1>2

(* What the list of all regions adds up to is what is resident.            *)
LEMMA PlanTotal ==
  ASSUME Inv, NEW ms, Snapshot(ms), \A r \in present : Listed(r, ms)
  PROVE  Total(ms) = ResidentBytes
<1>1. /\ present \subseteq Ids /\ IsFiniteSet(present)
      /\ \A x \in present : entries[x] \in Entry /\ entries[x].used \in Nat
  BY PresentFinite
<1>2. PICK A : A = Counted /\ A \subseteq present /\ IsFiniteSet(A)
  <2>1. Counted \in SUBSET present
    BY DEF Counted
  <2> QED BY <1>1, <2>1, FS_Subset
<1>3. ASSUME NEW i \in DOMAIN ms PROVE ms[i].id \in present /\ ms[i] = MetaOf(ms[i].id)
  <2>1. ms[i] \in Metas
    BY <1>3 DEF Snapshot
  <2>2. PICK r \in present : ms[i] = MetaOf(r)
    BY <2>1 DEF Metas
  <2>3. ms[i].id = r
    BY <2>2 DEF MetaOf
  <2> QED BY <2>2, <2>3
<1>4. PICK I : I = {i \in DOMAIN ms : counts_toward_resident(ms[i])}
  OBVIOUS
<1>5. IsFiniteSet(I)
  <2>1. PICK n \in Nat : DOMAIN ms = 1..n
    BY DEF Snapshot
  <2>2. IsFiniteSet(1..n)
    BY <2>1, FS_Interval
  <2> QED BY <1>4, <2>1, <2>2, FS_Subset
<1>6. PICK h : h = [i \in I |-> ms[i].id]
  OBVIOUS
<1>7. ASSUME NEW i \in I
      PROVE  /\ i \in DOMAIN ms /\ h[i] \in A /\ ms[i].used = entries[h[i]].used
             /\ ms[i] = MetaOf(h[i])
  <2>1. i \in DOMAIN ms /\ h[i] = ms[i].id /\ counts_toward_resident(ms[i])
    BY <1>4, <1>6
  <2>2. h[i] \in present /\ ms[i] = MetaOf(h[i])
    BY <1>3, <2>1
  <2>3. ms[i].residency = entries[h[i]].residency /\ ms[i].used = entries[h[i]].used
    BY <2>2 DEF MetaOf
  <2> QED BY <1>2, <2>1, <2>2, <2>3 DEF counts_toward_resident, Counted
<1>8. ASSUME NEW i \in I, NEW j \in I, h[i] = h[j] PROVE i = j
  <2>1. ms[i] = ms[j] /\ i \in DOMAIN ms /\ j \in DOMAIN ms
    BY <1>7, <1>8
  <2> QED BY <2>1 DEF Snapshot, IsInjective
<1>9. ASSUME NEW r \in A PROVE \E i \in I : h[i] = r
  <2>1. PICK i \in DOMAIN ms : ms[i] = MetaOf(r)
    BY <1>2 DEF Listed, Range
  <2>2. ms[i].id = r /\ ms[i].residency = entries[r].residency
    BY <2>1 DEF MetaOf
  <2>3. entries[r].residency \in {"Hot", "Warm"}
    BY <1>2 DEF Counted
  <2>4. i \in I
    BY <1>4, <2>2, <2>3 DEF counts_toward_resident
  <2> QED BY <1>6, <2>2, <2>4
<1>10. {h[i] : i \in I} = A
  BY <1>7, <1>9
<1>11. PICK w : w = [i \in I |-> ms[i].used]
  OBVIOUS
<1>12. PICK v : v = [x \in A |-> entries[x].used]
  OBVIOUS
<1>13. \A i \in I : w[i] \in Nat /\ v[h[i]] = w[i]
  BY <1>1, <1>2, <1>7, <1>11, <1>12
<1>14. SumOf(v, {h[i] : i \in I}) = SumOf(w, I)
  BY <1>5, <1>8, <1>13, SumReindex
<1>15. Total(ms) = SumOf(w, I)
  BY <1>4, <1>5, <1>11, UsedSum DEF Total
<1>16. ResidentBytes = SumOf(v, A)
  BY <1>2, <1>12, UsedSum DEF ResidentBytes, Counted
<1> QED BY <1>10, <1>14, <1>15, <1>16

(* The sorted lists                                                        *)

(* within_tier_cmp orders any two regions, whichever way it is configured. *)
LEMMA TierTotal ==
  ASSUME NEW a, NEW b, a.id \in Nat, b.id \in Nat, a.used \in Nat, b.used \in Nat, a.id # b.id
  PROVE  within_tier_cmp(a, b) \/ within_tier_cmp(b, a)
<1>1. CASE WithinTier = "LargestFirst"
  BY <1>1 DEF within_tier_cmp
<1>2. CASE WithinTier = "SmallestFirst"
  BY <1>2 DEF within_tier_cmp
<1>3. CASE WithinTier = "InsertionOrder"
  BY <1>3 DEF within_tier_cmp
<1> QED BY <1>1, <1>2, <1>3, ConcurrentAssumption

(* It is transitive.                                                       *)
LEMMA TierTransitive ==
  ASSUME NEW a, NEW b, NEW c, a.id \in Nat, b.id \in Nat, c.id \in Nat,
         a.used \in Nat, b.used \in Nat, c.used \in Nat,
         within_tier_cmp(a, b), within_tier_cmp(b, c)
  PROVE  within_tier_cmp(a, c)
<1>1. CASE WithinTier = "LargestFirst"
  BY <1>1 DEF within_tier_cmp
<1>2. CASE WithinTier = "SmallestFirst"
  BY <1>2 DEF within_tier_cmp
<1>3. CASE WithinTier = "InsertionOrder"
  BY <1>3 DEF within_tier_cmp
<1> QED BY <1>1, <1>2, <1>3, ConcurrentAssumption

(* What was read of a region tells which region it is.                     *)
LEMMA MetaFacts ==
  ASSUME Inv
  PROVE  /\ IsFiniteSet(Metas)
         /\ \A m \in Metas : /\ m.id \in present /\ m = MetaOf(m.id)
                             /\ m.id \in Nat /\ m.used \in Nat
<1>1. /\ present \subseteq Ids /\ IsFiniteSet(present)
      /\ \A r \in present : entries[r] \in Entry /\ entries[r].used \in Nat /\ r \in Nat
  BY PresentFinite
<1>2. PICK f : f = [r \in present |-> MetaOf(r)]
  OBVIOUS
<1>3. f \in Surjection(present, Metas)
  BY <1>2 DEF Surjection, Metas
<1>4. IsFiniteSet(Metas)
  BY <1>1, <1>3, FS_Surjection
<1>5. ASSUME NEW m \in Metas
      PROVE  m.id \in present /\ m = MetaOf(m.id) /\ m.id \in Nat /\ m.used \in Nat
  <2>1. PICK r \in present : m = MetaOf(r)
    BY DEF Metas
  <2>2. m.id = r /\ m.used = entries[r].used
    BY <2>1 DEF MetaOf
  <2> QED BY <1>1, <2>1, <2>2
<1> QED BY <1>4, <1>5

(* The candidates of a tier, each once.                                    *)
LEMMA CandidatesElements ==
  ASSUME Inv, NEW ms, Snapshot(ms), NEW tier
  PROVE  /\ Candidates(ms, tier) \in Seq(Metas) /\ IsInjective(Candidates(ms, tier))
         /\ Range(Candidates(ms, tier)) =
              {m \in Range(ms) : ~m.pinned /\ m.spillable /\ m.residency = tier}
<1>1. PICK S : S = {m \in Range(ms) : ~m.pinned /\ m.spillable /\ m.residency = tier}
  OBVIOUS
<1>2. S \in SUBSET Metas
  BY <1>1 DEF Snapshot, Range
<1>3. IsFiniteSet(S)
  BY <1>2, MetaFacts, FS_Subset
<1>4. PICK R : R = {p \in Metas \X Metas : within_tier_cmp(p[1], p[2])}
  OBVIOUS
<1>5. \A a, b \in Metas : <<a, b>> \in R <=> within_tier_cmp(a, b)
  BY <1>4
<1>6. \A a, b \in S : a # b => <<a, b>> \in R \/ <<b, a>> \in R
  <2> SUFFICES ASSUME NEW a \in S, NEW b \in S, a # b PROVE <<a, b>> \in R \/ <<b, a>> \in R
    OBVIOUS
  <2>1. /\ a \in Metas /\ b \in Metas /\ a.id # b.id
        /\ a.id \in Nat /\ b.id \in Nat /\ a.used \in Nat /\ b.used \in Nat
    BY <1>2, MetaFacts
  <2> QED BY <1>5, <2>1, TierTotal
<1>7. \A a, b, c \in S : <<a, b>> \in R /\ <<b, c>> \in R => <<a, c>> \in R
  <2> SUFFICES ASSUME NEW a \in S, NEW b \in S, NEW c \in S, <<a, b>> \in R, <<b, c>> \in R
               PROVE  <<a, c>> \in R
    OBVIOUS
  <2>1. /\ a \in Metas /\ b \in Metas /\ c \in Metas
        /\ a.id \in Nat /\ b.id \in Nat /\ c.id \in Nat
        /\ a.used \in Nat /\ b.used \in Nat /\ c.used \in Nat
    BY <1>2, MetaFacts
  <2> QED BY <1>5, <2>1, TierTransitive
<1>8. \E s \in SetToSeqs(S) : \A i, j \in DOMAIN s : i < j => <<s[i], s[j]>> \in R
  BY <1>3, <1>6, <1>7, OrderedExists
<1>9. \E s \in SetToSeqs(S) : \A i, j \in DOMAIN s : i < j => within_tier_cmp(s[i], s[j])
  BY <1>4, <1>8
<1>10. Candidates(ms, tier) \in SetToSeqs(S)
  BY <1>1, <1>9 DEF Candidates, Ordered
<1>11. PICK c \in SetToSeqs(S) : c = Candidates(ms, tier)
  BY <1>10
<1>12. c \in Seq(S) /\ IsInjective(c) /\ Range(c) = S
  BY <1>3, SeqsElements
<1>13. c \in Seq(Metas)
  BY <1>2, <1>12
<1> QED BY <1>1, <1>11, <1>12, <1>13

(* list_regions takes the regions present in the order of their slots.     *)
LEMMA PresentListed ==
  ASSUME Inv
  PROVE  /\ Ordered(present, <) \in Seq(present) /\ IsInjective(Ordered(present, <))
         /\ Range(Ordered(present, <)) = present
<1>1. IsFiniteSet(present) /\ \A r \in present : r \in Nat
  BY PresentFinite
<1>2. PICK R : R = {p \in present \X present : p[1] < p[2]}
  OBVIOUS
<1>3. \A a, b \in present : a # b => <<a, b>> \in R \/ <<b, a>> \in R
  BY <1>1, <1>2
<1>4. \A a, b, c \in present : <<a, b>> \in R /\ <<b, c>> \in R => <<a, c>> \in R
  BY <1>1, <1>2
<1>5. \E s \in SetToSeqs(present) : \A i, j \in DOMAIN s : i < j => <<s[i], s[j]>> \in R
  BY <1>1, <1>3, <1>4, OrderedExists
<1>6. \E s \in SetToSeqs(present) : \A i, j \in DOMAIN s : i < j => s[i] < s[j]
  BY <1>2, <1>5
<1>7. Ordered(present, <) \in SetToSeqs(present)
  BY <1>6 DEF Ordered
<1> QED BY <1>1, <1>7, SeqsElements

(* Steps                                                                   *)

(* While entries and slots stay as they are, so does what was planned.     *)
LEMMA PlannedKept ==
  ASSUME NEW t, Planned(t), entries' = entries, present' = present,
         frame'[t] = frame[t], call'[t] = call[t]
  PROVE  Planned(t)'
<1>1. \A r : MetaOf(r)' = MetaOf(r)
  BY DEF MetaOf
<1>2. Metas' = Metas
  BY DEF Metas, MetaOf
<1>3. ResidentBytes' = ResidentBytes
  BY DEF ResidentBytes
<1>4. CASE frame[t] = NoFrame
  BY <1>4 DEF Planned
<1>5. CASE frame[t].stage = "start" /\ call[t] = Idle
  BY <1>5 DEF Planned
<1>6. CASE frame[t].stage = "list" /\ Listing(t)
  <2>1. Listing(t)'
    BY <1>2, <1>6 DEF Listing, Snapshot, Listed, MetaOf
  <2> QED BY <1>6, <2>1 DEF Planned
<1>7. CASE frame[t].stage = "spill" /\ Spilling(t)
  <2>1. Spilling(t)'
    BY <1>2, <1>3, <1>7 DEF Spilling, Snapshot, Listed, MetaOf, CanSpill
  <2> QED BY <1>7, <2>1 DEF Planned
<1> QED BY <1>4, <1>5, <1>6, <1>7 DEF Planned

(* A step of t changes the call and the frame of t only.                   *)
LEMMA OthersWait ==
  ASSUME Inv, DOMAIN frame = Threads, NEW t \in Threads,
         \/ Continue(t) \/ Invoke(t)
         \/ \E p \in Policies : create_region(t, p)
         \/ \E target \in Targets : demote_until_begin(t, target)
  PROVE  /\ DOMAIN frame' = Threads
         /\ \A u \in Threads \ {t} : frame'[u] = frame[u] /\ call'[u] = call[u]
<1>1. DOMAIN call = Threads
  BY DEF Inv, IInv, TypeInv
<1>2. ASSUME \/ frame' = frame \/ \E f : frame' = [frame EXCEPT ![t] = f],
             \/ call' = call \/ \E c : call' = [call EXCEPT ![t] = c]
      PROVE  /\ DOMAIN frame' = Threads
             /\ \A u \in Threads \ {t} : frame'[u] = frame[u] /\ call'[u] = call[u]
  BY <1>1, <1>2
<1>3. CASE Continue(t)
  <2>1. CASE \/ lru_push_front(t) \/ lru_remove(t) \/ alloc(t) \/ dealloc(t) \/ write(t)
             \/ pin(t) \/ unpin(t)
    BY <1>2, <2>1 DEF lru_push_front, lru_remove, alloc, dealloc, write, pin, unpin, Return, Goto
  <2>2. CASE compact_region(t) \/ load_region(t) \/ spill_region(t)
    BY <1>2, <2>2 DEF compact_region, load_region, spill_region, Credit, Return, Goto
  <2>3. CASE copy_lock(t) \/ copy_read(t) \/ copy_write(t)
    BY <1>2, <2>3 DEF copy_lock, copy_read, copy_write, Return, Goto
  <2>4. CASE \/ list_regions(t) \/ demote_until_plan(t) \/ demote_until_next(t)
             \/ demote_until_return(t)
    BY <1>2, <2>4 DEF list_regions, demote_until_plan, demote_until_next, demote_until_return
  <2> QED BY <1>3, <2>1, <2>2, <2>3, <2>4 DEF Continue
<1>4. CASE Invoke(t)
  <2>1. ASSUME NEW c, entry_arc(t, c)
        PROVE  /\ DOMAIN frame' = Threads
               /\ \A u \in Threads \ {t} : frame'[u] = frame[u] /\ call'[u] = call[u]
    BY <1>2, <2>1 DEF entry_arc, Goto
  <2>2. ASSUME NEW r \in Ids, destroy_region(t, r)
        PROVE  /\ DOMAIN frame' = Threads
               /\ \A u \in Threads \ {t} : frame'[u] = frame[u] /\ call'[u] = call[u]
    BY <1>2, <2>2 DEF destroy_region, Goto
  <2> QED BY <1>4, <2>1, <2>2 DEF Invoke, copy_begin
<1>5. CASE \E p \in Policies : create_region(t, p)
  BY <1>2, <1>5 DEF create_region, Return, Goto
<1>6. CASE \E target \in Targets : demote_until_begin(t, target)
  BY <1>2, <1>6 DEF demote_until_begin
<1> QED BY <1>3, <1>4, <1>5, <1>6

(* A thread outside demote_until stays outside, or is at its beginning.    *)
LEMMA OutsidePlanned ==
  ASSUME Inv, DOMAIN frame = Threads, NEW t \in Threads, frame[t] = NoFrame,
         \/ Continue(t) \/ Invoke(t)
         \/ \E p \in Policies : create_region(t, p)
         \/ \E target \in Targets : demote_until_begin(t, target)
  PROVE  Planned(t)'
<1>1. DOMAIN call = Threads
  BY DEF Inv, IInv, TypeInv
<1>2. ASSUME frame' = frame PROVE Planned(t)'
  BY <1>2 DEF Planned
<1>3. ASSUME NEW f, f.stage = "start", frame' = [frame EXCEPT ![t] = f], call'[t] = Idle
      PROVE  Planned(t)'
  BY <1>3 DEF Planned
<1>4. ASSUME frame' = [frame EXCEPT ![t] = NoFrame] PROVE Planned(t)'
  BY <1>4 DEF Planned
<1>5. CASE Continue(t)
  <2>1. CASE lru_push_front(t) \/ lru_remove(t) \/ dealloc(t) \/ write(t) \/ pin(t) \/ unpin(t)
    BY <1>2, <2>1 DEF lru_push_front, lru_remove, dealloc, write, pin, unpin
  <2>2. CASE compact_region(t) \/ load_region(t)
    BY <1>2, <2>2 DEF compact_region, load_region
  <2>3. CASE spill_region(t)
    BY <1>2, <1>4, <2>3 DEF spill_region, Credit
  <2>4. CASE copy_lock(t) \/ copy_read(t) \/ copy_write(t)
    BY <1>2, <2>4 DEF copy_lock, copy_read, copy_write
  <2>5. CASE alloc(t)
    <3>1. call'[t] = Idle
      BY <1>1, <2>5 DEF alloc, Return, Goto
    <3>2. PICK f : f = [stage |-> "start", target |-> call[t].target, retry |-> call[t].r]
      OBVIOUS
    <3>3. frame' = [frame EXCEPT ![t] = f] \/ frame' = [frame EXCEPT ![t] = NoFrame]
      BY <2>5, <3>2 DEF alloc
    <3>4. f.stage = "start"
      BY <3>2
    <3> QED BY <1>3, <1>4, <3>1, <3>3, <3>4
  <2>6. CASE \/ list_regions(t) \/ demote_until_plan(t) \/ demote_until_next(t)
             \/ demote_until_return(t)
    BY <2>6 DEF list_regions, demote_until_plan, demote_until_next, demote_until_return, NoFrame
  <2> QED BY <1>5, <2>1, <2>2, <2>3, <2>4, <2>5, <2>6 DEF Continue
<1>6. CASE Invoke(t)
  <2>1. frame' = frame
    BY <1>6 DEF Invoke, copy_begin, entry_arc, destroy_region
  <2> QED BY <1>2, <2>1
<1>7. CASE \E p \in Policies : create_region(t, p)
  BY <1>2, <1>7 DEF create_region
<1>8. CASE \E target \in Targets : demote_until_begin(t, target)
  <2>1. PICK target \in Targets : demote_until_begin(t, target)
    BY <1>8
  <2>2. PICK f : f = [stage |-> "start", target |-> target, retry |-> -1]
    OBVIOUS
  <2>3. frame' = [frame EXCEPT ![t] = f] /\ call'[t] = Idle
    BY <2>1, <2>2 DEF demote_until_begin, Begin, Waiting
  <2>4. f.stage = "start"
    BY <2>2
  <2> QED BY <1>3, <2>3, <2>4
<1> QED BY <1>5, <1>6, <1>7, <1>8

(* The listing begins with every region still to be read.                  *)
LEMMA ListBegun ==
  ASSUME Inv, DOMAIN frame = Threads, NEW t \in Threads,
         frame[t].stage = "start", list_regions(t)
  PROVE  frame'[t].stage = "list" /\ Listing(t)'
<1>1. PICK f : f = [stage |-> "list", target |-> frame[t].target, retry |-> frame[t].retry,
                    todo |-> Ordered(present, <), metas |-> << >>]
  OBVIOUS
<1>2. /\ frame' = [frame EXCEPT ![t] = f] /\ call[t] = Idle
      /\ UNCHANGED <<entries, present, call>>
  BY <1>1 DEF list_regions, shared
<1>3. /\ frame'[t] = f /\ f.stage = "list" /\ f.todo = Ordered(present, <) /\ f.metas = << >>
      /\ DOMAIN f = {"stage", "target", "retry", "todo", "metas"}
  BY <1>1, <1>2
<1>4. f.todo \in Seq(present) /\ IsInjective(f.todo) /\ Range(f.todo) = present
  BY <1>3, PresentListed
<1>5. << >> \in Seq(Metas') /\ IsInjective(<< >>) /\ \A r : ~(MetaOf(r)' \in Range(<< >>))
  BY DEF IsInjective, Range
<1>6. Listing(t)'
  BY <1>2, <1>3, <1>4, <1>5 DEF Listing, Snapshot, Listed
<1> QED BY <1>3, <1>6

(* It reads one region after the other.                                    *)
LEMMA ListKept ==
  ASSUME Inv, DOMAIN frame = Threads, NEW t \in Threads,
         frame[t].stage = "list", Listing(t), list_regions(t)
  PROVE  frame'[t].stage = "list" /\ Listing(t)'
<1>1. PICK todo \in Seq(present), ms \in Seq(Metas) : todo = frame[t].todo /\ ms = frame[t].metas
  BY DEF Listing, Snapshot
<1>2. /\ IsInjective(todo) /\ IsInjective(ms) /\ call[t] = Idle
      /\ \A r \in present : r \in Range(todo) <=> MetaOf(r) \notin Range(ms)
  BY <1>1 DEF Listing, Snapshot, Listed
<1>3. PICK m : m = todo[1]
  OBVIOUS
<1>4. /\ todo # << >> /\ UNCHANGED <<entries, present, call>>
      /\ frame' = [frame EXCEPT ![t].todo = Tail(@), ![t].metas = Append(@, MetaOf(m))]
  BY <1>1, <1>3 DEF list_regions, shared, MetaOf
<1>5. /\ Tail(todo) \in Seq(present) /\ IsInjective(Tail(todo))
      /\ Range(Tail(todo)) = Range(todo) \ {m} /\ m \in Range(todo)
  BY <1>2, <1>3, <1>4, TailElements, TailOnce
<1>6. m \in present /\ MetaOf(m) \in Metas /\ MetaOf(m) \notin Range(ms)
  <2>1. m \in present
    BY <1>5 DEF Range
  <2> QED BY <1>2, <1>5, <2>1 DEF Metas
<1>7. /\ Append(ms, MetaOf(m)) \in Seq(Metas) /\ IsInjective(Append(ms, MetaOf(m)))
      /\ Range(Append(ms, MetaOf(m))) = Range(ms) \cup {MetaOf(m)}
  BY <1>2, <1>6, AppendElements, AppendOnce
<1>8. /\ frame'[t].stage = "list" /\ frame'[t].todo = Tail(todo)
      /\ frame'[t].metas = Append(ms, MetaOf(m)) /\ DOMAIN frame'[t] = DOMAIN frame[t]
      /\ DOMAIN frame[t] = {"stage", "target", "retry", "todo", "metas"}
  BY <1>1, <1>4 DEF Listing
<1>9. Metas' = Metas /\ \A r : MetaOf(r)' = MetaOf(r)
  BY <1>4 DEF Metas, MetaOf
<1>10. \A r \in present : r # m => MetaOf(r) # MetaOf(m)
  BY DEF MetaOf
<1>11. \A r \in present : r \in Range(Tail(todo)) <=> MetaOf(r) \notin Range(Append(ms, MetaOf(m)))
  BY <1>2, <1>5, <1>6, <1>7, <1>10
<1>12. Listing(t)'
  BY <1>2, <1>4, <1>5, <1>7, <1>8, <1>9, <1>11 DEF Listing, Snapshot, Listed
<1> QED BY <1>8, <1>12

(* The plan: Warm candidates, then Hot ones.                               *)
LEMMA PlanMade ==
  ASSUME Inv, DOMAIN frame = Threads, NEW t \in Threads,
         frame[t].stage = "list", Listing(t), demote_until_plan(t)
  PROVE  frame'[t].stage = "spill" /\ Spilling(t)'
<1>1. PICK ms \in Seq(Metas) : ms = frame[t].metas /\ Snapshot(ms) /\ call[t] = Idle
  BY DEF Listing, Snapshot
<1>2. \A r \in present : Listed(r, ms)
  <2>1. frame[t].todo = << >>
    BY DEF demote_until_plan
  <2>2. Range(<< >>) = {}
    BY DEF Range
  <2> QED BY <1>1, <2>1, <2>2 DEF Listing
<1>3. PICK a \in Seq(Metas) : /\ a = Candidates(ms, "Warm") /\ IsInjective(a)
        /\ Range(a) = {m \in Range(ms) : ~m.pinned /\ m.spillable /\ m.residency = "Warm"}
  BY <1>1, CandidatesElements
<1>4. PICK b \in Seq(Metas) : /\ b = Candidates(ms, "Hot") /\ IsInjective(b)
        /\ Range(b) = {m \in Range(ms) : ~m.pinned /\ m.spillable /\ m.residency = "Hot"}
  BY <1>1, CandidatesElements
<1>5. Range(a) \cap Range(b) = {}
  BY <1>3, <1>4
<1>6. PICK q \in Seq(Metas) :
        /\ q = a \o b /\ IsInjective(q) /\ Range(q) = Range(a) \cup Range(b)
        /\ \A i \in DOMAIN q : \/ q[i] \in Range(a) /\ i <= Len(a)
                               \/ q[i] \in Range(b) /\ i > Len(a)
  BY <1>3, <1>4, <1>5, ConcatOnce
<1>7. PICK f : f = [stage |-> "spill", target |-> frame[t].target, retry |-> frame[t].retry,
                    current |-> Total(ms), todo |-> q]
  OBVIOUS
<1>8. frame' = [frame EXCEPT ![t] = f] /\ UNCHANGED <<entries, present, call>>
  BY <1>1, <1>3, <1>4, <1>6, <1>7 DEF demote_until_plan, ColdestFirst, shared
<1>9. /\ frame'[t] = f /\ f.stage = "spill" /\ f.current = Total(ms) /\ f.todo = q
      /\ DOMAIN f = {"stage", "target", "retry", "current", "todo"}
  BY <1>7, <1>8
<1>10. Total(ms) = ResidentBytes
  BY <1>1, <1>2, PlanTotal
<1>11. Metas' = Metas /\ ResidentBytes' = ResidentBytes /\ \A r : MetaOf(r)' = MetaOf(r)
  BY <1>8 DEF Metas, MetaOf, ResidentBytes
<1>12. \A i \in DOMAIN q : q[i].residency \in {"Hot", "Warm"}
  BY <1>3, <1>4, <1>6
<1>13. ASSUME NEW i \in DOMAIN q, NEW j \in DOMAIN q, i < j, q[j].residency = "Warm"
       PROVE  q[i].residency = "Warm"
  <2>1. q[j] \in Range(a) /\ j <= Len(a)
    BY <1>4, <1>6, <1>13
  <2>2. i \in Nat /\ j \in Nat /\ Len(a) \in Nat
    BY <1>6
  <2>3. ~(i > Len(a))
    BY <1>13, <2>1, <2>2
  <2> QED BY <1>3, <1>6, <2>3
<1>14. ASSUME NEW r \in present, CanSpill(entries[r]), entries[r].residency = "Warm"
       PROVE  MetaOf(r) \in Range(q)
  <2>1. MetaOf(r) \in Range(ms)
    BY <1>2 DEF Listed
  <2>2. /\ ~MetaOf(r).pinned /\ MetaOf(r).spillable /\ MetaOf(r).residency = "Warm"
    BY <1>14 DEF MetaOf, CanSpill
  <2> QED BY <1>3, <1>6, <2>1, <2>2
<1>15. call'[t] = Idle /\ Idle.op # "spill"
  BY <1>1, <1>8 DEF Idle
<1>16. Snapshot(q)'
  BY <1>6, <1>11 DEF Snapshot
<1>17. ASSUME NEW r \in present', CanSpill(entries[r])', entries'[r].residency = "Warm"
       PROVE  Listed(r, q)'
  <2>1. r \in present /\ CanSpill(entries[r]) /\ entries[r].residency = "Warm"
    BY <1>8, <1>17 DEF CanSpill
  <2>2. MetaOf(r) \in Range(q)
    BY <1>14, <2>1
  <2> QED BY <1>11, <2>2 DEF Listed
<1>18. Spilling(t)'
  BY <1>9, <1>10, <1>11, <1>12, <1>13, <1>15, <1>16, <1>17 DEF Spilling
<1> QED BY <1>9, <1>18

(* The next candidate is spilled, or a call of its spill begins.           *)
LEMMA NextKept ==
  ASSUME Inv, DOMAIN frame = Threads, NEW t \in Threads,
         frame[t].stage = "spill", Spilling(t), demote_until_next(t)
  PROVE  frame'[t].stage = "spill" /\ Spilling(t)'
<1>1. PICK q \in Seq(Metas) : q = frame[t].todo /\ IsInjective(q)
  BY DEF Spilling, Snapshot
<1>2. /\ q # << >> /\ call[t] = Idle /\ UNCHANGED <<entries, present>>
      /\ frame' = [frame EXCEPT ![t].todo = Tail(q)]
      /\ frame[t].current > frame[t].target
  BY <1>1 DEF demote_until_next, shared
<1>3. PICK m \in Metas : m = q[1] /\ 1 \in DOMAIN q
  BY <1>1, <1>2
<1>4. /\ m.id \in present /\ m = MetaOf(m.id)
      /\ m.used = entries[m.id].used /\ m.residency = entries[m.id].residency
  BY <1>3, MetaFacts DEF MetaOf
<1>5. PICK c : c = [op |-> "spill", r |-> m.id, used |-> m.used]
  OBVIOUS
<1>6. call'[t] = c
  BY <1>1, <1>3, <1>4, <1>5 DEF demote_until_next, Inv, IInv, TypeInv
<1>7. PICK p \in Seq(Metas) : /\ p = Tail(q) /\ IsInjective(p) /\ Range(p) = Range(q) \ {m}
  BY <1>1, <1>2, <1>3, TailElements, TailOnce
<1>8. \A i \in DOMAIN p : i \in Int /\ i + 1 \in DOMAIN q /\ p[i] = q[i + 1] /\ i + 1 > 1
  BY <1>1, <1>2, <1>7
<1>9. /\ frame'[t].stage = "spill" /\ frame'[t].todo = p
      /\ frame'[t].current = frame[t].current /\ frame'[t].target = frame[t].target
      /\ DOMAIN frame'[t] = {"stage", "target", "retry", "current", "todo"}
  BY <1>2, <1>7 DEF Spilling
<1>10. Metas' = Metas /\ ResidentBytes' = ResidentBytes /\ \A r : MetaOf(r)' = MetaOf(r)
  BY <1>2 DEF Metas, MetaOf, ResidentBytes
<1>11. \A i \in DOMAIN q : q[i].residency \in {"Hot", "Warm"}
  BY <1>1 DEF Spilling
<1>12. \A i, j \in DOMAIN q : i < j /\ q[j].residency = "Warm" => q[i].residency = "Warm"
  BY <1>1 DEF Spilling
<1>13. \A i \in DOMAIN p : p[i].residency \in {"Hot", "Warm"}
  BY <1>8, <1>11
<1>14. ASSUME NEW i \in DOMAIN p, NEW j \in DOMAIN p, i < j, p[j].residency = "Warm"
       PROVE  p[i].residency = "Warm"
  <2>1. i + 1 < j + 1 /\ q[j + 1].residency = "Warm"
    BY <1>8, <1>14
  <2> QED BY <1>8, <1>12, <2>1
<1>15. ASSUME m.residency = "Hot", NEW i \in DOMAIN p PROVE p[i].residency = "Hot"
  <2>1. q[i + 1].residency # "Warm"
    BY <1>3, <1>8, <1>12, <1>15
  <2> QED BY <1>8, <1>11, <2>1
<1>16. MetaOf(m.id)' \notin Range(p)
  BY <1>4, <1>7, <1>10
<1>17. ASSUME NEW r \in present', CanSpill(entries[r])', entries'[r].residency = "Warm"
       PROVE  Listed(r, p)' \/ r = m.id
  <2>1. r \in present /\ CanSpill(entries[r]) /\ entries[r].residency = "Warm"
    BY <1>2, <1>17 DEF CanSpill
  <2>2. MetaOf(r) \in Range(q)
    BY <1>1, <1>2, <2>1 DEF Spilling, Listed, Idle
  <2> QED BY <1>4, <1>7, <1>10, <2>2 DEF Listed, MetaOf
<1>18. /\ frame[t].current = ResidentBytes /\ m.residency \in {"Hot", "Warm"}
  BY <1>1, <1>3, <1>11 DEF Spilling
<1>19. c.op = "spill" /\ c.r = m.id /\ c.used = entries'[m.id].used /\ m.id \in present'
  BY <1>2, <1>4, <1>5
<1>20. Snapshot(p)' /\ ~Listed(m.id, p)' /\ entries'[m.id].residency = m.residency
  BY <1>2, <1>4, <1>7, <1>10, <1>16 DEF Snapshot, Listed
<1>21. /\ c.op = "spill" /\ frame[t].current > frame[t].target
       /\ c.r \in present' /\ c.used = entries'[c.r].used /\ ~Listed(c.r, p)'
       /\ entries'[c.r].residency \in {"Hot", "Warm"}
       /\ entries'[c.r].residency = "Hot" => \A i \in DOMAIN p : p[i].residency = "Hot"
  BY <1>2, <1>15, <1>18, <1>19, <1>20
<1>22. \A r \in present' : CanSpill(entries[r])' /\ entries'[r].residency = "Warm" =>
         Listed(r, p)' \/ c.r = r
  BY <1>17, <1>19
<1>23. Spilling(t)'
  BY <1>6, <1>9, <1>10, <1>13, <1>14, <1>18, <1>20, <1>21, <1>22 DEF Spilling
<1> QED BY <1>9, <1>23

(* A spill takes the bytes of its region out of the plan's count; one that *)
(* is refused leaves everything as it is; one that fails ends the call.    *)
LEMMA SpillKept ==
  ASSUME Inv, DOMAIN frame = Threads, NEW t \in Threads,
         frame[t].stage = "spill", Spilling(t), spill_region(t)
  PROVE  frame'[t] = NoFrame \/ (frame'[t].stage = "spill" /\ Spilling(t)')
<1>1. PICK q \in Seq(Metas) : q = frame[t].todo /\ IsInjective(q)
  BY DEF Spilling, Snapshot
<1>2. call[t].op = "spill" /\ present' = present /\ frame[t] # NoFrame
  <2>1. call[t].op = "spill" /\ present' = present
    BY DEF spill_region, Running, Update
  <2>2. NoFrame.stage # "spill"
    BY DEF NoFrame
  <2> QED BY <2>1, <2>2
<1>3. PICK r \in present : r = call[t].r
  BY <1>2 DEF Spilling
<1>4. /\ frame[t].current = ResidentBytes /\ MetaOf(r) \notin Range(q)
      /\ call[t].used = entries[r].used /\ entries[r].residency \in {"Hot", "Warm"}
  BY <1>1, <1>2, <1>3 DEF Spilling, Listed
<1>5. /\ \A i \in DOMAIN q : q[i].residency \in {"Hot", "Warm"}
      /\ \A i, j \in DOMAIN q : i < j /\ q[j].residency = "Warm" => q[i].residency = "Warm"
  BY <1>1 DEF Spilling
<1>6. \A x \in present : CanSpill(entries[x]) /\ entries[x].residency = "Warm" =>
        MetaOf(x) \in Range(q) \/ x = r
  BY <1>1, <1>3 DEF Spilling, Listed
<1>7. entries \in [Ids -> Entry] /\ DOMAIN call = Threads /\ r \in Ids /\ present \subseteq Ids
  BY <1>2, <1>3, CalledEntry, PresentFinite DEF Inv, IInv, TypeInv
<1>8. CASE frame' = [frame EXCEPT ![t] = NoFrame]
  BY <1>8
<1>9. CASE CanSpill(entries[r]) /\ call' = [call EXCEPT ![t] = [op |-> "lru_remove", r |-> r]]
           /\ entries' = [entries EXCEPT ![r] = [entries[r] EXCEPT !.memory = NoMemory,
                                                                   !.residency = "Cold"]]
           /\ Credit(t)
  <2>1. PICK e : e = [entries[r] EXCEPT !.memory = NoMemory, !.residency = "Cold"]
    OBVIOUS
  <2>2. e.residency = "Cold" /\ entries' = [entries EXCEPT ![r] = e] /\ entries'[r] = e
    BY <1>7, <1>9, <2>1 DEF Entry
  <2>3. r \in Counted
    BY <1>4 DEF Counted
  <2>4. /\ ResidentBytes' \in Nat /\ entries[r].used \in Nat
        /\ ResidentBytes = entries[r].used + ResidentBytes'
    BY <1>2, <2>2, <2>3, SpilledBytes
  <2>5. frame' = [frame EXCEPT ![t].current =
                    IF ResidentBytes > entries[r].used THEN ResidentBytes - entries[r].used ELSE 0]
    BY <1>2, <1>4, <1>9 DEF Credit
  <2>6. (IF ResidentBytes > entries[r].used THEN ResidentBytes - entries[r].used ELSE 0)
          = ResidentBytes'
    BY <2>4
  <2>7. frame' = [frame EXCEPT ![t].current = ResidentBytes']
    BY <2>5, <2>6
  <2>8. /\ frame'[t].stage = "spill" /\ frame'[t].current = ResidentBytes' /\ frame'[t].todo = q
        /\ DOMAIN frame'[t] = {"stage", "target", "retry", "current", "todo"}
    BY <1>1, <2>7 DEF Spilling
  <2>9. \A x \in present \ {r} : entries'[x] = entries[x] /\ MetaOf(x)' = MetaOf(x)
    BY <1>7, <2>2 DEF MetaOf
  <2>10. ASSUME NEW i \in DOMAIN q PROVE q[i] \in Metas'
    <3>1. q[i] \in Metas
      BY <1>1
    <3>2. PICK x \in present : q[i] = MetaOf(x)
      BY <3>1 DEF Metas
    <3>3. x # r
      BY <1>4, <2>10, <3>2 DEF Range
    <3>4. q[i] = MetaOf(x)'
      BY <2>9, <3>2, <3>3
    <3> QED BY <1>2, <3>4 DEF Metas
  <2>11. Snapshot(q)'
    <3>1. q \in Seq(Metas')
      BY <1>1, <2>10
    <3> QED BY <1>1, <3>1 DEF Snapshot
  <2>12. ASSUME NEW x \in present', CanSpill(entries[x])', entries'[x].residency = "Warm"
         PROVE  Listed(x, q)'
    <3>1. x \in present /\ x # r
      BY <1>2, <2>2, <2>12
    <3>2. CanSpill(entries[x]) /\ entries[x].residency = "Warm"
      BY <2>9, <2>12, <3>1 DEF CanSpill
    <3>3. MetaOf(x) \in Range(q)
      BY <1>6, <3>1, <3>2
    <3> QED BY <2>9, <3>1, <3>3 DEF Listed
  <2>13. PICK c : c = [op |-> "lru_remove", r |-> r] /\ call'[t] = c
    BY <1>7, <1>9
  <2>14. c.op = "lru_remove"
    BY <2>13
  <2>15. Spilling(t)'
    BY <1>5, <2>8, <2>11, <2>12, <2>13, <2>14 DEF Spilling
  <2> QED BY <2>8, <2>15
<1>10. CASE ~CanSpill(entries[r]) /\ entries' = [entries EXCEPT ![r] = entries[r]]
            /\ call' = [call EXCEPT ![t] = Idle] /\ frame' = frame
  <2>1. entries' = entries /\ call'[t] = Idle /\ Idle.op # "spill"
    BY <1>7, <1>10 DEF Idle
  <2>2. Metas' = Metas /\ ResidentBytes' = ResidentBytes /\ \A x : MetaOf(x)' = MetaOf(x)
    BY <1>2, <2>1 DEF Metas, MetaOf, ResidentBytes
  <2>3. Snapshot(q)'
    BY <1>1, <2>2 DEF Snapshot
  <2>4. ASSUME NEW x \in present', CanSpill(entries[x])', entries'[x].residency = "Warm"
        PROVE  Listed(x, q)'
    <3>1. x \in present /\ CanSpill(entries[x]) /\ entries[x].residency = "Warm"
      BY <1>2, <2>1, <2>4 DEF CanSpill
    <3>2. MetaOf(x) \in Range(q)
      BY <1>6, <1>10, <3>1
    <3> QED BY <2>2, <3>2 DEF Listed
  <2>5. /\ frame'[t].stage = "spill" /\ frame'[t].todo = q /\ frame'[t].current = ResidentBytes'
        /\ DOMAIN frame'[t] = {"stage", "target", "retry", "current", "todo"}
    BY <1>1, <1>4, <1>10, <2>2 DEF Spilling
  <2>6. Spilling(t)'
    BY <1>5, <2>1, <2>3, <2>4, <2>5 DEF Spilling
  <2> QED BY <2>5, <2>6
<1>11. ~SpillNoop(entries[r])
  BY <1>4 DEF SpillNoop
<1> QED BY <1>3, <1>8, <1>9, <1>10, <1>11 DEF spill_region, Update, Goto, Return

(* The LRU list is no part of the plan.                                    *)
LEMMA LruKept ==
  ASSUME Inv, DOMAIN frame = Threads, NEW t \in Threads,
         frame[t].stage = "spill", Spilling(t), lru_remove(t)
  PROVE  frame'[t].stage = "spill" /\ Spilling(t)'
<1>1. /\ UNCHANGED <<entries, present, frame>> /\ call[t].op = "lru_remove"
      /\ call'[t] = Idle /\ Idle.op # "spill"
  BY DEF lru_remove, Running, Return, Goto, Idle, Inv, IInv, TypeInv
<1>2. Metas' = Metas /\ ResidentBytes' = ResidentBytes /\ \A x : MetaOf(x)' = MetaOf(x)
  BY <1>1 DEF Metas, MetaOf, ResidentBytes
<1>3. Snapshot(frame[t].todo)'
  BY <1>1, <1>2 DEF Spilling, Snapshot
<1>4. ASSUME NEW x \in present', CanSpill(entries[x])', entries'[x].residency = "Warm"
      PROVE  Listed(x, frame[t].todo)'
  <2>1. x \in present /\ CanSpill(entries[x]) /\ entries[x].residency = "Warm"
    BY <1>1, <1>4 DEF CanSpill
  <2>2. Listed(x, frame[t].todo)
    BY <1>1, <2>1 DEF Spilling
  <2> QED BY <1>1, <1>2, <2>2 DEF Listed
<1>5. /\ frame[t].current = ResidentBytes
      /\ DOMAIN frame[t] = {"stage", "target", "retry", "current", "todo"}
      /\ \A i \in DOMAIN frame[t].todo : frame[t].todo[i].residency \in {"Hot", "Warm"}
      /\ \A i, j \in DOMAIN frame[t].todo :
           i < j /\ frame[t].todo[j].residency = "Warm" => frame[t].todo[i].residency = "Warm"
  BY DEF Spilling
<1>6. Spilling(t)'
  BY <1>1, <1>2, <1>3, <1>4, <1>5 DEF Spilling
<1> QED BY <1>1, <1>6

(* What a thread can do next, by the call it is in.                        *)
LEMMA Continues ==
  ASSUME NEW t \in Threads, Continue(t)
  PROVE  /\ call[t] = Idle => \/ list_regions(t) \/ demote_until_plan(t)
                              \/ demote_until_next(t) \/ demote_until_return(t)
         /\ call[t] # Idle /\ call[t].op \in {"spill", "lru_remove"} =>
              spill_region(t) \/ lru_remove(t) \/ demote_until_plan(t)
<1>1. ASSUME \/ lru_push_front(t) \/ alloc(t) \/ dealloc(t) \/ write(t) \/ pin(t) \/ unpin(t)
             \/ compact_region(t) \/ load_region(t)
             \/ copy_lock(t) \/ copy_read(t) \/ copy_write(t)
      PROVE  call[t].op \notin {"idle", "spill", "lru_remove"}
  BY <1>1 DEF lru_push_front, alloc, dealloc, write, pin, unpin, compact_region, load_region,
     copy_lock, copy_read, copy_write, Update, Running
<1>2. ASSUME lru_remove(t) \/ spill_region(t) PROVE call[t].op \in {"spill", "lru_remove"}
  BY <1>2 DEF lru_remove, spill_region, Running
<1>3. ASSUME list_regions(t) \/ demote_until_next(t) \/ demote_until_return(t)
      PROVE  call[t] = Idle
  BY <1>3 DEF list_regions, demote_until_next, demote_until_return
<1>4. Idle.op = "idle"
  BY DEF Idle
<1> QED BY <1>1, <1>2, <1>3, <1>4 DEF Continue

(* A step of the thread that plans keeps the plan.                         *)
LEMMA PlanningStep ==
  ASSUME Inv, DOMAIN frame = Threads, NEW t \in Threads, Planned(t), frame[t] # NoFrame,
         Continue(t)
  PROVE  Planned(t)'
<1>1. CASE frame[t].stage = "start" /\ call[t] = Idle
  <2>1. list_regions(t)
    BY <1>1, Continues DEF demote_until_plan, demote_until_next, demote_until_return
  <2> QED BY <1>1, <2>1, ListBegun DEF Planned
<1>2. CASE frame[t].stage = "list" /\ Listing(t)
  <2>1. call[t] = Idle
    BY <1>2 DEF Listing
  <2>2. list_regions(t) \/ demote_until_plan(t)
    BY <1>2, <2>1, Continues DEF demote_until_next, demote_until_return
  <2> QED BY <1>2, <2>2, ListKept, PlanMade DEF Planned
<1>3. CASE frame[t].stage = "spill" /\ Spilling(t)
  <2>1. ~list_regions(t) /\ ~demote_until_plan(t)
    BY <1>3 DEF list_regions, demote_until_plan
  <2>2. \/ demote_until_next(t) \/ demote_until_return(t)
        \/ spill_region(t) \/ lru_remove(t)
    BY <1>3, <2>1, Continues DEF Spilling
  <2>3. demote_until_return(t) => frame'[t] = NoFrame
    BY DEF demote_until_return
  <2> QED BY <1>3, <2>2, <2>3, NextKept, SpillKept, LruKept DEF Planned
<1> QED BY <1>1, <1>2, <1>3 DEF Planned

(* A report is made by demote_until_return, and forgotten by a new call.   *)
LEMMA ReportStep ==
  ASSUME NEW t \in Threads, DOMAIN report = Threads,
         \/ Continue(t) \/ Invoke(t)
         \/ \E p \in Policies : create_region(t, p)
         \/ \E target \in Targets : demote_until_begin(t, target)
  PROVE  /\ DOMAIN report' = Threads
         /\ \A u \in Threads :
              report'[u] = report[u] \/ report'[u] = NoReport \/ (u = t /\ demote_until_return(t))
<1>1. ASSUME report' = report \/ report' = [report EXCEPT ![t] = NoReport]
      PROVE  /\ DOMAIN report' = Threads
             /\ \A u \in Threads : report'[u] = report[u] \/ report'[u] = NoReport
  BY <1>1
<1>2. CASE demote_until_return(t)
  BY <1>2 DEF demote_until_return
<1>3. CASE Continue(t) /\ ~demote_until_return(t)
  <2>1. report' = report
    BY <1>3 DEF Continue, lru_push_front, lru_remove, alloc, dealloc, write, pin, unpin,
       compact_region, load_region, spill_region, copy_lock, copy_read, copy_write, list_regions,
       demote_until_plan, demote_until_next, Update
  <2> QED BY <1>1, <2>1
<1>4. CASE Invoke(t)
  BY <1>1, <1>4 DEF Invoke, copy_begin, destroy_region, Begin
<1>5. CASE \E p \in Policies : create_region(t, p)
  BY <1>1, <1>5 DEF create_region, Begin
<1>6. CASE \E target \in Targets : demote_until_begin(t, target)
  BY <1>1, <1>6 DEF demote_until_begin, Begin
<1> QED BY <1>2, <1>3, <1>4, <1>5, <1>6

(* Every step keeps the plans of the threads nobody disturbs.              *)
LEMMA PlanNext ==
  ASSUME Inv, PlanInv, [Next]_vars
  PROVE  PlanInv'
<1>1. CASE UNCHANGED vars
  <2>1. UNCHANGED <<entries, present, frame, call, report, disturbed>>
    BY <1>1 DEF vars, shared
  <2>2. ASSUME NEW t \in Threads \ disturbed' PROVE Planned(t)'
    <3>1. t \in Threads /\ Planned(t)
      BY <2>1 DEF PlanInv
    <3> QED BY <2>1, <3>1, PlannedKept
  <2> QED BY <2>1, <2>2 DEF PlanInv
<1>2. CASE Next
  <2>1. PICK u \in Threads :
          /\ Meddle(u)
          /\ \/ Continue(u) \/ Invoke(u)
             \/ \E p \in Policies : create_region(u, p)
             \/ \E target \in Targets : demote_until_begin(u, target)
    BY <1>2 DEF Next, Step
  <2>2. DOMAIN frame = Threads
    BY DEF PlanInv
  <2>3. /\ DOMAIN frame' = Threads
        /\ \A t \in Threads \ {u} : frame'[t] = frame[t] /\ call'[t] = call[t]
    BY <2>1, <2>2, OthersWait
  <2>4. ASSUME NEW t \in Threads \ disturbed', t # u PROVE Planned(t)'
    <3>1. frame'[t] = frame[t] /\ call'[t] = call[t]
      BY <2>3, <2>4
    <3>2. CASE frame[t] = NoFrame
      BY <3>1, <3>2 DEF Planned
    <3>3. CASE frame[t] # NoFrame
      <4>1. t \notin disturbed /\ entries' = entries /\ present' = present
        BY <2>1, <2>4, <3>3 DEF Meddle
      <4> QED BY <3>1, <4>1, PlannedKept DEF PlanInv
    <3> QED BY <3>2, <3>3
  <2>5. ASSUME u \notin disturbed' PROVE Planned(u)'
    <3>1. CASE frame[u] = NoFrame
      BY <2>1, <2>2, <3>1, OutsidePlanned
    <3>2. CASE frame[u] # NoFrame
      <4>1. Planned(u)
        BY <2>1, <2>5, <3>2 DEF Meddle, PlanInv
      <4>2. Continue(u)
        BY <2>1, <3>2 DEF Invoke, create_region, demote_until_begin, copy_begin, destroy_region,
           Begin, Waiting
      <4> QED BY <2>2, <3>2, <4>1, <4>2, PlanningStep
    <3> QED BY <3>1, <3>2
  <2>6. DOMAIN report' = Threads
    BY <2>1, ReportStep DEF PlanInv
  <2> QED BY <2>3, <2>4, <2>5, <2>6 DEF PlanInv
<1> QED BY <1>1, <1>2

(* An undisturbed demote_until always works on what is the case.           *)
LEMMA PlanInvariance == Spec => [](Inv /\ PlanInv)
<1>1. Init => Inv /\ PlanInv
  BY InitInv DEF Init, PlanInv, Planned
<1>2. (Inv /\ PlanInv) /\ [Next]_vars => (Inv /\ PlanInv)'
  BY NextInv, PlanNext
<1> QED BY <1>1, <1>2, PTL DEF Spec

-----------------------------------------------------------------------------
(* The theorems about demote_until *)

(* What demote_until is told of the bytes left is the truth, as long as no *)
(* other thread has meddled.                                               *)
THEOREM ReportsExact == Spec => ReportExact
<1> DEFINE A == \A t \in Threads \ disturbed :
                  report'[t] # report[t] /\ report'[t] # NoReport =>
                    (report'[t].target_met <=> ResidentBytes <= report'[t].target)
<1>1. (Inv /\ PlanInv) /\ [Next]_vars => [A]_vars
  <2> SUFFICES ASSUME PlanInv, Next, NEW t \in Threads \ disturbed,
                      report'[t] # report[t], report'[t] # NoReport
               PROVE  report'[t].target_met <=> ResidentBytes <= report'[t].target
    OBVIOUS
  <2>1. PICK u \in Threads : \/ Continue(u) \/ Invoke(u)
                             \/ \E p \in Policies : create_region(u, p)
                             \/ \E target \in Targets : demote_until_begin(u, target)
    BY DEF Next, Step
  <2>2. demote_until_return(t) /\ DOMAIN report = Threads
    BY <2>1, ReportStep DEF PlanInv
  <2>3. frame[t].stage = "spill" /\ frame[t].stage # NoFrame.stage
    BY <2>2 DEF demote_until_return, NoFrame
  <2>4. Spilling(t)
    BY <2>3 DEF PlanInv, Planned
  <2>5. PICK f : f = frame[t] /\ f.current = ResidentBytes
    BY <2>4 DEF Spilling
  <2>6. PICK x : x = [target_met |-> f.current <= f.target, target |-> f.target]
    OBVIOUS
  <2>7. report'[t] = x
    BY <2>2, <2>5, <2>6 DEF demote_until_return
  <2>8. x.target_met = (f.current <= f.target) /\ x.target = f.target
    BY <2>6
  <2> QED BY <2>5, <2>7, <2>8
<1> QED BY <1>1, PlanInvariance, PTL DEF Spec, ReportExact

(* As long as no other thread has meddled, demote_until spills only while  *)
(* the target is exceeded, and Hot regions only when no Warm one is left.  *)
THEOREM SpillsAsNeeded == Spec => NoNeedlessSpill
<1> DEFINE A == \A t \in Threads \ disturbed :
                  frame[t].stage = "spill" /\ Running(t, "spill") /\ Running(t, "lru_remove")' =>
                    /\ ResidentBytes > frame[t].target
                    /\ entries[call[t].r].residency = "Hot" =>
                         \A r \in present : CanSpill(entries[r]) => entries[r].residency = "Hot"
<1>1. (Inv /\ PlanInv) /\ [Next]_vars => [A]_vars
  <2> SUFFICES ASSUME Inv, PlanInv, NEW t \in Threads \ disturbed,
                      frame[t].stage = "spill", call[t].op = "spill"
               PROVE  /\ ResidentBytes > frame[t].target
                      /\ entries[call[t].r].residency = "Hot" =>
                           \A r \in present : CanSpill(entries[r]) => entries[r].residency = "Hot"
    BY DEF Running
  <2>1. Spilling(t)
    BY DEF PlanInv, Planned, NoFrame
  <2>2. ResidentBytes > frame[t].target
    BY <2>1 DEF Spilling
  <2>3. ASSUME entries[call[t].r].residency = "Hot",
               NEW r \in present, CanSpill(entries[r]), entries[r].residency # "Hot"
        PROVE  FALSE
    <3>1. entries[r].residency = "Warm"
      BY <2>3, PresentFinite DEF CanSpill, Entry
    <3>2. Listed(r, frame[t].todo)
      BY <2>1, <2>3, <3>1 DEF Spilling
    <3>3. PICK i \in DOMAIN frame[t].todo : frame[t].todo[i] = MetaOf(r)
      BY <3>2 DEF Listed, Range
    <3>4. frame[t].todo[i].residency = "Hot"
      BY <2>1, <2>3, <3>3 DEF Spilling
    <3> QED BY <3>1, <3>3, <3>4 DEF MetaOf
  <2> QED BY <2>2, <2>3
<1> QED BY <1>1, PlanInvariance, PTL DEF Spec, NoNeedlessSpill

=============================================================================
