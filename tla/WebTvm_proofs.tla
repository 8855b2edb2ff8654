---------------------------- MODULE WebTvm_proofs ----------------------------
(***************************************************************************)
(* Proofs about WebTvm, for any pools, regions, budgets and calls.         *)
(*                                                                         *)
(* SpansTile is proved byte by byte: Tiled says that a byte is busy, below *)
(* the bump mark and in no free span, exactly if one resident region, and  *)
(* only one, holds it.                                                     *)
(*                                                                         *)
(* WebBytesSurvive speaks of memory, spills on their way and files.  That  *)
(* a load reads what the last spill wrote needs the order of requests:     *)
(* spills of a region are queued before its loads (Channel), none is left  *)
(* once a load has its file open (SpillsFirst), and a region that is being *)
(* loaded stays Cold, so that nobody writes it and no spill of it is       *)
(* posted, until its one promote has read the answer (CallsMatched).       *)
(***************************************************************************)
EXTENDS WebTvm, TvmLemmas

-----------------------------------------------------------------------------
(* The spans of a pool *)

Spans == [offset : Nat, size : Nat \ {0}]
End(span) == span.offset + span.size
Within(o, z, x) == o <= x /\ x < o + z

(* A list of spans in order, no two of which touch.                        *)
Separated(free) ==
  /\ free \in Seq(Spans)
  /\ \A i, j \in DOMAIN free : i < j => End(free[i]) < free[j].offset

(* Byte x is in a span of the list.                                        *)
Free(free, x) == \E i \in DOMAIN free : Within(free[i].offset, free[i].size, x)

PoolOK(pool) ==
  /\ pool \in [used : Nat, free : Seq(Spans)]
  /\ pool.used <= PoolCapacity
  /\ Separated(pool.free)
  /\ \A i \in DOMAIN pool.free : End(pool.free[i]) < pool.used

(* Byte x of the pool belongs to a region.                                 *)
Busy(pool, x) == x < pool.used /\ ~Free(pool.free, x)

(* The fold of freeSpan.                                                   *)
Merges(f, S) ==
  f = [s \in SUBSET S |-> IF s = {} THEN << >> ELSE Merge(Highest(s), f[s \ {Highest(s)}])]

(* A nonempty finite set of spans has one with the greatest offset.        *)
LEMMA HighestProperties ==
  ASSUME NEW S \in SUBSET Spans, IsFiniteSet(S), S # {}
  PROVE  Highest(S) \in S /\ \A q \in S : q.offset <= Highest(S).offset
<1> DEFINE F == {s \in SUBSET S : s = {} \/ \E top \in s : \A q \in s : q.offset <= top.offset}
<1>1. {} \in F
  OBVIOUS
<1>2. ASSUME NEW s \in SUBSET S, s # {}, \A x \in s : s \ {x} \in F PROVE s \in F
  <2>1. PICK x \in s : TRUE
    BY <1>2
  <2>2. \A q \in s : q.offset \in Nat
    BY DEF Spans
  <2>3. CASE s = {x}
    BY <2>2, <2>3
  <2>4. CASE s # {x}
    <3>1. PICK top \in s : \A q \in s \ {x} : q.offset <= top.offset
      <4>1. s \ {x} \in F /\ s \ {x} # {}
        BY <1>2, <2>1, <2>4
      <4> QED BY <4>1
    <3>2. CASE x.offset <= top.offset
      BY <3>1, <3>2
    <3>3. CASE ~(x.offset <= top.offset)
      <4>1. \A q \in s : q.offset <= x.offset
        BY <2>1, <2>2, <3>1, <3>3
      <4> QED BY <2>1, <4>1
    <3> QED BY <3>2, <3>3
  <2> QED BY <2>3, <2>4
<1> HIDE DEF F
<1>3. S \in F
  BY <1>1, <1>2, SubsetsIn
<1>4. \E top \in S : \A q \in S : q.offset <= top.offset
  BY <1>3 DEF F
<1> QED BY <1>4 DEF Highest

(* The recursive function behind the fold exists.                          *)
LEMMA MergesExist ==
  ASSUME NEW S \in SUBSET Spans, IsFiniteSet(S)
  PROVE  \E f : Merges(f, S)
<1> DEFINE D(n) == {s \in SUBSET S : Cardinality(s) <= n}
           G(f, n) == [s \in D(n) |-> IF s = {} THEN << >> ELSE Merge(Highest(s), f[s \ {Highest(s)}])]
           A == {n \in Nat : \E f : f = G(f, n)}
<1>1. \A s \in SUBSET S : IsFiniteSet(s) /\ Cardinality(s) \in Nat /\ Cardinality(s) <= Cardinality(S)
  BY FS_Subset, FS_CardinalityType
<1>2. \A s \in SUBSET S : s # {} => /\ s \ {Highest(s)} \in SUBSET S
                                   /\ Cardinality(s \ {Highest(s)}) = Cardinality(s) - 1
  <2> TAKE s \in SUBSET S
  <2> HAVE s # {}
  <2>1. Highest(s) \in s
    BY <1>1, HighestProperties
  <2> QED BY <1>1, <2>1, FS_RemoveElement
<1>3. 0 \in A
  <2>1. D(0) = {{}}
    BY <1>1, FS_EmptySet
  <2>2. [s \in D(0) |-> << >>] = G([s \in D(0) |-> << >>], 0)
    BY <2>1
  <2> QED BY <2>2
<1>4. ASSUME NEW n \in Nat, n \in A PROVE n + 1 \in A
  <2>1. PICK f : f = G(f, n)
    BY <1>4
  <2>2. PICK g : g = G(f, n + 1)
    OBVIOUS
  <2>3. ASSUME NEW s \in D(n) PROVE s \in D(n + 1) /\ g[s] = f[s]
    <3>1. s \in D(n + 1)
      BY <1>1
    <3> QED BY <2>1, <2>2, <3>1
  <2>4. ASSUME NEW s \in D(n + 1), s # {} PROVE g[s] = Merge(Highest(s), g[s \ {Highest(s)}])
    <3>1. s \ {Highest(s)} \in D(n)
      BY <1>1, <1>2, <2>4
    <3>2. g[s] = Merge(Highest(s), f[s \ {Highest(s)}])
      BY <2>2, <2>4
    <3> QED BY <2>3, <3>1, <3>2
  <2>5. ASSUME NEW s \in D(n + 1), s = {} PROVE g[s] = << >>
    BY <2>2, <2>5
  <2>6. g = G(g, n + 1)
    <3>1. g = [s \in D(n + 1) |-> g[s]]
      BY <2>2
    <3> QED BY <2>4, <2>5, <3>1
  <2>7. \E h : h = G(h, n + 1)
    BY <2>6
  <2> HIDE DEF G
  <2> QED BY <2>7
<1> HIDE DEF A
<1>5. Cardinality(S) \in Nat /\ Cardinality(S) \in A
  BY <1>1, <1>3, <1>4, NaturalsIn
<1>6. PICK f : f = G(f, Cardinality(S))
  BY <1>5 DEF A
<1>7. D(Cardinality(S)) = SUBSET S
  BY <1>1
<1> QED BY <1>6, <1>7 DEF Merges

(* The fold of freeSpan is a value of that function.                       *)
LEMMA MergedIs ==
  ASSUME NEW S \in SUBSET Spans, IsFiniteSet(S)
  PROVE  \E f : /\ Merges(f, S)
                /\ MapThenFoldSet(Merge, << >>, LAMBDA span : span, Highest, S) = f[S]
<1> DEFINE f == CHOOSE g : Merges(g, S)
<1>1. Merges(f, S)
  BY MergesExist
<1>2. MapThenFoldSet(Merge, << >>, LAMBDA span : span, Highest, S) = f[S]
  BY DEF MapThenFoldSet, Merges
<1> QED BY <1>1, <1>2

(* A span that starts at or behind the end of the last one joins the list. *)
LEMMA MergeOne ==
  ASSUME NEW m, Separated(m), NEW q \in Spans, m # << >> => End(Last(m)) <= q.offset
  PROVE  /\ Separated(Merge(q, m)) /\ Merge(q, m) # << >>
         /\ End(Last(Merge(q, m))) = End(q)
         /\ \A x \in Nat : Free(Merge(q, m), x) <=> Free(m, x) \/ Within(q.offset, q.size, x)
<1>1. /\ m \in Seq(Spans) /\ Len(m) \in Nat /\ DOMAIN m = 1..Len(m)
      /\ \A i \in DOMAIN m : m[i] \in Spans
  BY DEF Separated
<1>2. \A i \in DOMAIN m : m[i].offset \in Nat /\ m[i].size \in Nat \ {0} /\ End(m[i]) \in Nat
                          /\ m[i].offset < End(m[i])
  BY <1>1 DEF Spans, End
<1>3. q.offset \in Nat /\ q.size \in Nat \ {0} /\ End(q) \in Nat
  BY DEF Spans, End
<1>4. \A i, j \in DOMAIN m : i < j => End(m[i]) < m[j].offset
  BY DEF Separated
<1>5. m # << >> => Len(m) \in DOMAIN m /\ Last(m) = m[Len(m)]
  BY <1>1 DEF Last
<1>6. CASE m # << >> /\ End(Last(m)) = q.offset
  <2>1. PICK n \in DOMAIN m : n = Len(m) /\ n \in Nat /\ Last(m) = m[n]
    BY <1>1, <1>5, <1>6
  <2>2. PICK l \in Spans : l = [m[n] EXCEPT !.size = m[n].size + q.size]
                           /\ l.offset = m[n].offset /\ l.size = m[n].size + q.size
    <3>1. m[n] \in Spans
      BY <1>1
    <3>2. PICK l : l = [m[n] EXCEPT !.size = m[n].size + q.size]
      OBVIOUS
    <3>3. l \in Spans /\ l.offset = m[n].offset /\ l.size = m[n].size + q.size
      BY <1>3, <3>1, <3>2 DEF Spans
    <3> QED BY <3>2, <3>3
  <2>3. PICK g : g = [m EXCEPT ![n] = l]
    OBVIOUS
  <2>4. Merge(q, m) = g
    <3>1. Last(m).offset + Last(m).size = q.offset
      BY <1>6 DEF End
    <3>2. Merge(q, m) = [m EXCEPT ![Len(m)].size = m[Len(m)].size + q.size]
      BY <1>6, <3>1 DEF Merge
    <3> QED BY <2>1, <2>2, <2>3, <3>2
  <2>5. g \in Seq(Spans) /\ Len(g) = n /\ DOMAIN g = DOMAIN m /\ g[n] = l
        /\ \A i \in DOMAIN m : i # n => g[i] = m[i]
    BY <1>1, <2>1, <2>2, <2>3
  <2>6. End(l) = End(q) /\ End(m[n]) = q.offset
    BY <1>2, <1>3, <1>6, <2>1, <2>2 DEF End
  <2>7. ASSUME NEW i \in DOMAIN g, NEW j \in DOMAIN g, i < j PROVE End(g[i]) < g[j].offset
    <3>1. i \in Nat /\ j \in Nat /\ j <= n
      BY <1>1, <2>1, <2>5
    <3>2. i # n
      BY <2>7, <2>1, <3>1
    <3>3. End(m[i]) < m[j].offset /\ g[i] = m[i]
      BY <1>4, <2>5, <2>7, <3>2
    <3>4. g[j].offset = m[j].offset
      BY <2>2, <2>5
    <3> QED BY <3>3, <3>4
  <2>8. Separated(g)
    BY <2>5, <2>7 DEF Separated
  <2>9. g # << >> /\ Last(g) = l
    BY <2>1, <2>5 DEF Last
  <2>10. ASSUME NEW x \in Nat PROVE Free(g, x) <=> Free(m, x) \/ Within(q.offset, q.size, x)
    <3>1. Within(l.offset, l.size, x) <=> Within(m[n].offset, m[n].size, x) \/ Within(q.offset, q.size, x)
      <4>1. m[n].offset \in Nat /\ m[n].size \in Nat \ {0} /\ m[n].offset + m[n].size = q.offset
        BY <1>2, <2>6 DEF End
      <4> QED BY <1>3, <2>2, <4>1 DEF Within
    <3>2. ASSUME Free(g, x) PROVE Free(m, x) \/ Within(q.offset, q.size, x)
      BY <2>5, <3>1, <3>2 DEF Free
    <3>3. ASSUME Free(m, x) PROVE Free(g, x)
      BY <2>5, <3>1, <3>3 DEF Free
    <3>4. ASSUME Within(q.offset, q.size, x) PROVE Free(g, x)
      BY <2>5, <3>1, <3>4 DEF Free
    <3> QED BY <3>2, <3>3, <3>4
  <2> QED BY <2>4, <2>6, <2>8, <2>9, <2>10
<1>7. CASE ~(m # << >> /\ End(Last(m)) = q.offset)
  <2>1. PICK g : g = Append(m, q)
    OBVIOUS
  <2>2. Merge(q, m) = g
    BY <1>7, <2>1 DEF Merge, End
  <2>3. /\ g \in Seq(Spans) /\ Len(g) = Len(m) + 1 /\ DOMAIN g = 1..(Len(m) + 1)
        /\ g[Len(m) + 1] = q /\ \A i \in DOMAIN m : g[i] = m[i]
    BY <1>1, <2>1
  <2>4. ASSUME NEW i \in DOMAIN m PROVE End(m[i]) < q.offset
    <3>1. PICK n \in DOMAIN m : n = Len(m) /\ Last(m) = m[n]
      BY <1>1, <1>5, <2>4
    <3>2. m # << >>
      BY <3>1
    <3>3. End(m[n]) < q.offset
      BY <1>2, <1>3, <1>7, <3>1, <3>2
    <3>4. i = n \/ i < n
      BY <1>1, <3>1
    <3>5. CASE i < n
      <4>1. End(m[i]) < m[n].offset /\ m[n].offset < End(m[n])
        BY <1>2, <1>4, <3>5
      <4> QED BY <1>2, <1>3, <3>3, <4>1
    <3> QED BY <3>3, <3>4, <3>5
  <2>5. ASSUME NEW i \in DOMAIN g, NEW j \in DOMAIN g, i < j PROVE End(g[i]) < g[j].offset
    <3>1. i \in DOMAIN m
      BY <1>1, <2>3, <2>5
    <3>2. CASE j = Len(m) + 1
      BY <2>3, <2>4, <3>1, <3>2
    <3>3. CASE j # Len(m) + 1
      <4>1. j \in DOMAIN m
        BY <1>1, <2>3, <3>3
      <4> QED BY <1>4, <2>3, <2>5, <3>1, <4>1
    <3> QED BY <3>2, <3>3
  <2>6. Separated(g)
    BY <2>3, <2>5 DEF Separated
  <2>7. g # << >> /\ Last(g) = q
    BY <1>1, <2>3 DEF Last
  <2>8. ASSUME NEW x \in Nat PROVE Free(g, x) <=> Free(m, x) \/ Within(q.offset, q.size, x)
    <3>1. ASSUME NEW i \in DOMAIN g PROVE i \in DOMAIN m \/ i = Len(m) + 1
      BY <1>1, <2>3
    <3>2. DOMAIN m \subseteq DOMAIN g /\ Len(m) + 1 \in DOMAIN g
      BY <1>1, <2>3
    <3>3. ASSUME Free(g, x) PROVE Free(m, x) \/ Within(q.offset, q.size, x)
      BY <2>3, <3>1, <3>3 DEF Free
    <3>4. ASSUME Free(m, x) PROVE Free(g, x)
      BY <2>3, <3>2, <3>4 DEF Free
    <3>5. ASSUME Within(q.offset, q.size, x) PROVE Free(g, x)
      BY <2>3, <3>2, <3>5 DEF Free
    <3> QED BY <3>3, <3>4, <3>5
  <2> QED BY <2>2, <2>6, <2>7, <2>8
<1> QED BY <1>6, <1>7

(* Spans of which no two overlap.                                          *)
Disjoint(S) == \A p, q \in S : p = q \/ End(p) <= q.offset \/ End(q) <= p.offset

(* Folded in order of offset, they become a separated list of the same     *)
(* bytes, which ends where one of them ends.                               *)
LEMMA MergeAll ==
  ASSUME NEW S \in SUBSET Spans, IsFiniteSet(S), S # {}, Disjoint(S), NEW m,
         m = MapThenFoldSet(Merge, << >>, LAMBDA span : span, Highest, S)
  PROVE  /\ Separated(m) /\ m # << >>
         /\ \E q \in S : End(Last(m)) = End(q)
         /\ \A x \in Nat : Free(m, x) <=> \E q \in S : Within(q.offset, q.size, x)
<1>1. PICK f : Merges(f, S) /\ m = f[S]
  BY MergedIs
<1> DEFINE Good(g, t) ==
             /\ Separated(g)
             /\ t = {} => g = << >>
             /\ t # {} => g # << >> /\ \E q \in t : End(Last(g)) = End(q)
             /\ \A x \in Nat : Free(g, x) <=> \E q \in t : Within(q.offset, q.size, x)
           F == {t \in SUBSET S : Good(f[t], t)}
<1>2. {} \in F
  <2>1. f[{}] = << >>
    BY <1>1 DEF Merges
  <2>2. << >> \in Seq(Spans) /\ DOMAIN << >> = {}
    OBVIOUS
  <2>3. Separated(<< >>) /\ \A x \in Nat : ~Free(<< >>, x)
    BY <2>2 DEF Separated, Free
  <2> QED BY <2>1, <2>3
<1>3. ASSUME NEW t \in SUBSET S, t # {}, \A q \in t : t \ {q} \in F
      PROVE  t \in F
  <2>1. PICK M \in t : M = Highest(t) /\ \A q \in t : q.offset <= M.offset
    <3>1. IsFiniteSet(t)
      BY FS_Subset
    <3> QED BY <1>3, <3>1, HighestProperties
  <2>2. PICK old : old = f[t \ {M}]
    OBVIOUS
  <2>3. Good(old, t \ {M})
    BY <1>3, <2>2
  <2>4. f[t] = Merge(M, old)
    BY <1>1, <1>3, <2>1, <2>2 DEF Merges
  <2>5. M \in Spans /\ \A q \in t : q \in Spans /\ q.offset \in Nat /\ End(q) \in Nat /\ q.offset < End(q)
    BY DEF Spans, End
  <2>6. old # << >> => End(Last(old)) <= M.offset
    <3>1. ASSUME old # << >> PROVE End(Last(old)) <= M.offset
      <4>1. PICK q \in t \ {M} : End(Last(old)) = End(q)
        BY <2>3, <3>1
      <4>2. End(q) <= M.offset \/ End(M) <= q.offset
        BY <4>1 DEF Disjoint
      <4>3. q.offset <= M.offset
        BY <2>1, <4>1
      <4> QED BY <2>5, <4>1, <4>2, <4>3
    <3> QED BY <3>1
  <2>7. /\ Separated(f[t]) /\ f[t] # << >>
        /\ End(Last(f[t])) = End(M)
        /\ \A x \in Nat : Free(f[t], x) <=> Free(old, x) \/ Within(M.offset, M.size, x)
    BY <2>3, <2>4, <2>5, <2>6, MergeOne
  <2>8. \A x \in Nat : Free(f[t], x) <=> \E q \in t : Within(q.offset, q.size, x)
    BY <2>3, <2>7
  <2> QED BY <1>3, <2>7, <2>8
<1> HIDE DEF F
<1>4. S \in F
  BY <1>2, <1>3, SubsetsIn
<1> QED BY <1>1, <1>4 DEF F

(* What is known of the spans of a pool.                                   *)
LEMMA SpanFacts ==
  ASSUME NEW free, Separated(free)
  PROVE  /\ free \in Seq(Spans) /\ Len(free) \in Nat /\ DOMAIN free = 1..Len(free)
         /\ \A i \in DOMAIN free :
              /\ i \in Nat /\ free[i] \in Spans /\ free[i].offset \in Nat
              /\ free[i].size \in Nat \ {0} /\ End(free[i]) \in Nat
              /\ End(free[i]) = free[i].offset + free[i].size
              /\ free[i].offset < End(free[i])
         /\ \A i, j \in DOMAIN free : i < j => End(free[i]) < free[j].offset
<1>1. free \in Seq(Spans) /\ Len(free) \in Nat /\ DOMAIN free = 1..Len(free)
  BY DEF Separated
<1>2. \A i \in DOMAIN free : i \in Nat /\ free[i] \in Spans
  BY <1>1
<1>3. \A i \in DOMAIN free : /\ free[i].offset \in Nat /\ free[i].size \in Nat \ {0}
                             /\ End(free[i]) \in Nat /\ free[i].offset < End(free[i])
  BY <1>2 DEF Spans, End
<1> QED BY <1>1, <1>2, <1>3 DEF Separated, End

(* A new free list, or a new bump mark, in a pool.                         *)
LEMMA PoolUpdated ==
  ASSUME NEW u, NEW f, NEW v
  PROVE  /\ [[used |-> u, free |-> f] EXCEPT !.free = v] = [used |-> u, free |-> v]
         /\ [[used |-> u, free |-> f] EXCEPT !.used = v] = [used |-> v, free |-> f]
OBVIOUS

(* What is left of a span when its front is taken.                         *)
LEMMA WithinRest ==
  ASSUME NEW o \in Nat, NEW z \in Nat, NEW c \in Nat, c <= z, NEW x \in Nat
  PROVE  Within(o + c, z - c, x) <=> Within(o, z, x) /\ ~Within(o, c, x)
BY DEF Within

(* A pool gives up a span that no region holds, and nothing else of it     *)
(* becomes busy: first from a free span, then from behind the bump mark.   *)
LEMMA SpanAllocated ==
  ASSUME NEW pool, PoolOK(pool), NEW c \in Nat \ {0}, NEW res, res = allocateFromPool(pool, c),
         res.at >= 0
  PROVE  /\ res.at \in Nat /\ PoolOK(res.pool)
         /\ \A x \in Nat : Within(res.at, c, x) => ~Busy(pool, x)
         /\ \A x \in Nat : Busy(res.pool, x) <=> Busy(pool, x) \/ Within(res.at, c, x)
<1>0. PoolCapacity \in Nat
  BY WebAssumption
<1>1. PICK free \in Seq(Spans), used \in Nat :
        /\ free = pool.free /\ used = pool.used
        /\ Separated(free) /\ used <= PoolCapacity
        /\ \A i \in DOMAIN free : End(free[i]) < used
        /\ pool = [used |-> used, free |-> free]
  <2>1. pool.free \in Seq(Spans) /\ pool.used \in Nat
        /\ pool = [used |-> pool.used, free |-> pool.free]
    BY DEF PoolOK
  <2> QED BY <2>1 DEF PoolOK
<1>2. /\ free \in Seq(Spans) /\ Len(free) \in Nat /\ DOMAIN free = 1..Len(free)
      /\ \A i \in DOMAIN free :
           /\ i \in Nat /\ free[i] \in Spans /\ free[i].offset \in Nat
           /\ free[i].size \in Nat \ {0} /\ End(free[i]) \in Nat
           /\ End(free[i]) = free[i].offset + free[i].size
           /\ free[i].offset < End(free[i])
      /\ \A i, j \in DOMAIN free : i < j => End(free[i]) < free[j].offset
  BY <1>1, SpanFacts
<1>3. PICK n : n = SelectInSeq(free, LAMBDA span : span.size >= c)
  OBVIOUS
<1>4. n # 0 => n \in DOMAIN free /\ free[n].size >= c
  <2> DEFINE I == {i \in 1..Len(free) : free[i].size >= c}
  <2>1. n = IF I # {} THEN Min(I) ELSE 0
    BY <1>3 DEF SelectInSeq
  <2>2. I # {} => Min(I) \in I
    <3>1. I \in SUBSET Nat
      BY <1>2
    <3> QED BY <3>1, MinProperties
  <2> QED BY <1>2, <2>1, <2>2
<1>5. CASE n # 0
  <2>1. PICK o \in Nat, z \in Nat \ {0} : o = free[n].offset /\ z = free[n].size /\ z >= c
    BY <1>2, <1>4, <1>5
  <2>2. res = [at |-> o, pool |-> [pool EXCEPT !.free = SpanTaken(pool, n, c)]]
    BY <1>1, <1>3, <1>5, <2>1 DEF allocateFromPool
  <2>3. n \in DOMAIN free /\ n \in Nat /\ End(free[n]) = o + z
    BY <1>2, <1>4, <1>5, <2>1
  <2>4. PICK g : g = SpanTaken(pool, n, c)
    OBVIOUS
  <2>5. res.at = o /\ res.pool = [used |-> used, free |-> g]
    <3>1. [pool EXCEPT !.free = g] = [used |-> used, free |-> g]
      BY <1>1, PoolUpdated
    <3>2. res = [at |-> o, pool |-> [used |-> used, free |-> g]]
      BY <2>2, <2>4, <3>1
    <3> QED BY <3>2
  <2>6. \A x \in Nat : Within(o, c, x) => Within(free[n].offset, free[n].size, x)
    BY <2>1 DEF Within
  <2>7. \A x \in Nat : Within(o, c, x) => Free(free, x) /\ x < used
    <3> SUFFICES ASSUME NEW x \in Nat, Within(o, c, x) PROVE Free(free, x) /\ x < used
      OBVIOUS
    <3>1. Within(free[n].offset, free[n].size, x)
      BY <2>6
    <3>2. o + z < used
      BY <1>1, <2>3
    <3> QED BY <2>1, <2>3, <3>1, <3>2 DEF Free, Within
  <2>8. ASSUME NEW x \in Nat, NEW i \in DOMAIN free, i # n, Within(free[i].offset, free[i].size, x)
        PROVE  ~Within(free[n].offset, free[n].size, x)
    <3>1. i < n \/ n < i
      BY <1>2, <2>3, <2>8
    <3>2. End(free[i]) < free[n].offset \/ End(free[n]) < free[i].offset
      BY <1>2, <2>3, <3>1
    <3> QED BY <1>2, <2>3, <2>8, <3>2 DEF Within
  <2>9. /\ Separated(g) /\ \A i \in DOMAIN g : End(g[i]) < used
        /\ \A x \in Nat : Free(g, x) <=> Free(free, x) /\ ~Within(o, c, x)
    <3>1. CASE z = c
      <4>1. g = RemoveAt(free, n)
        BY <1>1, <2>1, <2>4, <3>1 DEF SpanTaken
      <4>2. PICK l \in Nat : l = Len(free) /\ DOMAIN free = 1..l
        BY <1>2
      <4>3. /\ g \in Seq(Spans) /\ DOMAIN g = 1..(l - 1)
            /\ \A i \in 1..(l - 1) : g[i] = IF i < n THEN free[i] ELSE free[i + 1]
        <5>1. n \in 1..Len(free)
          BY <1>2, <2>3
        <5>2. /\ g \in Seq(Spans) /\ Len(g) = Len(free) - 1
              /\ \A i \in 1..(Len(free) - 1) : g[i] = IF i < n THEN free[i] ELSE free[i + 1]
          <6>1. free \in Seq(Spans)
            BY <1>2
          <6>2. /\ RemoveAt(free, n) \in Seq(Spans) /\ Len(RemoveAt(free, n)) = Len(free) - 1
                /\ \A i \in 1..(Len(free) - 1) :
                     RemoveAt(free, n)[i] = IF i < n THEN free[i] ELSE free[i + 1]
            BY <5>1, <6>1, RemoveAtElements
          <6> QED BY <4>1, <6>2, Zenon
        <5> QED BY <4>2, <5>2
      <4>4. ASSUME NEW i \in DOMAIN g
            PROVE  \E a \in DOMAIN free : a # n /\ g[i] = free[a] /\ a = IF i < n THEN i ELSE i + 1
        <5>1. i \in Nat /\ i \in DOMAIN free /\ i + 1 \in DOMAIN free
          BY <4>2, <4>3
        <5>2. CASE i < n
          BY <2>3, <4>3, <5>1, <5>2
        <5>3. CASE ~(i < n)
          BY <2>3, <4>3, <5>1, <5>3
        <5> QED BY <5>2, <5>3
      <4>5. ASSUME NEW a \in DOMAIN free, a # n PROVE \E i \in DOMAIN g : g[i] = free[a]
        <5>1. a \in Nat /\ a >= 1 /\ a <= l
          BY <4>2
        <5>2. CASE a < n
          <6>1. a \in DOMAIN g
            BY <2>3, <4>2, <4>3, <5>1, <5>2
          <6> QED BY <4>3, <5>2, <6>1
        <5>3. CASE n < a
          <6>1. a - 1 \in DOMAIN g /\ ~(a - 1 < n) /\ (a - 1) + 1 = a
            BY <2>3, <4>2, <4>3, <5>1, <5>3
          <6> QED BY <4>3, <6>1
        <5> QED BY <2>3, <4>5, <5>1, <5>2, <5>3
      <4>6. ASSUME NEW i \in DOMAIN g, NEW j \in DOMAIN g, i < j PROVE End(g[i]) < g[j].offset
        <5>1. PICK a \in DOMAIN free : g[i] = free[a] /\ a = IF i < n THEN i ELSE i + 1
          BY <4>4
        <5>2. PICK b \in DOMAIN free : g[j] = free[b] /\ b = IF j < n THEN j ELSE j + 1
          BY <4>4
        <5>3. i \in Nat /\ j \in Nat
          BY <4>3
        <5>4. a < b
          BY <2>3, <4>6, <5>1, <5>2, <5>3
        <5> QED BY <1>2, <5>1, <5>2, <5>4
      <4>7. \A i \in DOMAIN g : End(g[i]) < used
        BY <1>1, <4>4
      <4>8. ASSUME NEW x \in Nat PROVE Free(g, x) <=> Free(free, x) /\ ~Within(o, c, x)
        <5>1. Within(o, c, x) <=> Within(free[n].offset, free[n].size, x)
          BY <2>1, <3>1
        <5>2. ASSUME Free(g, x) PROVE Free(free, x) /\ ~Within(o, c, x)
          <6>1. PICK i \in DOMAIN g : Within(g[i].offset, g[i].size, x)
            BY <5>2 DEF Free
          <6>2. PICK a \in DOMAIN free : a # n /\ g[i] = free[a]
            BY <4>4
          <6> QED BY <2>8, <5>1, <6>1, <6>2 DEF Free
        <5>3. ASSUME Free(free, x), ~Within(o, c, x) PROVE Free(g, x)
          <6>1. PICK a \in DOMAIN free : Within(free[a].offset, free[a].size, x)
            BY <5>3 DEF Free
          <6>2. a # n
            BY <5>1, <5>3, <6>1
          <6>3. PICK i \in DOMAIN g : g[i] = free[a]
            BY <4>5, <6>2
          <6> QED BY <6>1, <6>3 DEF Free
        <5> QED BY <5>2, <5>3
      <4> QED BY <4>3, <4>6, <4>7, <4>8 DEF Separated
    <3>2. CASE z # c
      <4>1. PICK q \in Spans : q = [offset |-> o + c, size |-> z - c]
        <5>1. o + c \in Nat /\ z - c \in Nat \ {0}
          BY <2>1, <3>2
        <5> QED BY <5>1 DEF Spans
      <4>2. q.offset = o + c /\ q.size = z - c /\ End(q) = o + z
        BY <2>1, <4>1 DEF End
      <4>3. g = [free EXCEPT ![n] = q]
        BY <1>1, <2>1, <2>4, <3>2, <4>1 DEF SpanTaken
      <4>4. /\ g \in Seq(Spans) /\ DOMAIN g = DOMAIN free /\ g[n] = q
            /\ \A i \in DOMAIN free : i # n => g[i] = free[i]
        BY <1>2, <2>3, <4>3
      <4>5. \A i \in DOMAIN free : End(g[i]) = End(free[i]) /\ free[i].offset <= g[i].offset
                                   /\ g[i].offset \in Nat
        <5> SUFFICES ASSUME NEW i \in DOMAIN free
                     PROVE  End(g[i]) = End(free[i]) /\ free[i].offset <= g[i].offset
                            /\ g[i].offset \in Nat
          OBVIOUS
        <5>1. CASE i = n
          BY <2>1, <2>3, <4>2, <4>4, <5>1
        <5>2. CASE i # n
          BY <1>2, <4>4, <5>2
        <5> QED BY <5>1, <5>2
      <4>6. ASSUME NEW i \in DOMAIN g, NEW j \in DOMAIN g, i < j PROVE End(g[i]) < g[j].offset
        <5>1. End(free[i]) < free[j].offset
          BY <1>2, <4>4, <4>6
        <5> QED BY <1>2, <4>4, <4>5, <5>1
      <4>7. ASSUME NEW x \in Nat PROVE Free(g, x) <=> Free(free, x) /\ ~Within(o, c, x)
        <5>1. Within(q.offset, q.size, x)
                <=> Within(free[n].offset, free[n].size, x) /\ ~Within(o, c, x)
          <6>1. Within(o + c, z - c, x) <=> Within(o, z, x) /\ ~Within(o, c, x)
            <7>1. c <= z
              BY <2>1
            <7> QED BY <7>1, WithinRest
          <6> QED BY <2>1, <4>2, <6>1
        <5>2. ASSUME Free(g, x) PROVE Free(free, x) /\ ~Within(o, c, x)
          <6>1. PICK i \in DOMAIN free : Within(g[i].offset, g[i].size, x)
            BY <4>4, <5>2 DEF Free
          <6>2. CASE i = n
            BY <4>4, <5>1, <6>1, <6>2 DEF Free
          <6>3. CASE i # n
            BY <2>6, <2>8, <4>4, <6>1, <6>3 DEF Free
          <6> QED BY <6>2, <6>3
        <5>3. ASSUME Free(free, x), ~Within(o, c, x) PROVE Free(g, x)
          <6>1. PICK a \in DOMAIN free : Within(free[a].offset, free[a].size, x)
            BY <5>3 DEF Free
          <6>2. Within(g[a].offset, g[a].size, x)
            BY <4>4, <5>1, <5>3, <6>1
          <6> QED BY <4>4, <6>2 DEF Free
        <5> QED BY <5>2, <5>3
      <4> QED BY <1>1, <4>4, <4>5, <4>6, <4>7 DEF Separated
    <3> QED BY <3>1, <3>2
  <2>10. PoolOK(res.pool)
    BY <1>1, <2>5, <2>9 DEF PoolOK, Separated
  <2>11. \A x \in Nat : Within(o, c, x) => ~Busy(pool, x)
    BY <1>1, <2>7 DEF Busy
  <2>12. \A x \in Nat : Busy(res.pool, x) <=> Busy(pool, x) \/ Within(o, c, x)
    BY <1>1, <2>5, <2>7, <2>9 DEF Busy
  <2> QED BY <2>5, <2>10, <2>11, <2>12
<1>6. CASE n = 0
  <2>1. res = IF PoolCapacity - used >= c
              THEN [at |-> used, pool |-> [pool EXCEPT !.used = used + c]]
              ELSE [at |-> -1, pool |-> pool]
    BY <1>1, <1>3, <1>6 DEF allocateFromPool
  <2>2. PoolCapacity - used >= c
    BY <2>1
  <2>3. res.at = used /\ res.pool = [used |-> used + c, free |-> free]
    <3>1. [pool EXCEPT !.used = used + c] = [used |-> used + c, free |-> free]
      BY <1>1, PoolUpdated
    <3>2. res = [at |-> used, pool |-> [used |-> used + c, free |-> free]]
      BY <2>1, <2>2, <3>1
    <3> QED BY <3>2
  <2>4. used + c \in Nat /\ used + c <= PoolCapacity
    BY <1>0, <1>1, <2>2
  <2>5. PoolOK(res.pool)
    <3>1. \A i \in DOMAIN free : End(free[i]) < used + c
      BY <1>1, <1>2
    <3> QED BY <1>1, <1>2, <2>3, <2>4, <3>1 DEF PoolOK
  <2>6. ASSUME NEW x \in Nat, Within(used, c, x) PROVE ~Busy(pool, x) /\ ~Free(free, x)
    <3>1. ~(x < used)
      BY <2>6 DEF Within
    <3>2. ASSUME NEW i \in DOMAIN free PROVE ~Within(free[i].offset, free[i].size, x)
      BY <1>1, <1>2, <3>1 DEF Within
    <3> QED BY <1>1, <3>1, <3>2 DEF Busy, Free
  <2>7. ASSUME NEW x \in Nat PROVE Busy(res.pool, x) <=> Busy(pool, x) \/ Within(used, c, x)
    <3>1. x < used + c <=> x < used \/ Within(used, c, x)
      BY DEF Within
    <3> QED BY <1>1, <2>3, <2>6, <3>1 DEF Busy
  <2> QED BY <2>3, <2>5, <2>6, <2>7
<1> QED BY <1>5, <1>6

(* A span given back is free again, and nothing else is.                   *)
LEMMA SpanFreed ==
  ASSUME NEW pool, PoolOK(pool), NEW o \in Nat, NEW z \in Nat \ {0},
         \A x \in Nat : Within(o, z, x) => Busy(pool, x),
         NEW new, new = freeSpan(pool, o, z)
  PROVE  /\ PoolOK(new)
         /\ \A x \in Nat : Busy(new, x) <=> Busy(pool, x) /\ ~Within(o, z, x)
<1>1. PICK free \in Seq(Spans), used \in Nat :
        /\ free = pool.free /\ used = pool.used
        /\ Separated(free) /\ used <= PoolCapacity
        /\ \A i \in DOMAIN free : End(free[i]) < used
  <2>1. pool.free \in Seq(Spans) /\ pool.used \in Nat
    BY DEF PoolOK
  <2> QED BY <2>1 DEF PoolOK
<1>2. /\ Len(free) \in Nat /\ DOMAIN free = 1..Len(free)
      /\ \A i \in DOMAIN free :
           /\ i \in Nat /\ free[i] \in Spans /\ free[i].offset \in Nat
           /\ free[i].size \in Nat \ {0} /\ End(free[i]) \in Nat
           /\ End(free[i]) = free[i].offset + free[i].size
           /\ free[i].offset < End(free[i])
      /\ \A i, j \in DOMAIN free : i < j => End(free[i]) < free[j].offset
  BY <1>1, SpanFacts
<1>3. PICK q \in Spans : /\ q = [offset |-> o, size |-> z] /\ q.offset = o /\ q.size = z
                         /\ End(q) = o + z
  <2>1. PICK q : q = [offset |-> o, size |-> z]
    OBVIOUS
  <2>2. q \in Spans /\ q.offset = o /\ q.size = z
    BY <2>1 DEF Spans
  <2> QED BY <2>1, <2>2 DEF End
<1>4. PICK S \in SUBSET Spans : S = ToSet(free) \cup {q}
  BY <1>2, <1>3 DEF ToSet
<1>5. IsFiniteSet(S)
  <2>1. IsFiniteSet(1..Len(free))
    BY <1>2, FS_Interval
  <2>2. free \in Surjection(1..Len(free), ToSet(free))
    BY <1>2 DEF Surjection, ToSet
  <2>3. IsFiniteSet(ToSet(free))
    BY <2>1, <2>2, FS_Surjection
  <2> QED BY <1>4, <2>3, FS_AddElement
<1>6. o + z <= used
  <2>1. o + z - 1 \in Nat /\ Within(o, z, o + z - 1)
    BY DEF Within
  <2>2. o + z - 1 < used
    BY <1>1, <2>1 DEF Busy
  <2> QED BY <1>1, <2>2
<1>7. ASSUME NEW i \in DOMAIN free PROVE End(free[i]) <= o \/ o + z <= free[i].offset
  <2>1. PICK a \in Nat, e \in Nat : a = free[i].offset /\ e = End(free[i]) /\ e = a + free[i].size /\ a < e
    BY <1>2
  <2> SUFFICES ASSUME ~(e <= o), ~(o + z <= a) PROVE FALSE
    BY <2>1
  <2>2. PICK x \in Nat : o <= x /\ a <= x /\ x < o + z /\ x < e
    <3>1. CASE o <= a
      BY <2>1, <3>1
    <3>2. CASE ~(o <= a)
      BY <2>1, <3>2
    <3> QED BY <3>1, <3>2
  <2>3. Busy(pool, x)
    BY <2>2 DEF Within
  <2>4. Free(free, x)
    BY <2>1, <2>2 DEF Free, Within
  <2> QED BY <1>1, <2>3, <2>4 DEF Busy
<1>8. Disjoint(S)
  <2> SUFFICES ASSUME NEW s \in S, NEW t \in S
               PROVE  s = t \/ End(s) <= t.offset \/ End(t) <= s.offset
    BY DEF Disjoint
  <2>1. CASE s = q /\ t = q
    BY <2>1
  <2>2. CASE s = q /\ t # q
    <3>1. PICK i \in DOMAIN free : t = free[i]
      BY <1>4, <2>2 DEF ToSet
    <3> QED BY <1>3, <1>7, <2>2, <3>1
  <2>3. CASE s # q /\ t = q
    <3>1. PICK i \in DOMAIN free : s = free[i]
      BY <1>4, <2>3 DEF ToSet
    <3> QED BY <1>3, <1>7, <2>3, <3>1
  <2>4. CASE s # q /\ t # q
    <3>1. PICK i \in DOMAIN free, j \in DOMAIN free : s = free[i] /\ t = free[j]
      BY <1>4, <2>4 DEF ToSet
    <3>2. i = j \/ i < j \/ j < i
      BY <1>2
    <3>3. i = j \/ End(free[i]) < free[j].offset \/ End(free[j]) < free[i].offset
      BY <1>2, <3>2
    <3> QED BY <1>2, <3>1, <3>3
  <2> QED BY <2>1, <2>2, <2>3, <2>4
<1>9. PICK m : m = MapThenFoldSet(Merge, << >>, LAMBDA span : span, Highest, S)
  OBVIOUS
<1>10. /\ Separated(m) /\ m # << >>
       /\ \E s \in S : End(Last(m)) = End(s)
       /\ \A x \in Nat : Free(m, x) <=> \E s \in S : Within(s.offset, s.size, x)
  BY <1>4, <1>5, <1>8, <1>9, MergeAll
<1>11. \A x \in Nat : Free(m, x) <=> Free(free, x) \/ Within(o, z, x)
  BY <1>3, <1>4, <1>10 DEF Free, ToSet
<1>12. End(Last(m)) <= used
  <2>1. PICK s \in S : End(Last(m)) = End(s)
    BY <1>10
  <2>2. CASE s = q
    BY <1>3, <1>6, <2>1, <2>2
  <2>3. CASE s # q
    <3>1. PICK i \in DOMAIN free : s = free[i]
      BY <1>4, <2>3 DEF ToSet
    <3> QED BY <1>1, <1>2, <2>1, <3>1
  <2> QED BY <2>2, <2>3
<1>13. /\ m \in Seq(Spans) /\ Len(m) \in Nat /\ DOMAIN m = 1..Len(m)
       /\ \A i \in DOMAIN m :
            /\ i \in Nat /\ m[i] \in Spans /\ m[i].offset \in Nat
            /\ m[i].size \in Nat \ {0} /\ End(m[i]) \in Nat
            /\ End(m[i]) = m[i].offset + m[i].size
            /\ m[i].offset < End(m[i])
       /\ \A i, j \in DOMAIN m : i < j => End(m[i]) < m[j].offset
  BY <1>10, SpanFacts
<1>14. PICK n \in DOMAIN m : n = Len(m) /\ Last(m) = m[n] /\ n \in Nat \ {0}
  BY <1>10, <1>13 DEF Last
<1>15. PICK a \in Nat, e \in Nat : a = m[n].offset /\ e = End(m[n]) /\ e = a + m[n].size /\ a < e /\ e <= used
  BY <1>12, <1>13, <1>14
<1>16. \A i \in DOMAIN m : i # n => End(m[i]) < a
  BY <1>13, <1>14, <1>15
<1>17. new = IF e = used THEN [used |-> a, free |-> Front(m)] ELSE [used |-> used, free |-> m]
  BY <1>1, <1>3, <1>4, <1>9, <1>14, <1>15 DEF freeSpan
<1>18. CASE e # used
  <2>1. new.used = used /\ new.free = m /\ new \in [used : Nat, free : Seq(Spans)]
    BY <1>13, <1>17, <1>18
  <2>2. ASSUME NEW i \in DOMAIN m PROVE End(m[i]) < used
    <3>1. CASE i = n
      <4>1. e < used
        BY <1>15, <1>18
      <4> QED BY <1>15, <3>1, <4>1
    <3>2. CASE i # n
      BY <1>13, <1>15, <1>16, <3>2
    <3> QED BY <3>1, <3>2
  <2>3. PoolOK(new)
    BY <1>1, <1>10, <2>1, <2>2 DEF PoolOK
  <2> QED BY <1>1, <1>11, <2>1, <2>3 DEF Busy
<1>19. CASE e = used
  <2>1. PICK g : g = Front(m)
    OBVIOUS
  <2>2. new = [used |-> a, free |-> g]
    BY <1>17, <1>19, <2>1
  <2>3. g \in Seq(Spans) /\ DOMAIN g = 1..(n - 1) /\ \A i \in 1..(n - 1) : g[i] = m[i]
    <3>1. n - 1 \in Nat /\ n - 1 <= Len(m) /\ n - 1 \in 0..Len(m)
      BY <1>13, <1>14
    <3>2. g = SubSeq(m, 1, n - 1)
      BY <1>14, <2>1 DEF Front
    <3>3. g \in Seq(Spans)
      BY <1>13, <3>1, <3>2, PrefixElements
    <3>4. Len(g) = n - 1 /\ \A i \in 1..(n - 1) : g[i] = m[i]
      BY <1>13, <3>1, <3>2
    <3> QED BY <3>3, <3>4
  <2>4. \A i \in DOMAIN g : i \in DOMAIN m /\ i # n /\ g[i] = m[i]
    BY <1>13, <1>14, <2>3
  <2>5. \A i \in DOMAIN m : i # n => i \in DOMAIN g
    BY <1>13, <1>14, <2>3
  <2>6. Separated(g)
    BY <1>13, <2>3, <2>4 DEF Separated
  <2>7. PoolOK(new)
    <3>1. \A i \in DOMAIN g : End(g[i]) < a
      BY <1>16, <2>4
    <3>2. a <= PoolCapacity
      BY <1>1, <1>15, WebAssumption
    <3> QED BY <2>2, <2>3, <2>6, <3>1, <3>2 DEF PoolOK
  <2>8. ASSUME NEW x \in Nat PROVE Busy(new, x) <=> x < used /\ ~Free(m, x)
    <3>1. Within(m[n].offset, m[n].size, x) <=> a <= x /\ x < used
      BY <1>15, <1>19 DEF Within
    <3>2. Free(m, x) <=> Free(g, x) \/ (a <= x /\ x < used)
      <4>1. ASSUME Free(m, x) PROVE Free(g, x) \/ (a <= x /\ x < used)
        BY <2>4, <2>5, <3>1, <4>1 DEF Free
      <4>2. ASSUME Free(g, x) PROVE Free(m, x)
        BY <2>4, <4>2 DEF Free
      <4>3. ASSUME a <= x, x < used PROVE Free(m, x)
        BY <3>1, <4>3 DEF Free
      <4> QED BY <4>1, <4>2, <4>3
    <3>3. x < a <=> x < used /\ ~(a <= x)
      BY <1>15
    <3> QED BY <2>2, <3>2, <3>3 DEF Busy
  <2> QED BY <1>1, <1>11, <2>7, <2>8 DEF Busy
<1> QED BY <1>18, <1>19

-----------------------------------------------------------------------------
(* The choice of a pool *)

(* The bands split the pools.                                              *)
LEMMA BandSizes ==
  /\ PoolCount \in Nat \ {0} /\ Mid \in Nat \ {0} /\ Mid <= PoolCount /\ PoolCount - Mid \in Nat
BY WebAssumption DEF Mid

(* A band is tried pool by pool, wherever its cursor stands.               *)
LEMMA TriedPools ==
  ASSUME NEW lo \in Nat, NEW size \in Nat, lo + size <= PoolCount, NEW cursor \in Nat
  PROVE  Tried([lo |-> lo, size |-> size, cursor |-> cursor]) \in Seq(Pools)
<1>1. ASSUME NEW o \in 1..size PROVE lo + ((cursor + o - 1) % size) \in Pools
  <2>1. size \in Nat \ {0} /\ cursor + o - 1 \in Int
    OBVIOUS
  <2>2. (cursor + o - 1) % size \in 0..(size - 1)
    BY <2>1, Division
  <2>3. PICK x \in 0..(size - 1) : x = (cursor + o - 1) % size
    BY <2>2
  <2>4. lo + x \in 0..(PoolCount - 1)
    BY BandSizes
  <2> QED BY <2>3, <2>4 DEF Pools
<1>2. PICK f : f = [o \in 1..size |-> lo + ((cursor + o - 1) % size)]
  OBVIOUS
<1>3. f \in [1..size -> Pools]
  BY <1>1, <1>2
<1>4. f \in Seq(Pools)
  BY <1>3
<1> QED BY <1>2, <1>4 DEF Tried

(* The pool chosen had room, and only it changes.                          *)
LEMMA SpanPlaced ==
  ASSUME NEW c \in Nat \ {0}, NEW residency, cursorHot \in Nat, cursorWarm \in Nat,
         NEW place, place = allocateSpan(c, residency), place.found
  PROVE  \E k \in Pools : \E res :
           /\ res = allocateFromPool(pools[k], c) /\ res.at >= 0
           /\ place.poolIndex = k /\ place.baseOffset = res.at
           /\ place.pools = [pools EXCEPT ![k] = res.pool]
           /\ place.hot \in Nat /\ place.warm \in Nat
<1>1. PICK order \in Seq(Pools) :
        order = IF residency = "Hot" THEN Tried(Hot) \o Tried(Warm) ELSE Tried(Warm) \o Tried(Hot)
  <2>1. Tried(Hot) \in Seq(Pools)
    <3>1. 0 + Mid <= PoolCount
      BY BandSizes
    <3> QED BY <3>1, BandSizes, TriedPools DEF Hot
  <2>2. Tried(Warm) \in Seq(Pools)
    <3>1. Mid + (PoolCount - Mid) <= PoolCount
      BY BandSizes
    <3> QED BY <3>1, BandSizes, TriedPools DEF Warm
  <2>3. Tried(Hot) \o Tried(Warm) \in Seq(Pools) /\ Tried(Warm) \o Tried(Hot) \in Seq(Pools)
    BY <2>1, <2>2, ConcatProperties
  <2> QED BY <2>3
<1>2. PICK i : i = SelectInSeq(order, LAMBDA k : allocateFromPool(pools[k], c).at >= 0)
  OBVIOUS
<1>3. i # 0 => i \in 1..Len(order) /\ allocateFromPool(pools[order[i]], c).at >= 0
  <2> DEFINE I == {j \in 1..Len(order) : allocateFromPool(pools[order[j]], c).at >= 0}
  <2>1. i = IF I # {} THEN Min(I) ELSE 0
    BY <1>2 DEF SelectInSeq
  <2>2. I # {} => Min(I) \in I
    <3>1. I \in SUBSET Nat
      OBVIOUS
    <3> QED BY <3>1, MinProperties
  <2> QED BY <2>1, <2>2
<1>4. PICK k, res : k = order[i] /\ res = allocateFromPool(pools[k], c)
  OBVIOUS
<1>5. place = IF i = 0 THEN [found |-> FALSE]
              ELSE [found |-> TRUE, poolIndex |-> k, baseOffset |-> res.at,
                    pools |-> [pools EXCEPT ![k] = res.pool],
                    hot |-> IF k < Mid THEN (k + 1) % Mid ELSE cursorHot,
                    warm |-> IF k >= Mid THEN (k - Mid + 1) % (PoolCount - Mid) ELSE cursorWarm]
  BY <1>1, <1>2, <1>4 DEF allocateSpan
<1>6. i # 0
  BY <1>5
<1>7. k \in Pools /\ res.at >= 0
  BY <1>1, <1>3, <1>4, <1>6
<1>8. k \in Nat /\ k < PoolCount
  BY <1>7, BandSizes DEF Pools
<1>9. place.hot \in Nat
  <2>1. (k + 1) % Mid \in 0..(Mid - 1)
    <3>1. k + 1 \in Int
      BY <1>8
    <3> QED BY <3>1, BandSizes, Division
  <2> QED BY <1>5, <1>6, <2>1, BandSizes
<1>10. place.warm \in Nat
  <2>1. CASE k >= Mid
    <3>1. PoolCount - Mid \in Nat \ {0} /\ k - Mid + 1 \in Int
      BY <1>8, <2>1, BandSizes
    <3>2. (k - Mid + 1) % (PoolCount - Mid) \in 0..((PoolCount - Mid) - 1)
      BY <3>1, Division
    <3> QED BY <1>5, <1>6, <2>1, <3>1, <3>2
  <2>2. CASE ~(k >= Mid)
    BY <1>5, <1>6, <2>2
  <2> QED BY <2>1, <2>2
<1>11. /\ place.poolIndex = k /\ place.baseOffset = res.at
       /\ place.pools = [pools EXCEPT ![k] = res.pool]
  BY <1>5, <1>6
<1> QED BY <1>4, <1>7, <1>9, <1>10, <1>11

-----------------------------------------------------------------------------
(* The inductive invariant *)

Entries ==
  [residency : {"Hot", "Warm", "Cold"}, pinned : BOOLEAN, pinnable : BOOLEAN, spillable : BOOLEAN,
   capacity : Nat \ {0}, used : Nat, poolIndex : Pools, baseOffset : Nat]
Cells == Nat \X Nat
Requests == [task : Nat, op : {"spill", "load"}, region : Nat, bytes : Seq(Cells)]
Answers == [task : Nat, op : {"spill", "load"}, region : Nat, bytes : Seq(Cells), ok : BOOLEAN]

(* Regions have ids that were given out, and what they hold fits in them;  *)
(* the list of warm regions names regions.                                 *)
DirectoryTyped ==
  /\ pools \in [Pools -> [used : Nat, free : Seq(Spans)]]
  /\ slots \in [DOMAIN slots -> Entries]
  /\ nextId \in Nat \ {0}
  /\ \A r \in DOMAIN slots : r \in Nat /\ r < nextId /\ slots[r].used <= slots[r].capacity
  /\ cursorHot \in Nat /\ cursorWarm \in Nat
  /\ warmLru \in Seq(DOMAIN slots)

(* Region r holds byte x of its pool.                                      *)
Holds(r, x) == Within(slots[r].baseOffset, slots[r].capacity, x)
Here(k) == {r \in Resident : slots[r].poolIndex = k}

(* A byte of a pool is busy when one resident region, and only one, has it. *)
Tiled ==
  /\ \A k \in Pools : PoolOK(pools[k])
  /\ \A k \in Pools : \A r \in Here(k) : \A x \in Nat : Holds(r, x) => Busy(pools[k], x)
  /\ \A k \in Pools : \A x \in Nat : Busy(pools[k], x) => \E r \in Here(k) : Holds(r, x)
  /\ \A k \in Pools : \A r, s \in Here(k) : r # s => \A x \in Nat : ~(Holds(r, x) /\ Holds(s, x))

(* Requests the worker has not answered, and answers not yet read.         *)
Queued == ToSet(inbox) \cup open
Answered == ToSet(replies)

(* No two of a list's requests are of one call.                            *)
Single(s) == \A i, j \in DOMAIN s : s[i].task = s[j].task => i = j
Spills(q, r) == q.op = "spill" /\ q.region = r
Loads(q, r) == q.op = "load" /\ q.region = r

(* No two requests on their way are of one call, and the spills of a       *)
(* region are asked for before its loads.                                  *)
Channel ==
  /\ inbox \in Seq(Requests) /\ open \in SUBSET Requests /\ replies \in Seq(Answers)
  /\ Single(inbox) /\ Single(replies)
  /\ \A p, q \in open : p.task = q.task => p = q
  /\ \A p \in ToSet(inbox), q \in open : p.task # q.task
  /\ \A p \in Queued, q \in Answered : p.task # q.task
  /\ \A i, j \in DOMAIN inbox :
       inbox[j].op = "load" /\ Spills(inbox[i], inbox[j].region) => i < j

(* What a call in progress is.                                             *)
PromoteOf(r) == [op |-> "promote", region |-> r]
TaskOK(task) ==
  \/ task = [op |-> "evict"]
  \/ \E r \in DOMAIN slots : task = PromoteOf(r)
  \/ \E w \in Wanted, ready \in BOOLEAN : task = Creating(w.kind, w.capacity, ready)

(* Request q is the one that its call waits for.                           *)
Awaited(q) ==
  /\ q.task \in DOMAIN tasks /\ q.region \in DOMAIN slots
  /\ q.op = "load" => tasks[q.task] = PromoteOf(q.region)
  /\ q.op = "spill" => tasks[q.task].op # "promote"
  /\ tasks[q.task].op = "create" => ~tasks[q.task].ready

(* Each request is awaited by a call; a region being promoted is Cold, and *)
(* is promoted once.                                                       *)
CallsMatched ==
  /\ calls \in Nat
  /\ \A t \in DOMAIN tasks : t \in Nat /\ t <= calls /\ TaskOK(tasks[t])
  /\ \A q \in Queued \cup Answered : Awaited(q)
  /\ \A t \in DOMAIN tasks, r \in DOMAIN slots :
       tasks[t] = PromoteOf(r) => slots[r].residency = "Cold"
  /\ \A t, u \in DOMAIN tasks, r \in DOMAIN slots :
       tasks[t] = PromoteOf(r) /\ tasks[u] = PromoteOf(r) => t = u

(* Nothing of region r is on its way to the store: so it is while r is     *)
(* resident, and when a load of it has begun.                              *)
NoSpill(r) == \A q \in Queued : ~Spills(q, r)
SpillsFirst ==
  /\ \A q \in open : q.region \in DOMAIN files
  /\ \A q \in open : q.op = "load" => NoSpill(q.region)
  /\ \A q \in Answered : q.op = "load" /\ q.ok => NoSpill(q.region)
  /\ \A r \in Resident : NoSpill(r)

(* Bytes that travel fit in their region; callers wrote what they have.    *)
BytesTyped ==
  /\ memory \in [Pools -> Seq(Cells)]
  /\ files \in [DOMAIN files -> Seq(Cells)]
  /\ \A r \in DOMAIN files : r \in DOMAIN slots /\ Len(files[r]) <= slots[r].capacity
  /\ version \in [DOMAIN slots -> [n : Nat, length : Nat]]
  /\ \A r \in DOMAIN slots : version[r].length <= slots[r].used
  /\ \A q \in Queued \cup Answered : Len(q.bytes) <= slots[q.region].capacity

(* The bytes behind the first o are what callers wrote to r last.          *)
LatestAt(r, bytes, o) ==
  /\ version[r].length # 0 => o + version[r].length <= Len(bytes)
  /\ \A i \in 1..version[r].length : bytes[o + i] = <<r, version[r].n>>

BytesLatest ==
  /\ \A r \in Resident \ failed : LatestAt(r, memory[slots[r].poolIndex], slots[r].baseOffset)
  /\ \A q \in Queued : q.op = "spill" /\ q.region \notin failed => LatestAt(q.region, q.bytes, 0)
  /\ \A r \in DOMAIN slots \ failed :
       r \notin Resident /\ NoSpill(r) => r \in DOMAIN files /\ LatestAt(r, files[r], 0)
  /\ \A q \in Answered : q.op = "load" /\ q.ok /\ q.region \notin failed
       => LatestAt(q.region, q.bytes, 0)

WebInv ==
  /\ DirectoryTyped /\ Tiled /\ Channel /\ CallsMatched /\ SpillsFirst /\ BytesTyped /\ BytesLatest

-----------------------------------------------------------------------------
(* The channel to the worker *)

(* A list of requests of different calls, and one of another call.         *)
LEMMA SingleAppend ==
  ASSUME NEW S, NEW s \in Seq(S), NEW x \in S, Single(s), \A p \in ToSet(s) : p.task # x.task
  PROVE  Single(Append(s, x))
<1>0. PICK n \in Nat : n = Len(s) /\ DOMAIN s = 1..n
  OBVIOUS
<1>1. /\ DOMAIN s = 1..n /\ DOMAIN Append(s, x) = 1..(n + 1)
      /\ Append(s, x)[n + 1] = x
      /\ \A i \in 1..n : Append(s, x)[i] = s[i]
  BY <1>0
<1> SUFFICES ASSUME NEW i \in 1..(n + 1), NEW j \in 1..(n + 1),
                    Append(s, x)[i].task = Append(s, x)[j].task
             PROVE  i = j
  BY <1>1 DEF Single
<1>2. i \in 1..n \/ i = n + 1
  OBVIOUS
<1>3. j \in 1..n \/ j = n + 1
  OBVIOUS
<1>4. \A k \in 1..n : s[k] \in ToSet(s)
  BY <1>1 DEF ToSet
<1> QED BY <1>1, <1>2, <1>3, <1>4 DEF Single

(* Its tail is one, without any request of the head's call.                *)
LEMMA SingleTail ==
  ASSUME NEW S, NEW s \in Seq(S), Single(s), s # << >>
  PROVE  /\ Single(Tail(s))
         /\ \A p \in ToSet(Tail(s)) : p.task # Head(s).task
<1>1. /\ Head(s) = s[1] /\ 1 \in DOMAIN s
      /\ \A i \in DOMAIN Tail(s) : i \in Nat \ {0} /\ i + 1 \in DOMAIN s /\ Tail(s)[i] = s[i + 1]
  BY TailElements
<1>2. Single(Tail(s))
  <2> SUFFICES ASSUME NEW i \in DOMAIN Tail(s), NEW j \in DOMAIN Tail(s),
                      Tail(s)[i].task = Tail(s)[j].task
               PROVE  i = j
    BY DEF Single
  <2>1. i + 1 = j + 1
    BY <1>1 DEF Single
  <2> QED BY <1>1, <2>1
<1>3. ASSUME NEW p \in ToSet(Tail(s)) PROVE p.task # Head(s).task
  <2>1. PICK i \in DOMAIN Tail(s) : p = Tail(s)[i]
    BY <1>3 DEF ToSet
  <2>2. i + 1 # 1 /\ i + 1 \in DOMAIN s /\ p = s[i + 1]
    BY <1>1, <2>1
  <2> QED BY <1>1, <2>2 DEF Single
<1> QED BY <1>2, <1>3

(* Nothing is answered; an answer may be read.                             *)
AnswersLeft == replies' = replies \/ (replies # << >> /\ replies' = Tail(replies))

(* The order of spills and loads.                                          *)
Ordered(s) == \A i, j \in DOMAIN s : s[j].op = "load" /\ Spills(s[i], s[j].region) => i < j

(* The answers left are of different calls, and of others than the one     *)
(* that was read.                                                          *)
LEMMA AnswersRead ==
  ASSUME Channel, AnswersLeft
  PROVE  /\ replies' \in Seq(Answers) /\ Single(replies') /\ Answered' \subseteq Answered
         /\ replies' # replies =>
              \A q \in Queued \cup Answered' : q.task # Head(replies).task
<1>1. replies \in Seq(Answers) /\ Single(replies)
  BY DEF Channel
<1>2. CASE replies' = replies
  BY <1>1, <1>2 DEF Answered
<1>3. CASE replies # << >> /\ replies' = Tail(replies)
  <2>1. /\ Tail(replies) \in Seq(Answers)
        /\ ToSet(replies) = {Head(replies)} \cup ToSet(Tail(replies))
    BY <1>1, <1>3, TailElements
  <2>2. /\ Single(Tail(replies))
        /\ \A p \in ToSet(Tail(replies)) : p.task # Head(replies).task
    BY <1>1, <1>3, SingleTail
  <2>3. Answered' = ToSet(Tail(replies)) /\ Head(replies) \in Answered /\ Answered' \subseteq Answered
    BY <1>3, <2>1 DEF Answered
  <2>4. \A q \in Queued : q.task # Head(replies).task
    BY <2>3 DEF Channel
  <2> QED BY <1>3, <2>1, <2>2, <2>3, <2>4
<1> QED BY <1>2, <1>3 DEF AnswersLeft

(* Nothing is asked.                                                       *)
LEMMA ChannelQuiet ==
  ASSUME Channel, AnswersLeft, inbox' = inbox, open' = open
  PROVE  Channel' /\ Queued' = Queued /\ Answered' \subseteq Answered
<1>1. replies' \in Seq(Answers) /\ Single(replies') /\ Answered' \subseteq Answered
  BY AnswersRead
<1>2. Queued' = Queued
  BY DEF Queued
<1> QED BY <1>1, <1>2 DEF Channel

(* A call asks the worker for something.                                   *)
LEMMA ChannelPosted ==
  ASSUME Channel, AnswersLeft, NEW q \in Requests, inbox' = Append(inbox, q), open' = open,
         \A p \in Queued \cup Answered' : p.task # q.task,
         q.op = "spill" => \A p \in Queued : ~Loads(p, q.region)
  PROVE  Channel' /\ Queued' = Queued \cup {q} /\ Answered' \subseteq Answered
<1>1. replies' \in Seq(Answers) /\ Single(replies') /\ Answered' \subseteq Answered
  BY AnswersRead
<1>2. inbox \in Seq(Requests) /\ open \in SUBSET Requests /\ Single(inbox)
  BY DEF Channel
<1>3. inbox' \in Seq(Requests) /\ ToSet(inbox') = ToSet(inbox) \cup {q}
  BY <1>2, AppendElements
<1>4. Queued' = Queued \cup {q}
  BY <1>3 DEF Queued
<1>5. Single(inbox')
  BY <1>2, SingleAppend DEF Queued
<1>6. \A p \in Queued', a \in Answered' : p.task # a.task
  BY <1>1, <1>4 DEF Channel
<1>7. \A p \in ToSet(inbox'), a \in open' : p.task # a.task
  BY <1>3 DEF Channel, Queued
<1>8. Ordered(inbox')
  <2>1. PICK n \in Nat : /\ DOMAIN inbox = 1..n /\ DOMAIN inbox' = 1..(n + 1)
                         /\ inbox'[n + 1] = q /\ \A i \in 1..n : inbox'[i] = inbox[i]
    BY <1>2, AppendElements
  <2> SUFFICES ASSUME NEW i \in 1..(n + 1), NEW j \in 1..(n + 1), inbox'[j].op = "load",
                      Spills(inbox'[i], inbox'[j].region)
               PROVE  i < j
    BY <2>1 DEF Ordered
  <2>2. \A k \in 1..n : inbox[k] \in Queued
    BY <2>1 DEF Queued, ToSet
  <2>3. CASE i \in 1..n /\ j \in 1..n
    BY <2>1, <2>3 DEF Channel
  <2>4. CASE j = n + 1
    <3>1. CASE i = n + 1
      BY <2>1, <2>4, <3>1 DEF Spills
    <3> QED BY <2>4, <3>1
  <2>5. CASE i = n + 1 /\ j \in 1..n
    BY <2>1, <2>2, <2>5 DEF Spills, Loads
  <2> QED BY <2>3, <2>4, <2>5
<1> QED BY <1>1, <1>2, <1>3, <1>4, <1>5, <1>6, <1>7, <1>8 DEF Channel, Ordered

(* The first request leaves the inbox.                                     *)
LEMMA InboxTail ==
  ASSUME Channel, inbox # << >>
  PROVE  /\ Tail(inbox) \in Seq(Requests) /\ Single(Tail(inbox)) /\ Ordered(Tail(inbox))
         /\ ToSet(inbox) = {Head(inbox)} \cup ToSet(Tail(inbox)) /\ Head(inbox) \in Requests
         /\ \A p \in ToSet(Tail(inbox)) : p.task # Head(inbox).task
         /\ Head(inbox).op = "load" => \A p \in ToSet(inbox) : ~Spills(p, Head(inbox).region)
<1>1. inbox \in Seq(Requests) /\ Single(inbox) /\ Ordered(inbox)
  BY DEF Channel, Ordered
<1>2. /\ Tail(inbox) \in Seq(Requests) /\ Head(inbox) \in Requests
      /\ Head(inbox) = inbox[1] /\ 1 \in DOMAIN inbox
      /\ \A i \in DOMAIN Tail(inbox) :
           i \in Nat \ {0} /\ i + 1 \in DOMAIN inbox /\ Tail(inbox)[i] = inbox[i + 1]
      /\ ToSet(inbox) = {Head(inbox)} \cup ToSet(Tail(inbox))
  BY <1>1, TailElements
<1>3. /\ Single(Tail(inbox))
      /\ \A p \in ToSet(Tail(inbox)) : p.task # Head(inbox).task
  BY <1>1, SingleTail
<1>4. Ordered(Tail(inbox))
  <2> SUFFICES ASSUME NEW i \in DOMAIN Tail(inbox), NEW j \in DOMAIN Tail(inbox),
                      Tail(inbox)[j].op = "load", Spills(Tail(inbox)[i], Tail(inbox)[j].region)
               PROVE  i < j
    BY DEF Ordered
  <2>1. i + 1 < j + 1
    BY <1>1, <1>2 DEF Ordered
  <2> QED BY <1>2, <2>1
<1>5. ASSUME Head(inbox).op = "load", NEW p \in ToSet(inbox), Spills(p, Head(inbox).region) PROVE FALSE
  <2>1. PICK i \in DOMAIN inbox : p = inbox[i]
    BY <1>5 DEF ToSet
  <2>2. i < 1
    BY <1>1, <1>2, <1>5, <2>1 DEF Ordered
  <2>3. i \in Nat \ {0}
    BY <1>1
  <2> QED BY <2>2, <2>3
<1> QED BY <1>2, <1>3, <1>4, <1>5

(* The worker opens the file of a request.                                 *)
LEMMA ChannelOpened ==
  ASSUME Channel, inbox # << >>, inbox' = Tail(inbox), open' = open \cup {Head(inbox)},
         replies' = replies
  PROVE  Channel' /\ Queued' = Queued /\ Answered' = Answered
<1>1. /\ Tail(inbox) \in Seq(Requests) /\ Single(Tail(inbox)) /\ Ordered(Tail(inbox))
      /\ ToSet(inbox) = {Head(inbox)} \cup ToSet(Tail(inbox)) /\ Head(inbox) \in Requests
      /\ \A p \in ToSet(Tail(inbox)) : p.task # Head(inbox).task
  BY InboxTail
<1>2. Queued' = Queued /\ Answered' = Answered
  BY <1>1 DEF Queued, Answered
<1>3. \A p \in ToSet(inbox'), q \in open' : p.task # q.task
  BY <1>1 DEF Channel
<1>4. \A p, q \in open' : p.task = q.task => p = q
  BY <1>1 DEF Channel
<1>5. /\ inbox' \in Seq(Requests) /\ open' \in SUBSET Requests /\ replies' \in Seq(Answers)
      /\ Single(inbox') /\ Single(replies') /\ Ordered(inbox')
  BY <1>1 DEF Channel
<1>6. \A p \in Queued', q \in Answered' : p.task # q.task
  BY <1>2 DEF Channel
<1> QED BY <1>2, <1>3, <1>4, <1>5, <1>6 DEF Channel, Ordered

(* The worker refuses a request.                                           *)
LEMMA ChannelRefused ==
  ASSUME Channel, inbox # << >>, inbox' = Tail(inbox), open' = open,
         NEW a \in Answers, a.task = Head(inbox).task, replies' = Append(replies, a)
  PROVE  /\ Channel' /\ Queued' \subseteq Queued /\ Queued = Queued' \cup {Head(inbox)}
         /\ Answered' = Answered \cup {a}
<1>1. /\ Tail(inbox) \in Seq(Requests) /\ Single(Tail(inbox)) /\ Ordered(Tail(inbox))
      /\ ToSet(inbox) = {Head(inbox)} \cup ToSet(Tail(inbox))
      /\ \A p \in ToSet(Tail(inbox)) : p.task # Head(inbox).task
  BY InboxTail
<1>2. replies \in Seq(Answers) /\ Single(replies)
  BY DEF Channel
<1>3. replies' \in Seq(Answers) /\ ToSet(replies') = ToSet(replies) \cup {a}
  BY <1>2, AppendElements
<1>4. Queued' \subseteq Queued /\ Queued = Queued' \cup {Head(inbox)} /\ Answered' = Answered \cup {a}
  BY <1>1, <1>3 DEF Queued, Answered
<1>5. \A p \in ToSet(replies) : p.task # a.task
  BY <1>4 DEF Channel, Answered
<1>6. Single(replies')
  BY <1>2, <1>5, SingleAppend
<1>7. Head(inbox) \in ToSet(inbox) /\ ToSet(Tail(inbox)) \subseteq ToSet(inbox)
  BY <1>1
<1>8. \A p \in open : p.task # Head(inbox).task
  BY <1>7 DEF Channel
<1>9. \A p \in Queued' : p.task # a.task
  BY <1>1, <1>8 DEF Queued
<1>10. \A p \in Queued', q \in Answered' : p.task # q.task
  BY <1>4, <1>9 DEF Channel
<1>11. \A p \in ToSet(inbox'), q \in open' : p.task # q.task
  BY <1>7 DEF Channel
<1> QED BY <1>1, <1>3, <1>4, <1>6, <1>10, <1>11 DEF Channel, Ordered

(* The worker is done with a file.                                         *)
LEMMA ChannelDone ==
  ASSUME Channel, NEW q \in open, open' = open \ {q}, inbox' = inbox,
         NEW a \in Answers, a.task = q.task, replies' = Append(replies, a)
  PROVE  /\ Channel' /\ Queued' \subseteq Queued /\ Queued = Queued' \cup {q}
         /\ Answered' = Answered \cup {a}
<1>1. replies \in Seq(Answers) /\ Single(replies)
  BY DEF Channel
<1>2. replies' \in Seq(Answers) /\ ToSet(replies') = ToSet(replies) \cup {a}
  BY <1>1, AppendElements
<1>3. Queued' \subseteq Queued /\ Queued = Queued' \cup {q} /\ Answered' = Answered \cup {a}
  BY <1>2 DEF Queued, Answered
<1>4. \A p \in ToSet(replies) : p.task # a.task
  BY <1>3 DEF Channel, Answered
<1>5. Single(replies')
  BY <1>1, <1>4, SingleAppend
<1>6. \A p \in Queued' : p.task # a.task
  BY DEF Channel, Queued
<1>7. \A p \in Queued', b \in Answered' : p.task # b.task
  BY <1>3, <1>6 DEF Channel
<1>8. open' \in SUBSET Requests
  BY DEF Channel
<1> QED BY <1>2, <1>3, <1>5, <1>7, <1>8 DEF Channel

(* The channel is dropped.                                                 *)
LEMMA ChannelClosed ==
  ASSUME inbox' = << >>, open' = {}, replies' = << >>
  PROVE  Channel' /\ Queued' = {} /\ Answered' = {}
<1>1. DOMAIN << >> = {} /\ << >> \in Seq(Requests) /\ << >> \in Seq(Answers)
  OBVIOUS
<1>2. ToSet(<< >>) = {} /\ Single(<< >>)
  BY <1>1 DEF ToSet, Single
<1>3. Queued' = {} /\ Answered' = {}
  BY <1>2 DEF Queued, Answered
<1>4. Single(inbox)' /\ Single(replies)'
  BY <1>2
<1>5. DOMAIN inbox' = {} /\ inbox' \in Seq(Requests) /\ replies' \in Seq(Answers)
  BY <1>1
<1> QED BY <1>2, <1>3, <1>4, <1>5 DEF Channel

-----------------------------------------------------------------------------
(* The directory *)

(* The list of warm regions names regions whatever is taken from it.       *)
LEMMA LruTyped ==
  ASSUME NEW S, NEW lru \in Seq(S), NEW r \in S
  PROVE  lruRemove(lru, r) \in Seq(S) /\ lruPushFront(lru, r) \in Seq(S)
<1>1. PICK less : less = lruRemove(lru, r)
  OBVIOUS
<1>2. less \in Seq(S)
  <2>1. CASE ~ \E i \in 1..Len(lru) : lru[i] = r
    BY <1>1, <2>1 DEF lruRemove, RemoveFirst
  <2>2. CASE \E i \in 1..Len(lru) : lru[i] = r
    <3> DEFINE I == {i \in 1..Len(lru) : lru[i] = r}
    <3>1. I \in SUBSET Nat /\ I # {}
      BY <2>2
    <3>2. PICK m \in 1..Len(lru) : m = Min(I)
      BY <3>1, MinProperties
    <3>3. less = RemoveAt(lru, m)
      BY <1>1, <2>2, <3>1, <3>2 DEF lruRemove, RemoveFirst, SelectInSeq
    <3> QED BY <3>3, RemoveAtElements
  <2> QED BY <2>1, <2>2
<1>3. <<r>> \in Seq(S)
  OBVIOUS
<1>4. <<r>> \o less \in Seq(S)
  BY <1>2, <1>3, ConcatProperties
<1> QED BY <1>1, <1>2, <1>4 DEF lruPushFront

(* The scan ends at a warm region that is not pinned.                      *)
LEMMA ScanTyped ==
  ASSUME DirectoryTyped
  PROVE  /\ Scanned \in Seq(DOMAIN slots)
         /\ Scanned # << >> => Last(Scanned) \in Resident
<1>1. warmLru \in Seq(DOMAIN slots) /\ Len(warmLru) \in Nat
  BY DEF DirectoryTyped
<1> DEFINE I == {i \in 1..Len(warmLru) : Evictable(warmLru[i])}
<1>2. PICK n : n = SelectLastInSeq(warmLru, Evictable)
  OBVIOUS
<1>3. n = IF I # {} THEN Max(I) ELSE 0
  BY <1>2 DEF SelectLastInSeq
<1>4. n = 0 \/ n \in I
  <2>1. I \in SUBSET (0..Len(warmLru))
    BY <1>1
  <2>2. I # {} => Max(I) \in I
    BY <1>1, <2>1, MaxProperties
  <2> QED BY <1>3, <2>2
<1>5. PICK s : s = Scanned
  OBVIOUS
<1>6. s = SubSeq(warmLru, 1, n)
  BY <1>2, <1>5 DEF Scanned
<1>7. n \in 0..Len(warmLru)
  BY <1>1, <1>4
<1>8. s \in Seq(DOMAIN slots) /\ Len(s) = n /\ \A i \in 1..n : s[i] = warmLru[i]
  BY <1>1, <1>6, <1>7, PrefixElements
<1>9. ASSUME s # << >> PROVE Last(s) \in Resident
  <2>1. n \in I /\ n \in 1..n
    BY <1>4, <1>7, <1>8, <1>9
  <2>2. Last(s) = warmLru[n] /\ Evictable(warmLru[n])
    BY <1>8, <2>1 DEF Last
  <2>3. warmLru[n] \in DOMAIN slots
    BY <1>1, <2>1
  <2> QED BY <2>2, <2>3 DEF Evictable, Resident
<1> QED BY <1>5, <1>8, <1>9

(* What is known of an entry.                                              *)
LEMMA EntryFacts ==
  ASSUME DirectoryTyped, NEW r \in DOMAIN slots
  PROVE  /\ slots[r] \in Entries
         /\ slots[r].residency \in {"Hot", "Warm", "Cold"} /\ slots[r].capacity \in Nat \ {0}
         /\ slots[r].used \in Nat /\ slots[r].used <= slots[r].capacity
         /\ slots[r].poolIndex \in Pools /\ slots[r].baseOffset \in Nat
         /\ r \in Nat /\ r < nextId
<1>1. slots[r] \in Entries
  BY DEF DirectoryTyped
<1> QED BY <1>1 DEF Entries, DirectoryTyped

(* No region moves, and none is spilled or reloaded.                       *)
SpansKept ==
  /\ pools' = pools /\ DOMAIN slots' = DOMAIN slots
  /\ \A r \in DOMAIN slots :
       /\ slots'[r].poolIndex = slots[r].poolIndex /\ slots'[r].baseOffset = slots[r].baseOffset
       /\ slots'[r].capacity = slots[r].capacity /\ slots[r].used <= slots'[r].used
       /\ slots'[r].residency = "Cold" <=> slots[r].residency = "Cold"

(* A step that leaves pools and entries alone moves no region.             *)
LEMMA UnchangedKeeps ==
  ASSUME DirectoryTyped, UNCHANGED <<pools, slots>>
  PROVE  SpansKept
BY EntryFacts DEF SpansKept

(* While no region moves, the pools stay shared out as they are.           *)
LEMMA KeptTiled ==
  ASSUME Tiled, SpansKept
  PROVE  Tiled' /\ Resident' = Resident
<1>1. Resident' = Resident
  BY DEF Resident, SpansKept
<1>2. \A k \in Pools : Here(k)' = Here(k)
  BY <1>1 DEF Here, SpansKept, Resident
<1>3. \A k \in Pools : \A r \in Here(k) : \A x \in Nat : Holds(r, x)' <=> Holds(r, x)
  BY DEF Holds, Here, Resident, SpansKept
<1>4. pools' = pools
  BY DEF SpansKept
<1>5. \A k \in Pools : PoolOK(pools[k])'
  BY <1>4 DEF Tiled
<1>6. \A k \in Pools : \A x \in Nat : Busy(pools[k], x)' <=> Busy(pools[k], x)
  BY <1>4
<1>7. ASSUME NEW k \in Pools, NEW r \in Here(k)', NEW x \in Nat, Holds(r, x)'
      PROVE  Busy(pools[k], x)'
  BY <1>2, <1>3, <1>6, <1>7 DEF Tiled
<1>8. ASSUME NEW k \in Pools, NEW x \in Nat, Busy(pools[k], x)'
      PROVE  \E r \in Here(k)' : Holds(r, x)'
  BY <1>2, <1>3, <1>6, <1>8 DEF Tiled
<1>9. ASSUME NEW k \in Pools, NEW r \in Here(k)', NEW s \in Here(k)', r # s, NEW x \in Nat
      PROVE  ~(Holds(r, x)' /\ Holds(s, x)')
  BY <1>2, <1>3, <1>9 DEF Tiled
<1> QED BY <1>1, <1>5, <1>7, <1>8, <1>9 DEF Tiled

(* Region r becomes Cold and its span is given back.                       *)
Evicts(r) ==
  /\ pools' = [pools EXCEPT ![slots[r].poolIndex] =
                 freeSpan(pools[slots[r].poolIndex], slots[r].baseOffset, slots[r].capacity)]
  /\ slots' = [slots EXCEPT ![r].residency = "Cold"]

(* What an eviction does to the entries.                                   *)
LEMMA EvictedEntries ==
  ASSUME DirectoryTyped, NEW r \in Resident, Evicts(r)
  PROVE  /\ r \in DOMAIN slots /\ DOMAIN slots' = DOMAIN slots
         /\ slots' \in [DOMAIN slots -> Entries]
         /\ slots'[r].residency = "Cold" /\ slots'[r].capacity = slots[r].capacity
         /\ slots'[r].used = slots[r].used
         /\ \A s \in DOMAIN slots \ {r} : slots'[s] = slots[s]
         /\ Resident' = Resident \ {r}
<1>1. r \in DOMAIN slots
  BY DEF Resident
<1>2. PICK e : e = [slots[r] EXCEPT !.residency = "Cold"]
  OBVIOUS
<1>3. e \in Entries /\ e.residency = "Cold" /\ e.capacity = slots[r].capacity /\ e.used = slots[r].used
  BY <1>1, <1>2, EntryFacts DEF Entries
<1>4. slots' = [slots EXCEPT ![r] = e]
  BY <1>2 DEF Evicts
<1>5. slots \in [DOMAIN slots -> Entries]
  BY DEF DirectoryTyped
<1>6. /\ DOMAIN slots' = DOMAIN slots /\ slots' \in [DOMAIN slots -> Entries] /\ slots'[r] = e
      /\ \A s \in DOMAIN slots \ {r} : slots'[s] = slots[s]
  BY <1>1, <1>3, <1>4, <1>5
<1>7. Resident' = Resident \ {r}
  BY <1>1, <1>3, <1>6 DEF Resident
<1> QED BY <1>1, <1>3, <1>6, <1>7

(* The span an evicted region gives back is free, and all others stay      *)
(* taken.                                                                  *)
LEMMA EvictedTiled ==
  ASSUME DirectoryTyped, Tiled, NEW r \in Resident, Evicts(r)
  PROVE  Tiled' /\ pools' \in [Pools -> [used : Nat, free : Seq(Spans)]]
<1>1. /\ r \in DOMAIN slots /\ DOMAIN slots' = DOMAIN slots /\ Resident' = Resident \ {r}
      /\ \A s \in DOMAIN slots \ {r} : slots'[s] = slots[s]
  BY EvictedEntries
<1>2. PICK k0 \in Pools, o \in Nat, z \in Nat \ {0} :
        k0 = slots[r].poolIndex /\ o = slots[r].baseOffset /\ z = slots[r].capacity
  BY <1>1, EntryFacts
<1>3. r \in Here(k0) /\ \A x \in Nat : Holds(r, x) <=> Within(o, z, x)
  BY <1>2 DEF Here, Holds
<1>4. PICK new : new = freeSpan(pools[k0], o, z)
  OBVIOUS
<1>5. PoolOK(new) /\ \A x \in Nat : Busy(new, x) <=> Busy(pools[k0], x) /\ ~Within(o, z, x)
  <2>1. PoolOK(pools[k0]) /\ \A x \in Nat : Within(o, z, x) => Busy(pools[k0], x)
    BY <1>3 DEF Tiled
  <2> QED BY <1>4, <2>1, SpanFreed
<1>6. pools \in [Pools -> [used : Nat, free : Seq(Spans)]] /\ pools' = [pools EXCEPT ![k0] = new]
  BY <1>2, <1>4 DEF DirectoryTyped, Evicts
<1>7. pools'[k0] = new /\ \A k \in Pools \ {k0} : pools'[k] = pools[k]
  BY <1>6
<1>8. pools' \in [Pools -> [used : Nat, free : Seq(Spans)]]
  BY <1>5, <1>6 DEF PoolOK
<1>9. /\ Here(k0)' = Here(k0) \ {r}
      /\ \A k \in Pools \ {k0} : Here(k)' = Here(k)
  <2>1. \A k \in Pools : Here(k)' = Here(k) \ {r}
    BY <1>1 DEF Here, Resident
  <2>2. \A k \in Pools \ {k0} : r \notin Here(k)
    BY <1>2 DEF Here
  <2>3. ASSUME NEW k \in Pools \ {k0} PROVE Here(k)' = Here(k)
    <3>1. Here(k)' = Here(k) \ {r} /\ r \notin Here(k)
      BY <2>1, <2>2
    <3> QED BY <3>1
  <2> QED BY <2>1, <2>3
<1>10. \A s \in DOMAIN slots \ {r} : \A x \in Nat : Holds(s, x)' <=> Holds(s, x)
  BY <1>1 DEF Holds
<1>11. \A k \in Pools : \A s \in Here(k)' : s \in Here(k) /\ s \in DOMAIN slots \ {r}
  <2>1. \A k \in Pools : Here(k) \subseteq DOMAIN slots
    BY DEF Here, Resident
  <2>2. \A k \in Pools \ {k0} : r \notin Here(k)
    BY <1>2 DEF Here
  <2> QED BY <1>9, <2>1, <2>2
<1>12. ASSUME NEW k \in Pools PROVE PoolOK(pools[k])'
  BY <1>5, <1>7 DEF Tiled
<1>13. ASSUME NEW k \in Pools, NEW s \in Here(k)', NEW x \in Nat, Holds(s, x)'
       PROVE  Busy(pools[k], x)'
  <2>1. Holds(s, x) /\ s \in Here(k)
    BY <1>10, <1>11, <1>13
  <2>2. Busy(pools[k], x)
    BY <2>1 DEF Tiled
  <2>3. CASE k = k0
    <3>1. s # r
      BY <1>11
    <3>2. ~Holds(r, x)
      BY <1>3, <2>1, <2>3, <3>1 DEF Tiled
    <3> QED BY <1>3, <1>5, <1>7, <2>2, <2>3, <3>2
  <2>4. CASE k # k0
    BY <1>7, <2>2, <2>4
  <2> QED BY <2>3, <2>4
<1>14. ASSUME NEW k \in Pools, NEW x \in Nat, Busy(pools[k], x)'
       PROVE  \E s \in Here(k)' : Holds(s, x)'
  <2>1. CASE k = k0
    <3>1. Busy(pools[k0], x) /\ ~Holds(r, x)
      BY <1>3, <1>5, <1>7, <1>14, <2>1
    <3>2. PICK s \in Here(k0) : Holds(s, x)
      BY <3>1 DEF Tiled
    <3>3. s \in Here(k0)' /\ Holds(s, x)'
      BY <1>9, <1>10, <1>11, <3>1, <3>2
    <3> QED BY <2>1, <3>3
  <2>2. CASE k # k0
    <3>1. PICK s \in Here(k) : Holds(s, x)
      BY <1>7, <1>14, <2>2 DEF Tiled
    <3>2. s \in Here(k)'
      BY <1>9, <2>2, <3>1
    <3> QED BY <1>10, <1>11, <3>1, <3>2
  <2> QED BY <2>1, <2>2
<1>15. ASSUME NEW k \in Pools, NEW s \in Here(k)', NEW u \in Here(k)', s # u, NEW x \in Nat
       PROVE  ~(Holds(s, x)' /\ Holds(u, x)')
  BY <1>10, <1>11, <1>15 DEF Tiled
<1> QED BY <1>8, <1>12, <1>13, <1>14, <1>15 DEF Tiled

(* Region r, new or Cold, gets a span of pool k.                           *)
Places(r, k, o, pool) ==
  /\ pools' = [pools EXCEPT ![k] = pool]
  /\ DOMAIN slots' = DOMAIN slots \cup {r}
  /\ slots'[r].poolIndex = k /\ slots'[r].baseOffset = o /\ slots'[r].residency # "Cold"
  /\ \A s \in DOMAIN slots \ {r} : slots'[s] = slots[s]

(* A region gets a span that was nobody's, and is the only one to hold it. *)
LEMMA PlacedTiled ==
  ASSUME DirectoryTyped, Tiled, NEW r, r \notin Resident, NEW k0 \in Pools, NEW c \in Nat \ {0}, NEW res,
         res = allocateFromPool(pools[k0], c), res.at >= 0,
         Places(r, k0, res.at, res.pool), slots'[r].capacity = c
  PROVE  /\ Tiled' /\ pools' \in [Pools -> [used : Nat, free : Seq(Spans)]]
         /\ Resident' = Resident \cup {r} /\ res.at \in Nat
         /\ \A x \in Nat : Within(res.at, c, x) => ~Busy(pools[k0], x)
<1>1. PoolOK(pools[k0])
  BY DEF Tiled
<1>2. /\ res.at \in Nat /\ PoolOK(res.pool)
      /\ \A x \in Nat : Within(res.at, c, x) => ~Busy(pools[k0], x)
      /\ \A x \in Nat : Busy(res.pool, x) <=> Busy(pools[k0], x) \/ Within(res.at, c, x)
  BY <1>1, SpanAllocated
<1>3. pools \in [Pools -> [used : Nat, free : Seq(Spans)]] /\ pools' = [pools EXCEPT ![k0] = res.pool]
  BY DEF DirectoryTyped, Places
<1>4. pools'[k0] = res.pool /\ \A k \in Pools \ {k0} : pools'[k] = pools[k]
  BY <1>3
<1>5. pools' \in [Pools -> [used : Nat, free : Seq(Spans)]]
  BY <1>2, <1>3 DEF PoolOK
<1>6. Resident' = Resident \cup {r}
  BY DEF Resident, Places
<1>7. /\ Here(k0)' = Here(k0) \cup {r}
      /\ \A k \in Pools \ {k0} : Here(k)' = Here(k)
  <2>1. \A s \in Resident : s \in DOMAIN slots \ {r} /\ slots'[s] = slots[s]
    BY DEF Resident, Places
  <2>2. slots'[r].poolIndex = k0
    BY DEF Places
  <2> QED BY <1>6, <2>1, <2>2 DEF Here
<1>8. \A k \in Pools : \A s \in Here(k) : s # r /\ \A x \in Nat : Holds(s, x)' <=> Holds(s, x)
  <2>1. \A k \in Pools : \A s \in Here(k) : s \in DOMAIN slots \ {r} /\ slots'[s] = slots[s]
    BY DEF Here, Resident, Places
  <2> QED BY <2>1 DEF Holds
<1>9. \A x \in Nat : Holds(r, x)' <=> Within(res.at, c, x)
  BY DEF Holds, Places
<1>10. ASSUME NEW k \in Pools PROVE PoolOK(pools[k])'
  BY <1>2, <1>4 DEF Tiled
<1>11. ASSUME NEW k \in Pools, NEW s \in Here(k)', NEW x \in Nat, Holds(s, x)'
       PROVE  Busy(pools[k], x)'
  <2>1. CASE s = r
    <3>1. k = k0
      BY <1>7, <1>8, <2>1
    <3> QED BY <1>2, <1>4, <1>9, <1>11, <2>1, <3>1
  <2>2. CASE s # r
    <3>1. s \in Here(k)
      BY <1>7, <2>2
    <3>2. Busy(pools[k], x)
      BY <1>8, <1>11, <3>1 DEF Tiled
    <3> QED BY <1>2, <1>4, <3>2
  <2> QED BY <2>1, <2>2
<1>12. ASSUME NEW k \in Pools, NEW x \in Nat, Busy(pools[k], x)'
       PROVE  \E s \in Here(k)' : Holds(s, x)'
  <2>1. CASE Busy(pools[k], x)
    <3>1. PICK s \in Here(k) : Holds(s, x)
      BY <2>1 DEF Tiled
    <3>2. s \in Here(k)'
      BY <1>7, <3>1
    <3> QED BY <1>8, <3>1, <3>2
  <2>2. CASE ~Busy(pools[k], x)
    <3>1. k = k0 /\ Within(res.at, c, x)
      BY <1>2, <1>4, <1>12, <2>2
    <3> QED BY <1>7, <1>9, <3>1
  <2> QED BY <2>1, <2>2
<1>13. ASSUME NEW k \in Pools, NEW s \in Here(k), NEW x \in Nat, Holds(s, x), k = k0 PROVE ~Holds(r, x)'
  <2>1. Busy(pools[k], x)
    BY <1>13 DEF Tiled
  <2> QED BY <1>2, <1>9, <1>13, <2>1
<1>14. ASSUME NEW k \in Pools, NEW s \in Here(k)', NEW u \in Here(k)', s # u, NEW x \in Nat
       PROVE  ~(Holds(s, x)' /\ Holds(u, x)')
  <2>1. CASE s # r /\ u # r
    <3>1. s \in Here(k) /\ u \in Here(k)
      BY <1>7, <2>1
    <3> QED BY <1>8, <1>14, <3>1 DEF Tiled
  <2>2. CASE s = r
    <3>1. k = k0 /\ u \in Here(k)
      BY <1>7, <1>8, <1>14, <2>2
    <3> QED BY <1>8, <1>13, <2>2, <3>1
  <2>3. CASE u = r
    <3>1. k = k0 /\ s \in Here(k)
      BY <1>7, <1>8, <1>14, <2>3
    <3> QED BY <1>8, <1>13, <2>3, <3>1
  <2> QED BY <2>1, <2>2, <2>3
<1> QED BY <1>2, <1>5, <1>6, <1>10, <1>11, <1>12, <1>14 DEF Tiled

-----------------------------------------------------------------------------
(* The pool memories *)

(* A pool grows by whole pages, to what is asked for at least.             *)
LEMMA Grown ==
  ASSUME NEW b \in Seq(Cells), NEW length \in Nat, NEW g, g = ensureSize(b, length)
  PROVE  /\ g \in Seq(Cells) /\ Len(b) \in Nat /\ Len(g) \in Nat
         /\ Len(g) >= Len(b) /\ Len(g) >= length
         /\ \A i \in 1..Len(b) : g[i] = b[i]
<1>1. PICK l \in Nat : l = Len(b)
  OBVIOUS
<1>2. CASE l >= length
  BY <1>1, <1>2 DEF ensureSize
<1>3. CASE ~(l >= length)
  <2>1. PageBytes \in Nat \ {0}
    BY WebAssumption
  <2>2. PICK d \in Nat : d = length - l + PageBytes - 1
    BY <1>3, <2>1
  <2>3. PICK pages \in Int : pages = d \div PageBytes /\ d % PageBytes \in 0..(PageBytes - 1)
                             /\ d = PageBytes * (d \div PageBytes) + (d % PageBytes)
    <3>1. d \in Int
      BY <2>2
    <3>2. /\ d % PageBytes \in 0..(PageBytes - 1) /\ d \div PageBytes \in Int
          /\ d = PageBytes * (d \div PageBytes) + (d % PageBytes)
      BY <2>1, <3>1, Division
    <3> QED BY <3>2
  <2>4. PICK m \in Int : m = pages * PageBytes /\ m = PageBytes * (d \div PageBytes)
    BY <2>1, <2>3
  <2>5. m >= length - l /\ m \in Nat
    BY <1>3, <2>1, <2>2, <2>3, <2>4
  <2>6. PICK f : f = [i \in 1..m |-> Blank]
    OBVIOUS
  <2>7. f \in Seq(Cells) /\ Len(f) = m
    BY <2>5, <2>6 DEF Blank, Cells
  <2>8. g = b \o f
    <3>1. g = b \o [i \in 1..(pages * PageBytes) |-> Blank]
      BY <1>1, <1>3, <2>2, <2>3 DEF ensureSize
    <3> QED BY <2>4, <2>6, <3>1
  <2>9. /\ g \in Seq(Cells) /\ Len(g) = l + m
        /\ \A i \in 1..(l + m) : g[i] = IF i <= l THEN b[i] ELSE f[i - l]
    <3>1. /\ b \o f \in Seq(Cells) /\ Len(b \o f) = Len(b) + Len(f)
          /\ \A i \in 1..(Len(b) + Len(f)) : (b \o f)[i] = IF i <= Len(b) THEN b[i] ELSE f[i - Len(b)]
      BY <2>7, ConcatProperties
    <3> QED BY <1>1, <2>7, <2>8, <3>1
  <2>10. \A i \in 1..l : i \in 1..(l + m) /\ i <= l
    BY <2>5
  <2> QED BY <1>1, <2>5, <2>9, <2>10
<1> QED BY <1>2, <1>3

(* A write changes the bytes it is for, and those only.                    *)
LEMMA Written ==
  ASSUME NEW b \in Seq(Cells), NEW o \in Nat, NEW new \in Seq(Cells), NEW g, g = writeRange(b, o, new)
  PROVE  /\ g \in Seq(Cells) /\ Len(b) \in Nat /\ Len(g) \in Nat /\ Len(new) \in Nat
         /\ Len(g) >= Len(b) /\ Len(g) >= o + Len(new)
         /\ \A i \in 1..Len(new) : g[o + i] = new[i]
         /\ \A i \in 1..Len(b) : i <= o \/ o + Len(new) < i => g[i] = b[i]
<1>1. PICK n \in Nat, l \in Nat : n = Len(new) /\ DOMAIN new = 1..n /\ l = Len(b)
  OBVIOUS
<1>2. PICK h : h = ensureSize(b, o + n)
  OBVIOUS
<1>3. /\ h \in Seq(Cells) /\ Len(h) \in Nat /\ Len(h) >= l /\ Len(h) >= o + n
      /\ \A i \in 1..l : h[i] = b[i]
  BY <1>1, <1>2, Grown
<1>4. PICK m \in Nat : m = Len(h) /\ DOMAIN h = 1..m /\ m >= l /\ m >= o + n
  BY <1>3
<1>5. g = [i \in 1..m |-> IF i - o \in 1..n THEN new[i - o] ELSE h[i]]
  BY <1>1, <1>2, <1>4 DEF writeRange
<1>6. \A i \in 1..m : (IF i - o \in 1..n THEN new[i - o] ELSE h[i]) \in Cells
  BY <1>1, <1>3, <1>4
<1>7. g \in [1..m -> Cells]
  BY <1>5, <1>6
<1>8. g \in Seq(Cells) /\ Len(g) = m
  BY <1>7
<1>9. ASSUME NEW i \in 1..n PROVE g[o + i] = new[i]
  <2>1. o + i \in 1..m /\ (o + i) - o = i
    BY <1>4
  <2> QED BY <1>5, <2>1
<1>10. ASSUME NEW i \in 1..l, i <= o \/ o + n < i PROVE g[i] = b[i]
  <2>1. i \in 1..m /\ i - o \notin 1..n
    BY <1>4, <1>10
  <2> QED BY <1>3, <1>5, <2>1
<1> QED BY <1>1, <1>4, <1>8, <1>9, <1>10

(* What r wrote last stays where it is when bytes that r does not hold are *)
(* written; and when the memory grows.                                     *)
LEMMA LatestElsewhere ==
  ASSUME NEW r, version[r].length \in Nat, NEW base \in Nat, NEW cap \in Nat, version[r].length <= cap,
         NEW b \in Seq(Cells), LatestAt(r, b, base), NEW o \in Nat, NEW n \in Nat, NEW g \in Seq(Cells),
         Len(g) >= Len(b), \A i \in 1..Len(b) : i <= o \/ o + n < i => g[i] = b[i],
         \A x \in Nat : ~(Within(base, cap, x) /\ Within(o, n, x))
  PROVE  LatestAt(r, g, base)
<1>1. PICK k \in Nat, l \in Nat, m \in Nat : k = version[r].length /\ k <= cap
                                            /\ l = Len(b) /\ m = Len(g) /\ m >= l
  OBVIOUS
<1>2. (k # 0 => base + k <= l) /\ \A i \in 1..k : b[base + i] = <<r, version[r].n>>
  BY <1>1 DEF LatestAt
<1>3. ASSUME NEW i \in 1..k PROVE g[base + i] = <<r, version[r].n>>
  <2>1. k # 0 /\ base + i \in 1..l
    BY <1>2
  <2>2. base + i - 1 \in Nat /\ Within(base, cap, base + i - 1)
    BY <1>1 DEF Within
  <2>3. ~Within(o, n, base + i - 1)
    BY <2>2
  <2>4. base + i <= o \/ o + n < base + i
    BY <2>3 DEF Within
  <2> QED BY <1>1, <1>2, <2>1, <2>4
<1>4. k # 0 => base + k <= m
  BY <1>1, <1>2
<1> QED BY <1>1, <1>3, <1>4 DEF LatestAt

(* Growing a pool moves no byte.                                           *)
LEMMA LatestGrown ==
  ASSUME NEW r, version[r].length \in Nat, NEW base \in Nat,
         NEW b \in Seq(Cells), LatestAt(r, b, base), NEW g \in Seq(Cells),
         Len(g) >= Len(b), \A i \in 1..Len(b) : g[i] = b[i]
  PROVE  LatestAt(r, g, base)
<1>1. \A x \in Nat : ~Within(0, 0, x)
  BY DEF Within
<1>2. \A x \in Nat : ~(Within(base, version[r].length, x) /\ Within(0, 0, x))
  BY <1>1
<1>3. 0 \in Nat /\ version[r].length <= version[r].length
  OBVIOUS
<1> QED BY <1>2, <1>3, LatestElsewhere

(* A copy of a region's span, and a span written whole, hold the same.     *)
LEMMA LatestCopied ==
  ASSUME NEW r, version[r].length \in Nat, NEW o \in Nat, NEW p \in Nat, NEW n \in Nat,
         version[r].length <= n, NEW b, LatestAt(r, b, o), NEW g, Len(g) \in Nat,
         p + n <= Len(g), \A i \in 1..n : g[p + i] = b[o + i]
  PROVE  LatestAt(r, g, p)
<1>1. PICK k \in Nat : k = version[r].length /\ k <= n
  OBVIOUS
<1>2. p + k <= Len(g)
  BY <1>1
<1>3. \A i \in 1..k : i \in 1..n
  BY <1>1
<1> QED BY <1>1, <1>2, <1>3 DEF LatestAt

(* It depends on what was written to r only.                               *)
LEMMA LatestSame ==
  ASSUME NEW r, version'[r] = version[r], NEW b, NEW o
  PROVE  LatestAt(r, b, o)' <=> LatestAt(r, b, o)
BY DEF LatestAt

-----------------------------------------------------------------------------
(* The calls *)

(* The kinds of call are told apart by their op.                           *)
LEMMA TaskTags ==
  /\ [op |-> "evict"].op = "evict"
  /\ \A r : PromoteOf(r).op = "promote" /\ PromoteOf(r).region = r
  /\ \A kind, capacity, ready :
       LET task == Creating(kind, capacity, ready)
       IN task.op = "create" /\ task.kind = kind /\ task.capacity = capacity /\ task.ready = ready
BY DEF PromoteOf, Creating

(* A request stays awaited while its call goes on unchanged.               *)
LEMMA AwaitedKept ==
  ASSUME NEW q, Awaited(q), DOMAIN slots \subseteq DOMAIN slots', q.task \in DOMAIN tasks',
         tasks'[q.task] = tasks[q.task]
  PROVE  Awaited(q)'
BY DEF Awaited

(* A call's task ends or changes while no request of it is on its way.     *)
LEMMA CallsChanged ==
  ASSUME CallsMatched, calls' \in Nat, calls <= calls', DOMAIN slots \subseteq DOMAIN slots',
         NEW t,
         \A u \in DOMAIN tasks \ {t} : u \in DOMAIN tasks' /\ tasks'[u] = tasks[u],
         DOMAIN tasks' \subseteq DOMAIN tasks \cup {t},
         t \in DOMAIN tasks' => t \in Nat /\ t <= calls' /\ TaskOK(tasks'[t]) /\ tasks'[t].op # "promote",
         \A q \in Queued' \cup Answered' : (q \in Queued \cup Answered /\ q.task # t) \/ Awaited(q)',
         \A r \in DOMAIN slots : \A u \in DOMAIN tasks \ {t} :
           tasks[u] = PromoteOf(r) => slots'[r].residency = "Cold"
  PROVE  CallsMatched'
<1>1. \A task : TaskOK(task) => TaskOK(task)'
  BY DEF TaskOK
<1>2. \A u \in DOMAIN tasks' : u \in Nat /\ u <= calls' /\ TaskOK(tasks[u])'
  <2> SUFFICES ASSUME NEW u \in DOMAIN tasks' PROVE u \in Nat /\ u <= calls' /\ TaskOK(tasks[u])'
    OBVIOUS
  <2>1. CASE u = t
    BY <1>1, <2>1
  <2>2. CASE u # t
    <3>1. u \in DOMAIN tasks /\ tasks'[u] = tasks[u] /\ u \in Nat /\ u <= calls /\ TaskOK(tasks[u])
      BY <2>2 DEF CallsMatched
    <3>2. u <= calls'
      BY <3>1 DEF CallsMatched
    <3> QED BY <1>1, <3>1, <3>2
  <2> QED BY <2>1, <2>2
<1>3. \A q \in Queued' \cup Answered' : Awaited(q)'
  <2> SUFFICES ASSUME NEW q \in Queued \cup Answered, q.task # t PROVE Awaited(q)'
    OBVIOUS
  <2>1. Awaited(q) /\ q.task \in DOMAIN tasks \ {t}
    BY DEF CallsMatched, Awaited
  <2> QED BY <2>1, AwaitedKept
<1>4. \A u \in DOMAIN tasks' : \A r : tasks'[u] = PromoteOf(r) =>
        u \in DOMAIN tasks \ {t} /\ tasks[u] = PromoteOf(r) /\ r \in DOMAIN slots
  <2> SUFFICES ASSUME NEW u \in DOMAIN tasks', NEW r, tasks'[u] = PromoteOf(r)
               PROVE  u \in DOMAIN tasks \ {t} /\ tasks[u] = PromoteOf(r) /\ r \in DOMAIN slots
    OBVIOUS
  <2>1. u # t
    BY TaskTags
  <2>2. u \in DOMAIN tasks \ {t} /\ tasks[u] = PromoteOf(r)
    BY <2>1
  <2>3. TaskOK(tasks[u])
    BY <2>2 DEF CallsMatched
  <2>4. r \in DOMAIN slots
    <3>1. tasks[u].op = "promote" /\ tasks[u].region = r
      BY <2>2, TaskTags
    <3> QED BY <2>3, <3>1, TaskTags DEF TaskOK
  <2> QED BY <2>2, <2>4
<1>5. \A u \in DOMAIN tasks', r \in DOMAIN slots' :
        tasks'[u] = PromoteOf(r) => slots'[r].residency = "Cold"
  BY <1>4
<1>6. \A u, v \in DOMAIN tasks', r \in DOMAIN slots' :
        tasks'[u] = PromoteOf(r) /\ tasks'[v] = PromoteOf(r) => u = v
  BY <1>4 DEF CallsMatched
<1> QED BY <1>2, <1>3, <1>5, <1>6 DEF CallsMatched, PromoteOf

-----------------------------------------------------------------------------
(* Steps that only label regions, end calls or grow a pool *)

(* What is on its way is of regions that exist, and fits in them.          *)
LEMMA RequestFacts ==
  ASSUME WebInv
  PROVE  /\ \A q \in Queued \cup Answered :
              /\ q.task \in Nat /\ q.op \in {"spill", "load"} /\ q.bytes \in Seq(Cells)
              /\ q.region \in DOMAIN slots /\ q.task \in DOMAIN tasks
              /\ Len(q.bytes) <= slots[q.region].capacity
              /\ q.op = "load" => slots[q.region].residency = "Cold" /\ q.region \notin Resident
         /\ \A q \in Queued : q \in Requests
         /\ open \subseteq Queued
<1>1. \A q \in Queued : q \in Requests
  <2>1. ToSet(inbox) \subseteq Requests /\ open \subseteq Requests
    BY DEF WebInv, Channel, ToSet
  <2> QED BY <2>1 DEF Queued
<1>2. \A q \in Answered : q \in Answers
  BY DEF WebInv, Channel, Answered, ToSet
<1>3. \A q \in Queued \cup Answered : q.task \in Nat /\ q.op \in {"spill", "load"} /\ q.bytes \in Seq(Cells)
  BY <1>1, <1>2 DEF Requests, Answers
<1>4. \A q \in Queued \cup Answered :
        /\ q.region \in DOMAIN slots /\ q.task \in DOMAIN tasks
        /\ q.op = "load" => tasks[q.task] = PromoteOf(q.region)
  BY DEF WebInv, CallsMatched, Awaited
<1>5. \A q \in Queued \cup Answered : q.op = "load" => slots[q.region].residency = "Cold"
  BY <1>4 DEF WebInv, CallsMatched
<1>6. \A q \in Queued \cup Answered : q.op = "load" => q.region \notin Resident
  BY <1>5 DEF Resident
<1>7. \A q \in Queued \cup Answered : Len(q.bytes) <= slots[q.region].capacity
  BY DEF WebInv, BytesTyped
<1>8. open \subseteq Queued
  BY DEF Queued
<1> QED BY <1>1, <1>3, <1>4, <1>5, <1>6, <1>7, <1>8

(* What is known of what callers wrote.                                    *)
LEMMA VersionFacts ==
  ASSUME WebInv, NEW r \in DOMAIN slots
  PROVE  /\ version[r] \in [n : Nat, length : Nat]
         /\ version[r].n \in Nat /\ version[r].length \in Nat
         /\ version[r].length <= slots[r].used /\ version[r].length <= slots[r].capacity
<1>1. version[r] \in [n : Nat, length : Nat] /\ version[r].length <= slots[r].used
  BY DEF WebInv, BytesTyped
<1>2. version[r].n \in Nat /\ version[r].length \in Nat
  BY <1>1
<1>3. slots[r].used \in Nat /\ slots[r].capacity \in Nat /\ slots[r].used <= slots[r].capacity
  BY EntryFacts DEF WebInv
<1> QED BY <1>1, <1>2, <1>3

(* A step that moves no region, posts nothing and leaves what was written  *)
(* in place keeps the invariant.                                           *)
LEMMA QuietStep ==
  ASSUME WebInv, SpansKept, DirectoryTyped', CallsMatched', AnswersLeft, inbox' = inbox, open' = open,
         UNCHANGED <<files, version, failed>>, memory' \in [Pools -> Seq(Cells)],
         \A r \in Resident : LatestAt(r, memory[slots[r].poolIndex], slots[r].baseOffset)
                             => LatestAt(r, memory'[slots[r].poolIndex], slots[r].baseOffset)
  PROVE  WebInv'
<1>1. Tiled' /\ Resident' = Resident
  BY KeptTiled DEF WebInv
<1>2. Channel' /\ Queued' = Queued /\ Answered' \subseteq Answered
  BY ChannelQuiet DEF WebInv
<1>3. \A r : NoSpill(r)' <=> NoSpill(r)
  BY <1>2 DEF NoSpill
<1>4. SpillsFirst'
  <2>1. \A q \in open' : q.region \in DOMAIN files'
    BY DEF WebInv, SpillsFirst
  <2>2. \A q \in open' : q.op = "load" => NoSpill(q.region)'
    BY <1>3 DEF WebInv, SpillsFirst
  <2>3. \A q \in Answered' : q.op = "load" /\ q.ok => NoSpill(q.region)'
    BY <1>2, <1>3 DEF WebInv, SpillsFirst
  <2>4. \A r \in Resident' : NoSpill(r)'
    BY <1>1, <1>3 DEF WebInv, SpillsFirst
  <2> QED BY <2>1, <2>2, <2>3, <2>4 DEF SpillsFirst
<1>5. BytesTyped'
  <2>1. \A r \in DOMAIN files' : r \in DOMAIN slots' /\ Len(files'[r]) <= slots'[r].capacity
    BY DEF WebInv, BytesTyped, SpansKept
  <2>2. ASSUME NEW r \in DOMAIN slots' PROVE version'[r].length <= slots'[r].used
    <3>1. r \in DOMAIN slots /\ slots[r].used <= slots'[r].used
      BY DEF SpansKept
    <3>2. slots[r].used \in Nat /\ slots'[r].used \in Nat
      <4>1. slots'[r] \in Entries
        BY DEF DirectoryTyped
      <4> QED BY <3>1, <4>1, EntryFacts DEF WebInv, Entries
    <3>3. version[r].length \in Nat /\ version[r].length <= slots[r].used
      BY <3>1, VersionFacts
    <3> QED BY <3>1, <3>2, <3>3
  <2>3. \A q \in Queued' \cup Answered' : Len(q.bytes) <= slots'[q.region].capacity
    BY <1>2, RequestFacts DEF SpansKept
  <2>4. files' \in [DOMAIN files' -> Seq(Cells)] /\ version' \in [DOMAIN slots' -> [n : Nat, length : Nat]]
    BY DEF WebInv, BytesTyped, SpansKept
  <2> QED BY <2>1, <2>2, <2>3, <2>4 DEF BytesTyped
<1>6. BytesLatest'
  <2>1. \A r, b, o : LatestAt(r, b, o)' <=> LatestAt(r, b, o)
    BY LatestSame
  <2>2. ASSUME NEW r \in Resident' \ failed'
        PROVE  LatestAt(r, memory[slots[r].poolIndex], slots[r].baseOffset)'
    <3>1. r \in Resident /\ r \in DOMAIN slots
      BY <1>1 DEF Resident
    <3>2. LatestAt(r, memory[slots[r].poolIndex], slots[r].baseOffset)
      BY <2>2, <3>1 DEF WebInv, BytesLatest
    <3>3. LatestAt(r, memory'[slots[r].poolIndex], slots[r].baseOffset)
      BY <3>1, <3>2
    <3>4. slots'[r].poolIndex = slots[r].poolIndex /\ slots'[r].baseOffset = slots[r].baseOffset
      BY <3>1 DEF SpansKept
    <3> QED BY <3>3, <3>4 DEF LatestAt
  <2>3. \A q \in Queued' : q.op = "spill" /\ q.region \notin failed' => LatestAt(q.region, q.bytes, 0)'
    BY <1>2, <2>1 DEF WebInv, BytesLatest
  <2>4. \A r \in DOMAIN slots' \ failed' :
          r \notin Resident' /\ NoSpill(r)' => r \in DOMAIN files' /\ LatestAt(r, files[r], 0)'
    <3>1. \A r \in DOMAIN slots \ failed :
            r \notin Resident /\ NoSpill(r) => r \in DOMAIN files /\ LatestAt(r, files[r], 0)
      BY DEF WebInv, BytesLatest
    <3>2. \A r : LatestAt(r, files[r], 0)' <=> LatestAt(r, files[r], 0)
      BY DEF LatestAt
    <3> QED BY <1>1, <1>3, <3>1, <3>2 DEF SpansKept
  <2>5. \A q \in Answered' : q.op = "load" /\ q.ok /\ q.region \notin failed'
          => LatestAt(q.region, q.bytes, 0)'
    BY <1>2, <2>1 DEF WebInv, BytesLatest
  <2> QED BY <2>2, <2>3, <2>4, <2>5 DEF BytesLatest
<1> QED BY <1>1, <1>2, <1>4, <1>5, <1>6 DEF WebInv

(* The task of a call that starts is new, and one that is ready to create  *)
(* its region waits for nothing.                                           *)
LEMMA FreshTask ==
  ASSUME WebInv
  PROVE  /\ calls + 1 \in Nat /\ calls + 1 \notin DOMAIN tasks
         /\ \A q \in Queued \cup Answered : q.task # calls + 1
<1>1. calls \in Nat /\ \A t \in DOMAIN tasks : t \in Nat /\ t <= calls
  BY DEF WebInv, CallsMatched
<1>2. calls + 1 \in Nat /\ calls + 1 \notin DOMAIN tasks
  BY <1>1
<1> QED BY <1>2, RequestFacts

(* A call about to create its region waits for no request.                 *)
LEMMA ReadyTask ==
  ASSUME WebInv, NEW t \in DOMAIN tasks, tasks[t].op = "create", tasks[t].ready
  PROVE  \A q \in Queued \cup Answered : q.task # t
BY DEF WebInv, CallsMatched, Awaited

(* No call starts, changes or ends.                                        *)
LEMMA CallsSame ==
  ASSUME WebInv, SpansKept, UNCHANGED <<tasks, calls, inbox, open, replies>>
  PROVE  CallsMatched' /\ AnswersLeft
<1>1. Queued' = Queued /\ Answered' = Answered
  BY DEF Queued, Answered
<1>2. /\ DOMAIN slots \subseteq DOMAIN slots'
      /\ \A r \in DOMAIN slots : slots[r].residency = "Cold" => slots'[r].residency = "Cold"
  BY DEF SpansKept
<1>3. PICK t : t = calls + 1 /\ t \notin DOMAIN tasks /\ \A q \in Queued \cup Answered : q.task # t
  BY FreshTask
<1>4. calls \in Nat /\ calls <= calls /\ CallsMatched
  BY DEF WebInv, CallsMatched
<1>5. \A r \in DOMAIN slots : \A u \in DOMAIN tasks \ {t} :
        tasks[u] = PromoteOf(r) => slots'[r].residency = "Cold"
  BY <1>2 DEF WebInv, CallsMatched
<1>6. CallsMatched'
  BY <1>1, <1>2, <1>3, <1>4, <1>5, CallsChanged
<1> QED BY <1>6 DEF AnswersLeft

(* An answer is read, and its call ends or goes on to create its region.   *)
LEMMA CallsEnd ==
  ASSUME WebInv, SpansKept, AnswersLeft, inbox' = inbox, open' = open, NEW t \in Nat,
         calls' \in Nat, calls <= calls', t <= calls',
         \A q \in Queued \cup Answered' : q.task # t,
         \/ tasks' = Without(tasks, t)
         \/ \E w \in Wanted : tasks' = With(tasks, t, Creating(w.kind, w.capacity, TRUE))
  PROVE  CallsMatched'
<1>1. Queued' = Queued /\ Answered' \subseteq Answered
  BY ChannelQuiet DEF WebInv
<1>2. /\ DOMAIN slots \subseteq DOMAIN slots'
      /\ \A r \in DOMAIN slots : slots[r].residency = "Cold" => slots'[r].residency = "Cold"
  BY DEF SpansKept
<1>3. /\ \A u \in DOMAIN tasks \ {t} : u \in DOMAIN tasks' /\ tasks'[u] = tasks[u]
      /\ DOMAIN tasks' \subseteq DOMAIN tasks \cup {t}
      /\ t \in DOMAIN tasks' => TaskOK(tasks'[t]) /\ tasks'[t].op # "promote"
  <2>1. CASE tasks' = Without(tasks, t)
    <3>1. /\ DOMAIN tasks' = DOMAIN tasks \ {t}
          /\ \A u \in DOMAIN tasks \ {t} : tasks'[u] = tasks[u]
      BY <2>1 DEF Without
    <3> QED BY <3>1
  <2>2. CASE \E w \in Wanted : tasks' = With(tasks, t, Creating(w.kind, w.capacity, TRUE))
    <3>0. PICK w \in Wanted : tasks' = With(tasks, t, Creating(w.kind, w.capacity, TRUE))
      BY <2>2
    <3>1. PICK task : task = Creating(w.kind, w.capacity, TRUE) /\ tasks' = With(tasks, t, task)
      BY <3>0
    <3>2. /\ DOMAIN tasks' = DOMAIN tasks \cup {t} /\ tasks'[t] = task
          /\ \A u \in DOMAIN tasks \ {t} : tasks'[u] = tasks[u]
      BY <3>1 DEF With
    <3>3. TaskOK(task)
      BY <3>1 DEF TaskOK
    <3>4. task.op # "promote"
      BY <3>1 DEF Creating
    <3> QED BY <3>2, <3>3, <3>4
  <2> QED BY <2>1, <2>2
<1>5. \A r \in DOMAIN slots : \A u \in DOMAIN tasks \ {t} :
        tasks[u] = PromoteOf(r) => slots'[r].residency = "Cold"
  BY <1>2 DEF WebInv, CallsMatched
<1>6. CallsMatched
  BY DEF WebInv
<1> QED BY <1>1, <1>2, <1>3, <1>5, <1>6, CallsChanged

(* Nothing of the bytes changes.                                           *)
LEMMA QuietBytes ==
  ASSUME WebInv, SpansKept, DirectoryTyped', CallsMatched', AnswersLeft, inbox' = inbox, open' = open,
         UNCHANGED <<memory, files, version, failed>>
  PROVE  WebInv'
<1>1. memory' \in [Pools -> Seq(Cells)]
  BY DEF WebInv, BytesTyped
<1>2. \A r \in Resident : LatestAt(r, memory[slots[r].poolIndex], slots[r].baseOffset)
                          => LatestAt(r, memory'[slots[r].poolIndex], slots[r].baseOffset)
  OBVIOUS
<1> QED BY <1>1, <1>2, QuietStep

(* A step that changes labels of one entry: residency between Hot and      *)
(* Warm, pinned, more bytes used.                                          *)
LEMMA Relabelled ==
  ASSUME WebInv, NEW r \in DOMAIN slots, NEW e \in Entries,
         e.poolIndex = slots[r].poolIndex, e.baseOffset = slots[r].baseOffset,
         e.capacity = slots[r].capacity, slots[r].used <= e.used, e.used <= e.capacity,
         e.residency = "Cold" <=> slots[r].residency = "Cold",
         slots' = [slots EXCEPT ![r] = e], warmLru' \in Seq(DOMAIN slots),
         UNCHANGED <<pools, nextId, cursorHot, cursorWarm>>
  PROVE  SpansKept /\ DirectoryTyped'
<1>1. slots \in [DOMAIN slots -> Entries]
  BY DEF WebInv, DirectoryTyped
<1>2. /\ DOMAIN slots' = DOMAIN slots /\ slots' \in [DOMAIN slots -> Entries] /\ slots'[r] = e
      /\ \A s \in DOMAIN slots \ {r} : slots'[s] = slots[s]
  BY <1>1
<1>3. \A s \in DOMAIN slots : slots[s].used \in Nat
  BY EntryFacts DEF WebInv
<1>4. SpansKept
  <2> SUFFICES ASSUME NEW s \in DOMAIN slots
               PROVE  /\ slots'[s].poolIndex = slots[s].poolIndex /\ slots'[s].baseOffset = slots[s].baseOffset
                      /\ slots'[s].capacity = slots[s].capacity /\ slots[s].used <= slots'[s].used
                      /\ slots'[s].residency = "Cold" <=> slots[s].residency = "Cold"
    BY <1>2 DEF SpansKept
  <2>1. CASE s = r
    BY <1>2, <2>1
  <2>2. CASE s # r
    BY <1>2, <1>3, <2>2
  <2> QED BY <2>1, <2>2
<1>5. \A s \in DOMAIN slots : s \in Nat /\ s < nextId /\ slots'[s].used <= slots'[s].capacity
  BY <1>2, EntryFacts DEF WebInv
<1> QED BY <1>2, <1>4, <1>5 DEF DirectoryTyped, WebInv

(* A step that leaves the directory alone.                                 *)
LEMMA UnchangedTyped ==
  ASSUME DirectoryTyped, UNCHANGED directory
  PROVE  DirectoryTyped' /\ SpansKept
<1>1. UNCHANGED <<pools, slots, nextId, cursorHot, cursorWarm, warmLru>>
  BY DEF directory
<1> QED BY <1>1, UnchangedKeeps DEF DirectoryTyped

(* alloc grows a region's pool to hold it.                                 *)
LEMMA AllocKeeps ==
  ASSUME WebInv, NEW r \in DOMAIN slots, NEW size \in Sizes, alloc(r, size)
  PROVE  WebInv'
<1>1. PICK k \in Pools, o \in Nat, c \in Nat \ {0}, u \in Nat :
        /\ k = slots[r].poolIndex /\ o = slots[r].baseOffset /\ c = slots[r].capacity /\ u = slots[r].used
        /\ slots[r] \in Entries
  BY EntryFacts DEF WebInv
<1>2. size \in Nat
  BY WebAssumption
<1>3. PICK e : e = [slots[r] EXCEPT !.used = u + size]
  OBVIOUS
<1>4. /\ u + size <= c
      /\ slots' = [slots EXCEPT ![r] = e]
      /\ memory' = [memory EXCEPT ![k] = ensureSize(memory[k], o + c)]
      /\ UNCHANGED <<pools, nextId, cursorHot, cursorWarm, warmLru, tasks, calls, version, failed>>
      /\ UNCHANGED <<inbox, open, replies, files>>
  BY <1>1, <1>3 DEF alloc, worker
<1>5. /\ e \in Entries /\ e.poolIndex = slots[r].poolIndex /\ e.baseOffset = slots[r].baseOffset
      /\ e.capacity = slots[r].capacity /\ e.residency = slots[r].residency /\ e.used = u + size
  BY <1>1, <1>2, <1>3 DEF Entries
<1>6. slots[r].used <= e.used /\ e.used <= e.capacity
  BY <1>1, <1>2, <1>4, <1>5
<1>7. warmLru' \in Seq(DOMAIN slots)
  BY <1>4 DEF WebInv, DirectoryTyped
<1>8. SpansKept /\ DirectoryTyped'
  BY <1>4, <1>5, <1>6, <1>7, Relabelled
<1>9. CallsMatched' /\ AnswersLeft
  BY <1>4, <1>8, CallsSame
<1>10. memory \in [Pools -> Seq(Cells)]
  BY DEF WebInv, BytesTyped
<1>10a. PICK b \in Seq(Cells) : b = memory[k]
  BY <1>10
<1>11. PICK g : b = memory[k] /\ g = ensureSize(b, o + c)
  BY <1>10a
<1>12. /\ g \in Seq(Cells) /\ Len(b) \in Nat /\ Len(g) \in Nat /\ Len(g) >= Len(b)
       /\ \A i \in 1..Len(b) : g[i] = b[i]
  <2>1. o + c \in Nat
    BY <1>1
  <2> QED BY <1>11, <2>1, Grown
<1>13. /\ memory' \in [Pools -> Seq(Cells)] /\ memory'[k] = g
       /\ \A j \in Pools \ {k} : memory'[j] = memory[j]
  BY <1>4, <1>10, <1>11, <1>12
<1>14. ASSUME NEW s \in Resident, LatestAt(s, memory[slots[s].poolIndex], slots[s].baseOffset)
       PROVE  LatestAt(s, memory'[slots[s].poolIndex], slots[s].baseOffset)
  <2>1. PICK j \in Pools, p \in Nat : j = slots[s].poolIndex /\ p = slots[s].baseOffset
    BY EntryFacts DEF WebInv, Resident
  <2>2. version[s].length \in Nat
    BY VersionFacts DEF Resident
  <2>3. CASE j = k
    <3>1. LatestAt(s, b, p)
      BY <1>11, <1>14, <2>1, <2>3
    <3>2. LatestAt(s, g, p)
      BY <1>12, <2>2, <3>1, LatestGrown
    <3> QED BY <1>13, <2>1, <2>3, <3>2
  <2>4. CASE j # k
    BY <1>13, <1>14, <2>1, <2>4
  <2> QED BY <2>3, <2>4
<1> QED BY <1>4, <1>8, <1>9, <1>13, <1>14, QuietStep

(* pin, unpin and demote.                                                  *)
LEMMA RelabelKeeps ==
  ASSUME WebInv, NEW r \in DOMAIN slots, NEW e \in Entries, NEW lru \in Seq(DOMAIN slots),
         e.poolIndex = slots[r].poolIndex, e.baseOffset = slots[r].baseOffset,
         e.capacity = slots[r].capacity, e.used = slots[r].used,
         e.residency = "Cold" <=> slots[r].residency = "Cold",
         Relabel(r, e, lru)
  PROVE  WebInv'
<1>1. /\ slots' = [slots EXCEPT ![r] = e] /\ warmLru' = lru
      /\ UNCHANGED <<pools, nextId, cursorHot, cursorWarm>>
      /\ UNCHANGED <<tasks, calls, inbox, open, replies>>
      /\ UNCHANGED <<memory, files, version, failed>>
  BY DEF Relabel, worker
<1>2. slots[r].used <= e.used /\ e.used <= e.capacity /\ warmLru' \in Seq(DOMAIN slots)
  <2>1. slots[r].used \in Nat /\ slots[r].used <= slots[r].capacity
    BY EntryFacts DEF WebInv
  <2> QED BY <1>1, <2>1
<1>3. SpansKept /\ DirectoryTyped'
  BY <1>1, <1>2, Relabelled
<1>4. CallsMatched' /\ AnswersLeft
  BY <1>1, <1>3, CallsSame
<1> QED BY <1>1, <1>3, <1>4, QuietBytes

(* pin, unpin and demote keep the invariant.                               *)
LEMMA PinKeeps ==
  ASSUME WebInv, NEW r \in DOMAIN slots, pin(r) \/ unpin(r) \/ demote(r)
  PROVE  WebInv'
<1>1. slots[r] \in Entries /\ warmLru \in Seq(DOMAIN slots)
  BY EntryFacts DEF WebInv, DirectoryTyped
<1>2. lruRemove(warmLru, r) \in Seq(DOMAIN slots) /\ lruPushFront(warmLru, r) \in Seq(DOMAIN slots)
  BY <1>1, LruTyped
<1>3. CASE pin(r)
  <2>1. PICK e : e = [slots[r] EXCEPT !.pinned = TRUE]
    OBVIOUS
  <2>2. /\ e \in Entries /\ e.poolIndex = slots[r].poolIndex /\ e.baseOffset = slots[r].baseOffset
        /\ e.capacity = slots[r].capacity /\ e.used = slots[r].used /\ e.residency = slots[r].residency
    BY <1>1, <2>1 DEF Entries
  <2>3. Relabel(r, e, lruRemove(warmLru, r))
    BY <1>3, <2>1 DEF pin
  <2> QED BY <1>2, <2>2, <2>3, RelabelKeeps
<1>4. CASE unpin(r)
  <2>1. PICK e : e = [slots[r] EXCEPT !.pinned = FALSE]
    OBVIOUS
  <2>2. /\ e \in Entries /\ e.poolIndex = slots[r].poolIndex /\ e.baseOffset = slots[r].baseOffset
        /\ e.capacity = slots[r].capacity /\ e.used = slots[r].used /\ e.residency = slots[r].residency
    BY <1>1, <2>1 DEF Entries
  <2>3. PICK lru \in Seq(DOMAIN slots) : Relabel(r, e, lru)
    BY <1>1, <1>2, <1>4, <2>1 DEF unpin
  <2> QED BY <2>2, <2>3, RelabelKeeps
<1>5. CASE demote(r)
  <2>1. PICK e : e = [slots[r] EXCEPT !.residency = "Warm"]
    OBVIOUS
  <2>2. /\ e \in Entries /\ e.poolIndex = slots[r].poolIndex /\ e.baseOffset = slots[r].baseOffset
        /\ e.capacity = slots[r].capacity /\ e.used = slots[r].used /\ e.residency = "Warm"
    BY <1>1, <2>1 DEF Entries
  <2>3. Relabel(r, e, lruPushFront(warmLru, r)) /\ slots[r].residency = "Hot"
    BY <1>5, <2>1 DEF demote
  <2> QED BY <1>2, <2>2, <2>3, RelabelKeeps
<1> QED BY <1>3, <1>4, <1>5

(* setBudget, and steps that change nothing here.                          *)
LEMMA SameKeeps ==
  ASSUME WebInv, UNCHANGED <<directory, memory, worker, tasks, calls, version, failed>>
  PROVE  WebInv'
<1>1. UNCHANGED directory /\ UNCHANGED <<tasks, calls, inbox, open, replies>>
      /\ UNCHANGED <<memory, files, version, failed>>
  BY DEF worker
<1>2. SpansKept /\ DirectoryTyped'
  BY <1>1, UnchangedTyped DEF WebInv
<1>3. CallsMatched' /\ AnswersLeft
  BY <1>1, <1>2, CallsSame
<1> QED BY <1>1, <1>2, <1>3, QuietBytes

-----------------------------------------------------------------------------
(* Writes *)

(* The bytes behind the first o begin with the new ones.                   *)
Stored(bytes, o, new) == \A i \in 1..Len(new) : bytes[o + i] = new[i]

(* Regions that hold none of the n bytes behind the first o of pool k keep *)
(* what was written to them last.                                          *)
Spared(k, o, n) ==
  \A s \in Resident :
    /\ LatestAt(s, memory[slots[s].poolIndex], slots[s].baseOffset)
    /\ slots[s].poolIndex = k =>
         \A x \in Nat : ~(Within(slots[s].baseOffset, slots[s].capacity, x) /\ Within(o, n, x))
    => LatestAt(s, memory'[slots[s].poolIndex], slots[s].baseOffset)

(* writeRange stores the new bytes, and regions apart from them keep       *)
(* theirs.                                                                 *)
LEMMA MemoryWritten ==
  ASSUME WebInv, NEW k \in Pools, NEW o \in Nat, NEW new \in Seq(Cells),
         NEW g, g = writeRange(memory[k], o, new), memory' = [memory EXCEPT ![k] = g]
  PROVE  /\ memory' \in [Pools -> Seq(Cells)]
         /\ Len(memory'[k]) \in Nat /\ Len(new) \in Nat /\ o + Len(new) <= Len(memory'[k])
         /\ Stored(memory'[k], o, new) /\ Spared(k, o, Len(new))
<1>1. memory \in [Pools -> Seq(Cells)]
  BY DEF WebInv, BytesTyped
<1>2. PICK b \in Seq(Cells) : b = memory[k] /\ g = writeRange(b, o, new)
  BY <1>1
<1>3. /\ g \in Seq(Cells) /\ Len(b) \in Nat /\ Len(g) \in Nat /\ Len(new) \in Nat
      /\ Len(g) >= Len(b) /\ Len(g) >= o + Len(new)
      /\ \A i \in 1..Len(new) : g[o + i] = new[i]
      /\ \A i \in 1..Len(b) : i <= o \/ o + Len(new) < i => g[i] = b[i]
  BY <1>2, Written
<1>4. /\ memory' \in [Pools -> Seq(Cells)] /\ memory'[k] = g
      /\ \A j \in Pools \ {k} : memory'[j] = memory[j]
  BY <1>1, <1>2, <1>3
<1>5. ASSUME NEW s \in Resident, LatestAt(s, memory[slots[s].poolIndex], slots[s].baseOffset),
             slots[s].poolIndex = k =>
               \A x \in Nat : ~(Within(slots[s].baseOffset, slots[s].capacity, x) /\ Within(o, Len(new), x))
      PROVE  LatestAt(s, memory'[slots[s].poolIndex], slots[s].baseOffset)
  <2>1. PICK j \in Pools, p \in Nat, c \in Nat :
          j = slots[s].poolIndex /\ p = slots[s].baseOffset /\ c = slots[s].capacity
    BY EntryFacts DEF WebInv, Resident
  <2>2. version[s].length \in Nat /\ version[s].length <= c
    BY <2>1, VersionFacts DEF Resident
  <2>3. CASE j = k
    <3>1. LatestAt(s, b, p) /\ \A x \in Nat : ~(Within(p, c, x) /\ Within(o, Len(new), x))
      BY <1>2, <1>5, <2>1, <2>3
    <3>2. LatestAt(s, g, p)
      BY <1>3, <2>2, <3>1, LatestElsewhere
    <3> QED BY <1>4, <2>1, <2>3, <3>2
  <2>4. CASE j # k
    BY <1>4, <1>5, <2>1, <2>4
  <2> QED BY <2>3, <2>4
<1>6. o + Len(new) <= Len(g)
  BY <1>3
<1>7. Spared(k, o, Len(new))
  BY <1>5 DEF Spared
<1>8. Stored(g, o, new)
  BY <1>3 DEF Stored
<1> QED BY <1>3, <1>4, <1>6, <1>7, <1>8

(* A write of a resident region: its bytes are the latest, and the others' *)
(* are not touched because no two regions hold one byte.                   *)
LEMMA WriteKeeps ==
  ASSUME WebInv, NEW r \in DOMAIN slots, write(r)
  PROVE  WebInv'
<1>1. PICK k \in Pools, o \in Nat, c \in Nat \ {0}, u \in Nat :
        /\ k = slots[r].poolIndex /\ o = slots[r].baseOffset /\ c = slots[r].capacity /\ u = slots[r].used
        /\ u <= c /\ r \in Nat
  BY EntryFacts DEF WebInv
<1>2. PICK m \in Nat : m = version[r].n + 1
  BY VersionFacts
<1>3. PICK new : new = [i \in 1..u |-> <<r, m>>]
  OBVIOUS
<1>4. new \in Seq(Cells) /\ Len(new) = u /\ \A i \in 1..u : new[i] = <<r, m>>
  <2>1. <<r, m>> \in Cells
    BY <1>1, <1>2 DEF Cells
  <2> QED BY <1>3, <2>1
<1>5. PICK next : next = [n |-> m, length |-> u]
  OBVIOUS
<1>6. /\ r \in Resident
      /\ memory' = [memory EXCEPT ![k] = writeRange(memory[k], o, new)]
      /\ version' = [version EXCEPT ![r] = next]
      /\ failed' = failed \ {r}
      /\ UNCHANGED directory /\ UNCHANGED <<tasks, calls, inbox, open, replies, files>>
  BY <1>1, <1>2, <1>3, <1>5 DEF write, worker, Resident
<1>7. SpansKept /\ DirectoryTyped' /\ UNCHANGED <<pools, slots>>
  BY <1>6, UnchangedTyped DEF WebInv, directory
<1>8. CallsMatched' /\ AnswersLeft
  BY <1>6, <1>7, CallsSame
<1>9. Tiled' /\ Resident' = Resident
  BY <1>7, KeptTiled DEF WebInv
<1>10. Channel' /\ Queued' = Queued /\ Answered' \subseteq Answered
  BY <1>6, <1>8, ChannelQuiet DEF WebInv
<1>11. \A s : NoSpill(s)' <=> NoSpill(s)
  BY <1>10 DEF NoSpill
<1>12. SpillsFirst'
  <2>1. SpillsFirst
    BY DEF WebInv
  <2> QED BY <1>6, <1>9, <1>10, <1>11, <2>1 DEF SpillsFirst
<1>13. /\ version' \in [DOMAIN slots -> [n : Nat, length : Nat]]
       /\ version'[r].n = m /\ version'[r].length = u
       /\ \A s \in DOMAIN slots \ {r} : version'[s] = version[s]
  <2>1. version \in [DOMAIN slots -> [n : Nat, length : Nat]]
    BY DEF WebInv, BytesTyped
  <2>2. next \in [n : Nat, length : Nat] /\ next.n = m /\ next.length = u
    BY <1>5
  <2> QED BY <1>6, <2>1, <2>2
<1>14. /\ memory' \in [Pools -> Seq(Cells)]
       /\ o + u <= Len(memory'[k])
       /\ \A i \in 1..u : memory'[k][o + i] = <<r, m>>
       /\ Spared(k, o, u)
  <2>1. /\ memory' \in [Pools -> Seq(Cells)]
        /\ o + Len(new) <= Len(memory'[k])
        /\ Stored(memory'[k], o, new) /\ Spared(k, o, Len(new))
    <3>1. PICK g : g = writeRange(memory[k], o, new) /\ memory' = [memory EXCEPT ![k] = g]
      BY <1>6
    <3>2. new \in Seq(Cells)
      BY <1>4
    <3> QED BY <3>1, <3>2, MemoryWritten
  <2>2. Len(new) = u
    BY <1>4
  <2>3. \A i \in 1..u : memory'[k][o + i] = <<r, m>>
    BY <1>4, <2>1 DEF Stored
  <2> QED BY <2>1, <2>2, <2>3
<1>15. BytesTyped'
  <2>1. \A s \in DOMAIN slots : version'[s].length <= slots[s].used
    <3>1. \A s \in DOMAIN slots \ {r} : version[s].length <= slots[s].used
      BY VersionFacts
    <3>2. version'[r].length <= slots[r].used
      BY <1>1, <1>13
    <3> QED BY <1>13, <3>1, <3>2
  <2> QED BY <1>6, <1>7, <1>10, <1>13, <1>14, <2>1 DEF WebInv, BytesTyped
<1>16. BytesLatest'
  <2>1. \A s \in DOMAIN slots \ {r} : \A b, p : LatestAt(s, b, p)' <=> LatestAt(s, b, p)
    BY <1>13, LatestSame
  <2>2. ASSUME NEW s \in Resident' \ failed'
        PROVE  LatestAt(s, memory[slots[s].poolIndex], slots[s].baseOffset)'
    <3>1. CASE s = r
      <4>1. memory'[slots'[s].poolIndex] = memory'[k] /\ slots'[s].baseOffset = o
        BY <1>1, <1>7, <3>1
      <4> QED BY <1>13, <1>14, <3>1, <4>1 DEF LatestAt
    <3>2. CASE s # r
      <4>1. s \in Resident \ failed /\ s \in DOMAIN slots \ {r}
        BY <1>6, <1>9, <2>2, <3>2 DEF Resident
      <4>2. LatestAt(s, memory[slots[s].poolIndex], slots[s].baseOffset)
        BY <4>1 DEF WebInv, BytesLatest
      <4>3. ASSUME slots[s].poolIndex = k, NEW x \in Nat
            PROVE  ~(Within(slots[s].baseOffset, slots[s].capacity, x) /\ Within(o, u, x))
        <5>1. r \in Here(k) /\ s \in Here(k)
          BY <1>1, <1>6, <4>1, <4>3 DEF Here
        <5>2. ~(Holds(s, x) /\ Holds(r, x))
          BY <3>2, <5>1 DEF WebInv, Tiled
        <5>3. Within(o, u, x) => Within(o, c, x)
          BY <1>1 DEF Within
        <5> QED BY <1>1, <5>2, <5>3 DEF Holds
      <4>4. LatestAt(s, memory'[slots[s].poolIndex], slots[s].baseOffset)
        BY <1>14, <4>1, <4>2, <4>3 DEF Spared
      <4>5. slots' = slots /\ version'[s] = version[s]
        BY <1>7, <1>13, <4>1
      <4> QED BY <4>4, <4>5 DEF LatestAt
    <3> QED BY <3>1, <3>2
  <2>3. ASSUME NEW q \in Queued', q.op = "spill", q.region \notin failed'
        PROVE  LatestAt(q.region, q.bytes, 0)'
    <3>1. q.region \in DOMAIN slots \ {r}
      <4>1. NoSpill(r)
        BY <1>6 DEF WebInv, SpillsFirst
      <4> QED BY <1>10, <2>3, <4>1, RequestFacts DEF NoSpill, Spills
    <3>2. LatestAt(q.region, q.bytes, 0)
      BY <1>6, <1>10, <2>3, <3>1 DEF WebInv, BytesLatest
    <3> QED BY <2>1, <3>1, <3>2
  <2>4. ASSUME NEW s \in DOMAIN slots' \ failed', s \notin Resident', NoSpill(s)'
        PROVE  s \in DOMAIN files' /\ LatestAt(s, files[s], 0)'
    <3>1. s \in DOMAIN slots \ {r} /\ s \notin failed /\ s \notin Resident /\ NoSpill(s)
      BY <1>6, <1>7, <1>9, <1>11, <2>4
    <3>2. s \in DOMAIN files /\ LatestAt(s, files[s], 0)
      BY <3>1 DEF WebInv, BytesLatest
    <3>3. files' = files /\ version'[s] = version[s]
      BY <1>6, <1>13, <3>1
    <3> QED BY <3>2, <3>3 DEF LatestAt
  <2>5. ASSUME NEW q \in Answered', q.op = "load", q.ok, q.region \notin failed'
        PROVE  LatestAt(q.region, q.bytes, 0)'
    <3>1. q.region \in DOMAIN slots \ {r}
      BY <1>6, <1>10, <2>5, RequestFacts
    <3>2. LatestAt(q.region, q.bytes, 0)
      BY <1>6, <1>10, <2>5, <3>1 DEF WebInv, BytesLatest
    <3> QED BY <2>1, <3>1, <3>2
  <2> QED BY <2>2, <2>3, <2>4, <2>5 DEF BytesLatest
<1> QED BY <1>7, <1>8, <1>9, <1>10, <1>12, <1>15, <1>16 DEF WebInv

-----------------------------------------------------------------------------
(* Evictions *)

(* The copy of a span.                                                     *)
SpanBytes(b, o, c) == SubSeq(b, o + 1, o + c)

(* A copy of a span is stored where it was taken from.                     *)
LEMMA SpanCopied ==
  ASSUME NEW b \in Seq(Cells), NEW o \in Nat, NEW c \in Nat \ {0}, o + c <= Len(b),
         NEW copy, copy = SpanBytes(b, o, c)
  PROVE  copy \in Seq(Cells) /\ Len(copy) = c /\ Stored(b, o, copy)
<1>1. PICK l \in Nat : l = Len(b) /\ DOMAIN b = 1..l /\ o + c <= l
  OBVIOUS
<1>2. copy \in Seq(Cells)
  BY <1>1, SubSeqType DEF SpanBytes
<1>3. Len(copy) = c /\ \A i \in 1..c : copy[i] = b[o + i]
  <2>1. \A i \in (o + 1)..(o + c) : b[i] \in Cells
    BY <1>1
  <2> QED BY <1>1, <2>1 DEF SpanBytes
<1> QED BY <1>2, <1>3 DEF Stored

(* A region that is resident is neither being promoted nor loaded.         *)
LEMMA ResidentNotLoaded ==
  ASSUME WebInv, NEW r \in Resident
  PROVE  /\ \A q \in Queued \cup Answered : q.op = "load" => q.region # r
         /\ \A t \in DOMAIN tasks : tasks[t] # PromoteOf(r)
<1>1. r \in DOMAIN slots /\ slots[r].residency # "Cold"
  BY DEF Resident
<1> QED BY <1>1, RequestFacts DEF WebInv, CallsMatched

(* evict up to its await, and the evictions of the budget: the call t goes *)
(* on as task, and waits for the spill that it posts.                      *)
LEMMA EvictKeeps ==
  ASSUME WebInv, NEW r \in Resident, NEW lru \in Seq(DOMAIN slots), AnswersLeft,
         calls' \in Nat, calls <= calls', NEW t \in Nat, t <= calls',
         \A q \in Queued \cup Answered' : q.task # t,
         NEW task, TaskOK(task), task.op # "promote", task.op = "create" => ~task.ready,
         BeginEvict(r, lru, t, task), UNCHANGED <<memory, open, files, version>>
  PROVE  WebInv'
<1>1. PICK k \in Pools, o \in Nat, c \in Nat \ {0} :
        /\ k = slots[r].poolIndex /\ o = slots[r].baseOffset /\ c = slots[r].capacity
        /\ r \in DOMAIN slots /\ r \in Nat
  BY EntryFacts DEF WebInv, Resident
<1>2. PICK b \in Seq(Cells) : b = memory[k]
  BY DEF WebInv, BytesTyped
<1>3. PICK copy : copy = SpanBytes(b, o, c)
  OBVIOUS
<1>4. PICK q : q = [task |-> t, op |-> "spill", region |-> r, bytes |-> copy]
  OBVIOUS
<1>5. /\ markEvicted(r, lru)
      /\ \/ /\ o + c <= Len(b)
            /\ inbox' = Append(inbox, q) /\ tasks' = With(tasks, t, task) /\ failed' = failed
         \/ /\ failed' = failed \cup {r} /\ tasks' = Without(tasks, t) /\ inbox' = inbox
  BY <1>1, <1>2, <1>3, <1>4 DEF BeginEvict, Post, SpanBytes
<1>6. Evicts(r) /\ warmLru' = lruRemove(lru, r) /\ UNCHANGED <<nextId, cursorHot, cursorWarm>>
  BY <1>5 DEF markEvicted, Evicts
<1>7. /\ DOMAIN slots' = DOMAIN slots /\ slots' \in [DOMAIN slots -> Entries]
      /\ slots'[r].residency = "Cold" /\ slots'[r].capacity = slots[r].capacity
      /\ slots'[r].used = slots[r].used
      /\ \A s \in DOMAIN slots \ {r} : slots'[s] = slots[s]
      /\ Resident' = Resident \ {r}
  BY <1>6, EvictedEntries DEF WebInv
<1>8. Tiled' /\ pools' \in [Pools -> [used : Nat, free : Seq(Spans)]]
  BY <1>6, EvictedTiled DEF WebInv
<1>9. DirectoryTyped'
  <2>1. warmLru' \in Seq(DOMAIN slots)
    BY <1>1, <1>6, LruTyped
  <2>2. \A s \in DOMAIN slots : s \in Nat /\ s < nextId /\ slots'[s].used <= slots'[s].capacity
    BY <1>7, EntryFacts DEF WebInv
  <2> QED BY <1>6, <1>7, <1>8, <2>1, <2>2 DEF DirectoryTyped, WebInv
<1>10. \A s \in DOMAIN slots : /\ slots'[s].capacity = slots[s].capacity /\ slots'[s].used = slots[s].used
                               /\ slots[s].residency = "Cold" => slots'[s].residency = "Cold"
  BY <1>7
<1>11. \A s \in DOMAIN slots : \A u \in DOMAIN tasks \ {t} :
         tasks[u] = PromoteOf(s) => slots'[s].residency = "Cold"
  BY <1>10 DEF WebInv, CallsMatched
<1>12. CASE /\ o + c <= Len(b)
            /\ inbox' = Append(inbox, q) /\ tasks' = With(tasks, t, task) /\ failed' = failed
  <2>1. copy \in Seq(Cells) /\ Len(copy) = c /\ \A i \in 1..c : copy[i] = b[o + i]
    <3>1. o + c <= Len(b)
      BY <1>12
    <3>2. copy \in Seq(Cells) /\ Len(copy) = c /\ Stored(b, o, copy)
      BY <1>3, <3>1, SpanCopied
    <3> QED BY <3>2 DEF Stored
  <2>2. q \in Requests /\ q.task = t /\ q.op = "spill" /\ q.region = r /\ q.bytes = copy
    BY <1>1, <1>4, <2>1 DEF Requests
  <2>3. \A p \in Queued : ~Loads(p, r)
    BY ResidentNotLoaded DEF Loads
  <2>4. Channel' /\ Queued' = Queued \cup {q} /\ Answered' \subseteq Answered
    BY <1>12, <2>2, <2>3, ChannelPosted DEF WebInv
  <2>5. /\ \A u \in DOMAIN tasks \ {t} : u \in DOMAIN tasks' /\ tasks'[u] = tasks[u]
        /\ DOMAIN tasks' = DOMAIN tasks \cup {t} /\ tasks'[t] = task
    BY <1>12 DEF With
  <2>6. Awaited(q)'
    BY <1>1, <1>7, <2>2, <2>5 DEF Awaited
  <2>7. CallsMatched'
    <3>1. /\ CallsMatched /\ DOMAIN slots \subseteq DOMAIN slots'
          /\ DOMAIN tasks' \subseteq DOMAIN tasks \cup {t}
      BY <1>7, <2>5 DEF WebInv
    <3>2. \A p \in Queued' \cup Answered' : (p \in Queued \cup Answered /\ p.task # t) \/ Awaited(p)'
      BY <2>4, <2>6
    <3> QED BY <1>11, <2>5, <3>1, <3>2, CallsChanged
  <2>8. \A s : s # r => (NoSpill(s)' <=> NoSpill(s))
    BY <2>2, <2>4 DEF NoSpill, Spills
  <2>9. ~NoSpill(r)'
    BY <2>2, <2>4 DEF NoSpill, Spills
  <2>10. SpillsFirst'
    <3>1. \A p \in open' : p.region \in DOMAIN files'
      BY DEF WebInv, SpillsFirst
    <3>2. \A p \in open' : p.op = "load" => NoSpill(p.region)'
      <4>1. \A p \in open : p.op = "load" => NoSpill(p.region) /\ p.region # r
        BY ResidentNotLoaded, RequestFacts DEF WebInv, SpillsFirst
      <4> QED BY <2>8, <4>1
    <3>3. \A p \in Answered' : p.op = "load" /\ p.ok => NoSpill(p.region)'
      <4>1. \A p \in Answered : p.op = "load" /\ p.ok => NoSpill(p.region) /\ p.region # r
        BY ResidentNotLoaded DEF WebInv, SpillsFirst
      <4> QED BY <2>4, <2>8, <4>1
    <3>4. \A s \in Resident' : NoSpill(s)'
      BY <1>7, <2>8 DEF WebInv, SpillsFirst
    <3> QED BY <3>1, <3>2, <3>3, <3>4 DEF SpillsFirst
  <2>11. BytesTyped'
    <3>1. \A p \in Queued' \cup Answered' : Len(p.bytes) <= slots'[p.region].capacity
      <4>1. Len(q.bytes) <= slots'[q.region].capacity
        BY <1>1, <1>7, <2>1, <2>2
      <4> QED BY <1>10, <2>4, <4>1, RequestFacts
    <3>2. \A s \in DOMAIN files' : s \in DOMAIN slots' /\ Len(files'[s]) <= slots'[s].capacity
      BY <1>7, <1>10 DEF WebInv, BytesTyped
    <3>3. \A s \in DOMAIN slots' : version'[s].length <= slots'[s].used
      BY <1>7, <1>10 DEF WebInv, BytesTyped
    <3> QED BY <1>7, <3>1, <3>2, <3>3 DEF WebInv, BytesTyped
  <2>12. BytesLatest'
    <3>1. \A s, g, p : LatestAt(s, g, p)' <=> LatestAt(s, g, p)
      BY LatestSame
    <3>2. ASSUME NEW s \in Resident' \ failed'
          PROVE  LatestAt(s, memory[slots[s].poolIndex], slots[s].baseOffset)'
      <4>1. s \in Resident \ failed /\ slots'[s] = slots[s]
        BY <1>7, <1>12, <3>2 DEF Resident
      <4>2. LatestAt(s, memory[slots[s].poolIndex], slots[s].baseOffset)
        BY <4>1 DEF WebInv, BytesLatest
      <4> QED BY <4>1, <4>2 DEF LatestAt
    <3>3. ASSUME NEW p \in Queued', p.op = "spill", p.region \notin failed'
          PROVE  LatestAt(p.region, p.bytes, 0)'
      <4>1. CASE p \in Queued
        BY <1>12, <3>1, <3>3, <4>1 DEF WebInv, BytesLatest
      <4>2. CASE p = q
        <5>1. LatestAt(r, b, o)
          BY <1>1, <1>2, <1>12, <2>2, <3>3, <4>2 DEF WebInv, BytesLatest
        <5>2. version[r].length \in Nat /\ version[r].length <= c
          BY <1>1, VersionFacts
        <5>3. /\ 0 \in Nat /\ Len(copy) \in Nat /\ 0 + c <= Len(copy)
              /\ \A i \in 1..c : copy[0 + i] = b[o + i]
          BY <2>1
        <5>4. LatestAt(r, copy, 0)
          BY <5>1, <5>2, <5>3, LatestCopied
        <5> QED BY <2>2, <3>1, <4>2, <5>4
      <4> QED BY <2>4, <4>1, <4>2
    <3>4. ASSUME NEW s \in DOMAIN slots' \ failed', s \notin Resident', NoSpill(s)'
          PROVE  s \in DOMAIN files' /\ LatestAt(s, files[s], 0)'
      <4>1. s # r
        BY <2>9, <3>4
      <4>2. s \in DOMAIN slots \ failed /\ s \notin Resident /\ NoSpill(s)
        BY <1>7, <1>12, <2>8, <3>4, <4>1
      <4>3. s \in DOMAIN files /\ LatestAt(s, files[s], 0)
        BY <4>2 DEF WebInv, BytesLatest
      <4> QED BY <4>3 DEF LatestAt
    <3>5. \A p \in Answered' : p.op = "load" /\ p.ok /\ p.region \notin failed'
            => LatestAt(p.region, p.bytes, 0)'
      BY <1>12, <2>4, <3>1 DEF WebInv, BytesLatest
    <3> QED BY <3>2, <3>3, <3>4, <3>5 DEF BytesLatest
  <2> QED BY <1>8, <1>9, <2>4, <2>7, <2>10, <2>11, <2>12 DEF WebInv
<1>13. CASE failed' = failed \cup {r} /\ tasks' = Without(tasks, t) /\ inbox' = inbox
  <2>1. Channel' /\ Queued' = Queued /\ Answered' \subseteq Answered
    BY <1>13, ChannelQuiet DEF WebInv
  <2>2. /\ \A u \in DOMAIN tasks \ {t} : u \in DOMAIN tasks' /\ tasks'[u] = tasks[u]
        /\ DOMAIN tasks' = DOMAIN tasks \ {t}
    BY <1>13 DEF Without
  <2>3. CallsMatched'
    <3>1. /\ CallsMatched /\ DOMAIN slots \subseteq DOMAIN slots'
          /\ DOMAIN tasks' \subseteq DOMAIN tasks \cup {t}
          /\ t \notin DOMAIN tasks'
      BY <1>7, <2>2 DEF WebInv
    <3>2. \A p \in Queued' \cup Answered' : p \in Queued \cup Answered /\ p.task # t
      BY <2>1
    <3> QED BY <1>11, <2>2, <3>1, <3>2, CallsChanged
  <2>4. \A s : NoSpill(s)' <=> NoSpill(s)
    BY <2>1 DEF NoSpill
  <2>5. SpillsFirst'
    <3>1. SpillsFirst
      BY DEF WebInv
    <3> QED BY <1>7, <2>1, <2>4, <3>1 DEF SpillsFirst
  <2>6. BytesTyped'
    <3>1. \A p \in Queued' \cup Answered' : Len(p.bytes) <= slots'[p.region].capacity
      BY <1>10, <2>1, RequestFacts
    <3>2. \A s \in DOMAIN files' : s \in DOMAIN slots' /\ Len(files'[s]) <= slots'[s].capacity
      BY <1>7, <1>10 DEF WebInv, BytesTyped
    <3>3. \A s \in DOMAIN slots' : version'[s].length <= slots'[s].used
      BY <1>7, <1>10 DEF WebInv, BytesTyped
    <3> QED BY <1>7, <3>1, <3>2, <3>3 DEF WebInv, BytesTyped
  <2>7. BytesLatest'
    <3>1. \A s, g, p : LatestAt(s, g, p)' <=> LatestAt(s, g, p)
      BY LatestSame
    <3>2. ASSUME NEW s \in Resident' \ failed'
          PROVE  LatestAt(s, memory[slots[s].poolIndex], slots[s].baseOffset)'
      <4>1. s \in Resident \ failed /\ slots'[s] = slots[s]
        BY <1>7, <1>13, <3>2 DEF Resident
      <4>2. LatestAt(s, memory[slots[s].poolIndex], slots[s].baseOffset)
        BY <4>1 DEF WebInv, BytesLatest
      <4> QED BY <4>1, <4>2 DEF LatestAt
    <3>3. \A p \in Queued' : p.op = "spill" /\ p.region \notin failed' => LatestAt(p.region, p.bytes, 0)'
      BY <1>13, <2>1, <3>1 DEF WebInv, BytesLatest
    <3>4. ASSUME NEW s \in DOMAIN slots' \ failed', s \notin Resident', NoSpill(s)'
          PROVE  s \in DOMAIN files' /\ LatestAt(s, files[s], 0)'
      <4>1. s \in DOMAIN slots \ failed /\ s \notin Resident /\ NoSpill(s)
        BY <1>7, <1>13, <2>4, <3>4
      <4>2. s \in DOMAIN files /\ LatestAt(s, files[s], 0)
        BY <4>1 DEF WebInv, BytesLatest
      <4> QED BY <4>2 DEF LatestAt
    <3>5. \A p \in Answered' : p.op = "load" /\ p.ok /\ p.region \notin failed'
            => LatestAt(p.region, p.bytes, 0)'
      BY <1>13, <2>1, <3>1 DEF WebInv, BytesLatest
    <3> QED BY <3>2, <3>3, <3>4, <3>5 DEF BytesLatest
  <2> QED BY <1>8, <1>9, <2>1, <2>3, <2>5, <2>6, <2>7 DEF WebInv
<1> QED BY <1>5, <1>12, <1>13

-----------------------------------------------------------------------------
(* Promotes, the worker's steps and close: the directory stays as it is *)

(* A step of the worker keeps the invariant if what it says of the bytes on *)
(* their way and in the files still holds.                                 *)
LEMMA WorkerStep ==
  ASSUME WebInv, UNCHANGED directory, UNCHANGED <<memory, version>>,
         Channel', CallsMatched', SpillsFirst', files' \in [DOMAIN files' -> Seq(Cells)],
         \A r \in DOMAIN files' : r \in DOMAIN slots /\ Len(files'[r]) <= slots[r].capacity,
         \A q \in Queued' \cup Answered' : Len(q.bytes) <= slots[q.region].capacity,
         failed \subseteq failed',
         \A q \in Queued' : q.op = "spill" /\ q.region \notin failed' => LatestAt(q.region, q.bytes, 0),
         \A r \in DOMAIN slots \ failed' :
           r \notin Resident /\ NoSpill(r)' => r \in DOMAIN files' /\ LatestAt(r, files'[r], 0),
         \A q \in Answered' : q.op = "load" /\ q.ok /\ q.region \notin failed'
           => LatestAt(q.region, q.bytes, 0)
  PROVE  WebInv'
<1>1. SpansKept /\ DirectoryTyped' /\ UNCHANGED <<pools, slots>>
  BY UnchangedTyped DEF WebInv, directory
<1>2. Tiled' /\ Resident' = Resident
  BY <1>1, KeptTiled DEF WebInv
<1>3. BytesTyped'
  BY <1>1 DEF WebInv, BytesTyped
<1>4. \A r, b, o : LatestAt(r, b, o)' <=> LatestAt(r, b, o)
  BY LatestSame
<1>5. BytesLatest'
  <2>1. ASSUME NEW r \in Resident' \ failed'
        PROVE  LatestAt(r, memory[slots[r].poolIndex], slots[r].baseOffset)'
    <3>1. LatestAt(r, memory[slots[r].poolIndex], slots[r].baseOffset)
      BY <1>2, <2>1 DEF WebInv, BytesLatest
    <3> QED BY <1>1, <3>1 DEF LatestAt
  <2>2. \A q \in Queued' : q.op = "spill" /\ q.region \notin failed' => LatestAt(q.region, q.bytes, 0)'
    BY <1>4
  <2>3. ASSUME NEW r \in DOMAIN slots' \ failed', r \notin Resident', NoSpill(r)'
        PROVE  r \in DOMAIN files' /\ LatestAt(r, files[r], 0)'
    <3>1. r \in DOMAIN files' /\ LatestAt(r, files'[r], 0)
      BY <1>1, <1>2, <2>3
    <3> QED BY <3>1 DEF LatestAt
  <2>4. \A q \in Answered' : q.op = "load" /\ q.ok /\ q.region \notin failed'
          => LatestAt(q.region, q.bytes, 0)'
    BY <1>4
  <2> QED BY <2>1, <2>2, <2>3, <2>4 DEF BytesLatest
<1> QED BY <1>1, <1>2, <1>3, <1>5 DEF WebInv

(* Requests go to and fro while no call starts or ends.                    *)
LEMMA CallsSteady ==
  ASSUME WebInv, UNCHANGED <<slots, tasks, calls>>, \A q \in Queued' \cup Answered' : Awaited(q)
  PROVE  CallsMatched'
<1>1. \A q : Awaited(q)' <=> Awaited(q)
  BY DEF Awaited
<1>2. \A task : TaskOK(task)' <=> TaskOK(task)
  BY DEF TaskOK
<1>3. \A t \in DOMAIN tasks' : t \in Nat /\ t <= calls' /\ TaskOK(tasks[t])'
  BY <1>2 DEF WebInv, CallsMatched
<1>4. \A q \in Queued' \cup Answered' : Awaited(q)'
  BY <1>1
<1> QED BY <1>3, <1>4 DEF WebInv, CallsMatched, PromoteOf

(* An answer is of the request's call and region.                          *)
LEMMA AnswerFacts ==
  ASSUME WebInv, NEW q \in Queued, NEW bytes \in Seq(Cells), NEW ok \in BOOLEAN, NEW a,
         a = [task |-> q.task, op |-> q.op, region |-> q.region, bytes |-> bytes, ok |-> ok]
  PROVE  /\ a \in Answers /\ a.task = q.task /\ a.op = q.op /\ a.region = q.region
         /\ a.bytes = bytes /\ a.ok = ok /\ Awaited(a)
<1>1. q \in Requests
  BY RequestFacts
<1>2. /\ a \in Answers /\ a.task = q.task /\ a.op = q.op /\ a.region = q.region
      /\ a.bytes = bytes /\ a.ok = ok
  BY <1>1 DEF Requests, Answers
<1>3. Awaited(q)
  BY DEF WebInv, CallsMatched
<1> QED BY <1>2, <1>3 DEF Awaited

(* The bytes of a request that carries none.                               *)
LEMMA NoBytes ==
  << >> \in Seq(Cells) /\ Len(<< >>) = 0
OBVIOUS

(* promote up to its await.                                                *)
LEMMA PromoteKeeps ==
  ASSUME WebInv, NEW r \in DOMAIN slots, promote(r)
  PROVE  WebInv'
<1>1. PICK t : t = calls + 1 /\ t \in Nat /\ t \notin DOMAIN tasks
               /\ \A q \in Queued \cup Answered : q.task # t
  BY FreshTask
<1>2. PICK q : q = [task |-> t, op |-> "load", region |-> r, bytes |-> << >>]
  OBVIOUS
<1>3. /\ calls' = t /\ slots[r].residency = "Cold" /\ ~Promoting(r)
      /\ inbox' = Append(inbox, q) /\ tasks' = With(tasks, t, PromoteOf(r))
      /\ UNCHANGED directory
      /\ UNCHANGED <<memory, open, replies, files, version, failed>>
  BY <1>1, <1>2 DEF promote, Started, This, Post, PromoteOf
<1>4. UNCHANGED slots /\ Resident' = Resident
  BY <1>3 DEF directory, Resident
<1>5. /\ q \in Requests /\ q.task = t /\ q.op = "load" /\ q.region = r /\ q.bytes = << >>
  <2>1. r \in Nat
    BY EntryFacts DEF WebInv
  <2> QED BY <1>1, <1>2, <2>1, NoBytes DEF Requests
<1>6. AnswersLeft /\ Answered' = Answered
  BY <1>3 DEF AnswersLeft, Answered
<1>7. Channel' /\ Queued' = Queued \cup {q}
  BY <1>1, <1>3, <1>5, <1>6, ChannelPosted DEF WebInv
<1>8. /\ DOMAIN tasks' = DOMAIN tasks \cup {t} /\ tasks'[t] = PromoteOf(r)
      /\ \A u \in DOMAIN tasks : tasks'[u] = tasks[u]
  BY <1>1, <1>3 DEF With
<1>9. \A u \in DOMAIN tasks : tasks[u] # PromoteOf(r)
  BY <1>3 DEF Promoting, PromoteOf
<1>10. CallsMatched'
  <2>1. calls \in Nat /\ calls <= t
    BY <1>1 DEF WebInv, CallsMatched
  <2>2. \A u \in DOMAIN tasks' : u \in Nat /\ u <= calls' /\ TaskOK(tasks[u])'
    <3> SUFFICES ASSUME NEW u \in DOMAIN tasks' PROVE u \in Nat /\ u <= calls' /\ TaskOK(tasks[u])'
      OBVIOUS
    <3>1. CASE u = t
      <4>1. TaskOK(tasks[u])'
        BY <1>4, <1>8, <3>1 DEF TaskOK
      <4> QED BY <1>1, <1>3, <3>1, <4>1
    <3>2. CASE u # t
      <4>1. u \in DOMAIN tasks /\ u \in Nat /\ u <= calls /\ TaskOK(tasks[u]) /\ tasks'[u] = tasks[u]
        BY <1>8, <3>2 DEF WebInv, CallsMatched
      <4>2. TaskOK(tasks[u])'
        BY <1>4, <4>1 DEF TaskOK
      <4> QED BY <1>1, <1>3, <2>1, <4>1, <4>2
    <3> QED BY <3>1, <3>2
  <2>3. \A p \in Queued' \cup Answered' : Awaited(p)'
    <3>1. Awaited(q)'
      <4>1. PromoteOf(r).op = "promote"
        BY DEF PromoteOf
      <4> QED BY <1>4, <1>5, <1>8, <4>1 DEF Awaited
    <3>2. ASSUME NEW p \in Queued \cup Answered PROVE Awaited(p)'
      <4>1. Awaited(p) /\ p.task \in DOMAIN tasks
        BY DEF WebInv, CallsMatched, Awaited
      <4> QED BY <1>4, <1>8, <4>1, AwaitedKept
    <3> QED BY <1>6, <1>7, <3>1, <3>2
  <2>4. \A u \in DOMAIN tasks', s \in DOMAIN slots' :
          tasks'[u] = PromoteOf(s) => (u = t /\ s = r) \/ (u \in DOMAIN tasks /\ tasks[u] = PromoteOf(s) /\ s # r)
    BY <1>8, <1>9, TaskTags
  <2>5. \A u \in DOMAIN tasks', s \in DOMAIN slots' :
          tasks'[u] = PromoteOf(s) => slots'[s].residency = "Cold"
    BY <1>3, <1>4, <2>4 DEF WebInv, CallsMatched
  <2>6. \A u, v \in DOMAIN tasks', s \in DOMAIN slots' :
          tasks'[u] = PromoteOf(s) /\ tasks'[v] = PromoteOf(s) => u = v
    BY <1>4, <2>4 DEF WebInv, CallsMatched
  <2> QED BY <1>1, <1>3, <2>2, <2>3, <2>5, <2>6 DEF CallsMatched, PromoteOf
<1>11. \A s : NoSpill(s)' <=> NoSpill(s)
  BY <1>5, <1>7 DEF NoSpill, Spills
<1>12. SpillsFirst'
  <2>1. SpillsFirst
    BY DEF WebInv
  <2> QED BY <1>3, <1>4, <1>6, <1>11, <2>1 DEF SpillsFirst
<1>13. \A p \in Queued' \cup Answered' : Len(p.bytes) <= slots[p.region].capacity
  <2>1. Len(q.bytes) <= slots[q.region].capacity
    <3>1. slots[r].capacity \in Nat
      BY EntryFacts DEF WebInv
    <3> QED BY <1>5, <3>1, NoBytes
  <2> QED BY <1>6, <1>7, <2>1, RequestFacts
<1>14. \A p \in Queued' : p.op = "spill" => p \in Queued
  BY <1>5, <1>7
<1>15. BytesTyped /\ BytesLatest
  BY DEF WebInv
<1>16. /\ files' \in [DOMAIN files' -> Seq(Cells)]
       /\ \A s \in DOMAIN files' : s \in DOMAIN slots /\ Len(files'[s]) <= slots[s].capacity
  BY <1>3, <1>15 DEF BytesTyped
<1>17. \A p \in Queued' : p.op = "spill" /\ p.region \notin failed' => LatestAt(p.region, p.bytes, 0)
  BY <1>3, <1>14, <1>15 DEF BytesLatest
<1>18. \A s \in DOMAIN slots \ failed' :
         s \notin Resident /\ NoSpill(s)' => s \in DOMAIN files' /\ LatestAt(s, files'[s], 0)
  BY <1>3, <1>11, <1>15 DEF BytesLatest
<1>19. \A p \in Answered' : p.op = "load" /\ p.ok /\ p.region \notin failed' => LatestAt(p.region, p.bytes, 0)
  BY <1>3, <1>6, <1>15 DEF BytesLatest
<1> QED BY <1>3, <1>7, <1>10, <1>12, <1>13, <1>16, <1>17, <1>18, <1>19, WorkerStep

(* The worker takes a request from its inbox.                              *)
LEMMA HandleKeeps ==
  ASSUME WebInv, handleFor
  PROVE  WebInv'
<1>1. PICK h, r : h = Head(inbox) /\ r = h.region
  OBVIOUS
<1>2. /\ inbox # << >> /\ inbox' = Tail(inbox) /\ UNCHANGED directory
      /\ UNCHANGED <<memory, tasks, calls, version>> /\ UNCHANGED slots
  BY DEF handleFor, directory
<1>3. \/ /\ ~Locked(r) /\ ~(h.op = "load" /\ r \notin DOMAIN files)
         /\ open' = open \cup {h}
         /\ files' = (IF r \in DOMAIN files THEN files ELSE With(files, r, << >>))
         /\ replies' = replies /\ failed' = failed
      \/ /\ replies' = Append(replies, [task |-> h.task, op |-> h.op, region |-> r,
                                        bytes |-> << >>, ok |-> FALSE])
         /\ failed' = (IF h.op = "spill" THEN failed \cup {r} ELSE failed)
         /\ open' = open /\ files' = files
  BY <1>1 DEF handleFor, Reply
<1>4. Channel /\ SpillsFirst /\ BytesTyped /\ BytesLatest /\ CallsMatched
  BY DEF WebInv
<1>5. h \in Queued /\ (h.op = "load" => \A p \in ToSet(inbox) : ~Spills(p, r))
  <2>1. ToSet(inbox) = {h} \cup ToSet(Tail(inbox))
        /\ (h.op = "load" => \A p \in ToSet(inbox) : ~Spills(p, r))
    BY <1>1, <1>2, <1>4, InboxTail
  <2> QED BY <2>1 DEF Queued
<1>6. r \in DOMAIN slots /\ Awaited(h)
  BY <1>1, <1>4, <1>5 DEF CallsMatched, Awaited
<1>7. CASE /\ ~Locked(r) /\ ~(h.op = "load" /\ r \notin DOMAIN files)
           /\ open' = open \cup {h}
           /\ files' = (IF r \in DOMAIN files THEN files ELSE With(files, r, << >>))
           /\ replies' = replies /\ failed' = failed
  <2>1. Channel' /\ Queued' = Queued /\ Answered' = Answered
    BY <1>1, <1>2, <1>4, <1>7, ChannelOpened
  <2>2. CallsMatched'
    BY <1>2, <1>4, <2>1, CallsSteady DEF CallsMatched
  <2>3. /\ DOMAIN files' = DOMAIN files \cup {r} /\ files' \in [DOMAIN files' -> Seq(Cells)]
        /\ \A s \in DOMAIN files : files'[s] = files[s]
        /\ r \notin DOMAIN files => files'[r] = << >>
    <3>1. CASE r \in DOMAIN files
      BY <1>4, <1>7, <3>1 DEF BytesTyped
    <3>2. CASE r \notin DOMAIN files
      <4>1. files' = With(files, r, << >>)
        BY <1>7, <3>2
      <4>2. /\ DOMAIN files' = DOMAIN files \cup {r} /\ files'[r] = << >>
            /\ \A s \in DOMAIN files : files'[s] = files[s]
        BY <3>2, <4>1 DEF With
      <4>3. \A s \in DOMAIN files' : files'[s] \in Seq(Cells)
        BY <1>4, <4>2, NoBytes DEF BytesTyped
      <4>4. files' = [s \in DOMAIN files' |-> files'[s]]
        BY <4>1 DEF With
      <4> QED BY <4>2, <4>3, <4>4
    <3> QED BY <3>1, <3>2
  <2>4. \A s : NoSpill(s)' <=> NoSpill(s)
    BY <2>1 DEF NoSpill
  <2>5. h.op = "load" => NoSpill(r)
    BY <1>5, <1>7 DEF NoSpill, Queued, Locked, Spills
  <2>6. SpillsFirst'
    <3>1. \A q \in open' : q.region \in DOMAIN files'
      BY <1>1, <1>4, <1>7, <2>3 DEF SpillsFirst
    <3>2. \A q \in open' : q.op = "load" => NoSpill(q.region)'
      BY <1>1, <1>4, <1>7, <2>4, <2>5 DEF SpillsFirst
    <3>3. Resident' = Resident
      BY <1>2 DEF Resident
    <3> QED BY <1>4, <2>1, <2>4, <3>1, <3>2, <3>3 DEF SpillsFirst
  <2>7. \A s \in DOMAIN files' : s \in DOMAIN slots /\ Len(files'[s]) <= slots[s].capacity
    <3>1. \A s \in DOMAIN files : s \in DOMAIN slots /\ Len(files'[s]) <= slots[s].capacity
      BY <1>4, <2>3 DEF BytesTyped
    <3>2. r \notin DOMAIN files => Len(files'[r]) <= slots[r].capacity
      <4>1. slots[r].capacity \in Nat
        BY <1>6, EntryFacts DEF WebInv
      <4> QED BY <2>3, <4>1, NoBytes
    <3> QED BY <1>6, <2>3, <3>1, <3>2
  <2>8. \A q \in Queued' \cup Answered' : Len(q.bytes) <= slots[q.region].capacity
    BY <2>1, RequestFacts
  <2>9. \A q \in Queued' : q.op = "spill" /\ q.region \notin failed' => LatestAt(q.region, q.bytes, 0)
    BY <1>4, <1>7, <2>1 DEF BytesLatest
  <2>10. \A s \in DOMAIN slots \ failed' :
           s \notin Resident /\ NoSpill(s)' => s \in DOMAIN files' /\ LatestAt(s, files'[s], 0)
    BY <1>4, <1>7, <2>3, <2>4 DEF BytesLatest
  <2>11. \A q \in Answered' : q.op = "load" /\ q.ok /\ q.region \notin failed' => LatestAt(q.region, q.bytes, 0)
    BY <1>4, <1>7, <2>1 DEF BytesLatest
  <2>12. failed \subseteq failed'
    BY <1>7
  <2> QED BY <1>2, <2>1, <2>2, <2>3, <2>6, <2>7, <2>8, <2>9, <2>10, <2>11, <2>12, WorkerStep
<1>8. CASE /\ replies' = Append(replies, [task |-> h.task, op |-> h.op, region |-> r,
                                          bytes |-> << >>, ok |-> FALSE])
           /\ failed' = (IF h.op = "spill" THEN failed \cup {r} ELSE failed)
           /\ open' = open /\ files' = files
  <2>1. PICK a : /\ a = [task |-> h.task, op |-> h.op, region |-> h.region, bytes |-> << >>, ok |-> FALSE]
                 /\ replies' = Append(replies, a)
    BY <1>1, <1>8
  <2>2. /\ a \in Answers /\ a.task = h.task /\ a.region = h.region
        /\ a.bytes = << >> /\ a.ok = FALSE /\ Awaited(a)
    <3>1. PICK none \in Seq(Cells) : none = << >>
      BY NoBytes
    <3>2. PICK ok \in BOOLEAN : ok = FALSE
      OBVIOUS
    <3>3. a = [task |-> h.task, op |-> h.op, region |-> h.region, bytes |-> none, ok |-> ok]
      BY <2>1, <3>1, <3>2
    <3>4. /\ a \in Answers /\ a.task = h.task /\ a.region = h.region
          /\ a.bytes = none /\ a.ok = ok /\ Awaited(a)
      BY <1>5, <3>3, AnswerFacts
    <3> QED BY <3>1, <3>2, <3>4
  <2>3. /\ Channel' /\ Queued' \subseteq Queued /\ Queued = Queued' \cup {h}
        /\ Answered' = Answered \cup {a}
    BY <1>1, <1>2, <1>4, <1>8, <2>1, <2>2, ChannelRefused
  <2>4. CallsMatched'
    <3>1. \A q \in Queued' \cup Answered' : Awaited(q)
      BY <1>4, <2>2, <2>3 DEF CallsMatched
    <3> QED BY <1>2, <3>1, CallsSteady
  <2>5. \A s : NoSpill(s) => NoSpill(s)'
    BY <2>3 DEF NoSpill
  <2>6. SpillsFirst'
    <3>1. Resident' = Resident
      BY <1>2 DEF Resident
    <3>2. \A q \in Answered' : q.op = "load" /\ q.ok => NoSpill(q.region)'
      BY <1>4, <2>2, <2>3, <2>5 DEF SpillsFirst
    <3> QED BY <1>4, <1>8, <2>5, <3>1, <3>2 DEF SpillsFirst
  <2>7. \A q \in Queued' \cup Answered' : Len(q.bytes) <= slots[q.region].capacity
    <3>1. Len(a.bytes) <= slots[a.region].capacity
      <4>1. slots[r].capacity \in Nat
        BY <1>6, EntryFacts DEF WebInv
      <4> QED BY <1>1, <2>2, <4>1, NoBytes
    <3> QED BY <2>3, <3>1, RequestFacts
  <2>8. failed \subseteq failed' /\ (h.op = "spill" => r \in failed')
    BY <1>8
  <2>9. \A q \in Queued' : q.op = "spill" /\ q.region \notin failed' => LatestAt(q.region, q.bytes, 0)
    BY <1>4, <2>3, <2>8 DEF BytesLatest
  <2>10. ASSUME NEW s \in DOMAIN slots \ failed', s \notin Resident, NoSpill(s)'
         PROVE  s \in DOMAIN files' /\ LatestAt(s, files'[s], 0)
    <3>1. ~Spills(h, s)
      BY <1>1, <2>8, <2>10 DEF Spills
    <3>2. NoSpill(s) /\ s \notin failed
      BY <2>3, <2>8, <2>10, <3>1 DEF NoSpill
    <3> QED BY <1>4, <1>8, <2>10, <3>2 DEF BytesLatest
  <2>11. \A q \in Answered' : q.op = "load" /\ q.ok /\ q.region \notin failed' => LatestAt(q.region, q.bytes, 0)
    BY <1>4, <2>2, <2>3, <2>8 DEF BytesLatest
  <2>12. /\ files' \in [DOMAIN files' -> Seq(Cells)]
         /\ \A s \in DOMAIN files' : s \in DOMAIN slots /\ Len(files'[s]) <= slots[s].capacity
    BY <1>4, <1>8 DEF BytesTyped
  <2> QED BY <1>2, <2>3, <2>4, <2>6, <2>7, <2>8, <2>9, <2>10, <2>11, <2>12, WorkerStep
<1> QED BY <1>3, <1>7, <1>8

(* The worker answers request q with a: what it left in the file is what   *)
(* callers wrote last, or the region has failed.                           *)
LEMMA DoneKeeps ==
  ASSUME WebInv, NEW q \in open, open' = open \ {q}, inbox' = inbox,
         UNCHANGED directory, UNCHANGED <<memory, tasks, calls, version>>,
         NEW bytes \in Seq(Cells), Len(bytes) <= slots[q.region].capacity, NEW ok \in BOOLEAN,
         replies' = Append(replies, [task |-> q.task, op |-> q.op, region |-> q.region,
                                     bytes |-> bytes, ok |-> ok]),
         failed \subseteq failed',
         NEW f, files' = [files EXCEPT ![q.region] = f], f \in Seq(Cells), Len(f) <= slots[q.region].capacity,
         q.op = "spill" => f = q.bytes \/ q.region \in failed',
         q.op = "load" => f = files[q.region],
         q.op = "load" /\ ok => bytes = files[q.region]
  PROVE  WebInv'
<1>1. PICK r : r = q.region
  OBVIOUS
<1>2. Channel /\ SpillsFirst /\ BytesTyped /\ BytesLatest /\ CallsMatched /\ UNCHANGED slots
  BY DEF WebInv, directory
<1>3. PICK a : /\ a = [task |-> q.task, op |-> q.op, region |-> q.region, bytes |-> bytes, ok |-> ok]
               /\ replies' = Append(replies, a)
  OBVIOUS
<1>4. q \in Queued
  BY DEF Queued
<1>5. /\ a \in Answers /\ a.task = q.task /\ a.op = q.op /\ a.region = q.region
      /\ a.bytes = bytes /\ a.ok = ok /\ Awaited(a)
  BY <1>3, <1>4, AnswerFacts
<1>6. /\ Channel' /\ Queued' \subseteq Queued /\ Queued = Queued' \cup {q}
      /\ Answered' = Answered \cup {a}
  BY <1>2, <1>3, <1>5, ChannelDone
<1>7. r \in DOMAIN slots /\ r \in DOMAIN files /\ q.op \in {"spill", "load"}
  BY <1>1, <1>2, <1>4, RequestFacts DEF SpillsFirst
<1>8. CallsMatched'
  <2>1. \A p \in Queued' \cup Answered' : Awaited(p)
    BY <1>2, <1>5, <1>6 DEF CallsMatched
  <2> QED BY <1>2, <2>1, CallsSteady
<1>9. /\ DOMAIN files' = DOMAIN files /\ files' \in [DOMAIN files' -> Seq(Cells)]
      /\ files'[r] = f /\ \A s \in DOMAIN files \ {r} : files'[s] = files[s]
  BY <1>1, <1>2, <1>7 DEF BytesTyped
<1>10. \A s : NoSpill(s) => NoSpill(s)'
  BY <1>6 DEF NoSpill
<1>11. q.op = "load" => NoSpill(r) /\ r \notin Resident
  BY <1>1, <1>2, <1>4, RequestFacts DEF SpillsFirst
<1>12. SpillsFirst'
  <2>1. Resident' = Resident
    BY <1>2 DEF Resident
  <2>2. \A p \in Answered' : p.op = "load" /\ p.ok => NoSpill(p.region)'
    BY <1>1, <1>2, <1>5, <1>6, <1>10, <1>11 DEF SpillsFirst
  <2> QED BY <1>2, <1>9, <1>10, <2>1, <2>2 DEF SpillsFirst
<1>13. \A s \in DOMAIN files' : s \in DOMAIN slots /\ Len(files'[s]) <= slots[s].capacity
  BY <1>1, <1>2, <1>7, <1>9 DEF BytesTyped
<1>14. \A p \in Queued' \cup Answered' : Len(p.bytes) <= slots[p.region].capacity
  BY <1>5, <1>6, RequestFacts
<1>15. \A p \in Queued' : p.op = "spill" /\ p.region \notin failed' => LatestAt(p.region, p.bytes, 0)
  BY <1>2, <1>6 DEF BytesLatest
<1>16. ASSUME NEW s \in DOMAIN slots \ failed', s \notin Resident, NoSpill(s)'
       PROVE  s \in DOMAIN files' /\ LatestAt(s, files'[s], 0)
  <2>1. CASE Spills(q, s)
    <3>1. s = r /\ q.op = "spill"
      BY <1>1, <2>1 DEF Spills
    <3>2. f = q.bytes /\ q.region \notin failed
      BY <1>1, <1>16, <3>1
    <3>3. LatestAt(r, f, 0)
      BY <1>1, <1>2, <1>4, <3>1, <3>2 DEF BytesLatest
    <3> QED BY <1>7, <1>9, <3>1, <3>3
  <2>2. CASE ~Spills(q, s)
    <3>1. NoSpill(s) /\ s \notin failed
      BY <1>6, <1>16, <2>2 DEF NoSpill
    <3>2. s \in DOMAIN files /\ LatestAt(s, files[s], 0)
      BY <1>2, <1>16, <3>1 DEF BytesLatest
    <3>3. files'[s] = files[s]
      BY <1>1, <1>7, <1>9, <2>2, <3>2 DEF Spills
    <3> QED BY <1>9, <3>2, <3>3
  <2> QED BY <2>1, <2>2
<1>17. ASSUME NEW p \in Answered', p.op = "load", p.ok, p.region \notin failed'
       PROVE  LatestAt(p.region, p.bytes, 0)
  <2>1. CASE p \in Answered
    BY <1>2, <1>17, <2>1 DEF BytesLatest
  <2>2. CASE p = a
    <3>1. q.op = "load" /\ p.region = r /\ p.bytes = files[r] /\ r \notin failed
      BY <1>1, <1>5, <1>17, <2>2
    <3>2. LatestAt(r, files[r], 0)
      BY <1>2, <1>7, <1>11, <3>1 DEF BytesLatest
    <3> QED BY <3>1, <3>2
  <2> QED BY <1>6, <2>1, <2>2
<1> QED BY <1>6, <1>8, <1>9, <1>12, <1>13, <1>14, <1>15, <1>16, <1>17, WorkerStep

(* The worker writes or reads the open file, or the disk fails.            *)
LEMMA DispatchKeeps ==
  ASSUME WebInv, NEW q \in open, dispatch(q) \/ dispatch_fails(q)
  PROVE  WebInv'
<1>1. q \in Queued /\ q \in Requests /\ q.bytes \in Seq(Cells) /\ Len(q.bytes) <= slots[q.region].capacity
      /\ q.region \in DOMAIN slots
  BY RequestFacts
<1>2. q.region \in DOMAIN files /\ files \in [DOMAIN files -> Seq(Cells)]
      /\ Len(files[q.region]) <= slots[q.region].capacity /\ files[q.region] \in Seq(Cells)
  BY DEF WebInv, SpillsFirst, BytesTyped
<1>3. slots[q.region].capacity \in Nat
  BY <1>1, EntryFacts DEF WebInv
<1>4. Len(<< >>) <= slots[q.region].capacity /\ << >> \in Seq(Cells)
  BY <1>3, NoBytes
<1>5. files = [files EXCEPT ![q.region] = files[q.region]]
  BY <1>2
<1>6. open' = open \ {q} /\ inbox' = inbox /\ UNCHANGED directory /\ UNCHANGED <<memory, tasks, calls, version>>
  BY DEF dispatch, dispatch_fails
<1>7. CASE dispatch(q) /\ q.op = "spill"
  <2>1. /\ files' = [files EXCEPT ![q.region] = q.bytes] /\ failed' = failed
        /\ replies' = Append(replies, [task |-> q.task, op |-> q.op, region |-> q.region,
                                       bytes |-> << >>, ok |-> TRUE])
    BY <1>7 DEF dispatch, Reply
  <2> QED BY <1>1, <1>4, <1>6, <1>7, <2>1, DoneKeeps
<1>8. CASE dispatch(q) /\ q.op = "load"
  <2>1. PICK b \in Seq(Cells) : b = files[q.region]
    BY <1>2
  <2>2. /\ files' = [files EXCEPT ![q.region] = b] /\ failed' = failed
        /\ replies' = Append(replies, [task |-> q.task, op |-> q.op, region |-> q.region,
                                       bytes |-> b, ok |-> TRUE])
    BY <1>5, <1>8, <2>1 DEF dispatch, Reply
  <2>3. Len(b) <= slots[q.region].capacity
    BY <1>2, <2>1
  <2> QED BY <1>6, <1>8, <2>1, <2>2, <2>3, DoneKeeps
<1>9. CASE dispatch_fails(q) /\ q.op = "spill"
  <2>1. PICK f : f = [i \in DOMAIN q.bytes |-> Torn]
    OBVIOUS
  <2>2. f \in Seq(Cells) /\ Len(f) = Len(q.bytes)
    <3>1. PICK n \in Nat : n = Len(q.bytes) /\ DOMAIN q.bytes = 1..n
      BY <1>1
    <3>2. f \in [1..n -> Cells]
      BY <2>1, <3>1 DEF Torn, Cells
    <3> QED BY <3>1, <3>2
  <2>3. /\ files' = [files EXCEPT ![q.region] = f] /\ failed' = failed \cup {q.region}
        /\ replies' = Append(replies, [task |-> q.task, op |-> q.op, region |-> q.region,
                                       bytes |-> << >>, ok |-> FALSE])
    BY <1>9, <2>1 DEF dispatch_fails, Reply
  <2>4. Len(f) <= slots[q.region].capacity /\ failed \subseteq failed' /\ q.region \in failed'
    BY <1>1, <2>2, <2>3
  <2> QED BY <1>4, <1>6, <1>9, <2>2, <2>3, <2>4, DoneKeeps
<1>10. CASE dispatch_fails(q) /\ q.op = "load"
  <2>1. PICK b \in Seq(Cells) : b = files[q.region]
    BY <1>2
  <2>2. /\ files' = [files EXCEPT ![q.region] = b] /\ failed' = failed
        /\ replies' = Append(replies, [task |-> q.task, op |-> q.op, region |-> q.region,
                                       bytes |-> << >>, ok |-> FALSE])
    BY <1>5, <1>10, <2>1 DEF dispatch_fails, Reply
  <2>3. Len(b) <= slots[q.region].capacity
    BY <1>2, <2>1
  <2> QED BY <1>4, <1>6, <1>10, <2>1, <2>2, <2>3, DoneKeeps
<1> QED BY <1>7, <1>8, <1>9, <1>10 DEF dispatch, dispatch_fails

(* close drops the channel: spills on their way have failed.               *)
LEMMA CloseKeeps ==
  ASSUME WebInv, close
  PROVE  WebInv'
<1>1. Outstanding = Queued \cup Answered
  BY DEF Outstanding, Queued, Answered
<1> DEFINE Ready == {u \in DOMAIN tasks : tasks[u].op = "create" /\ tasks[u].ready}
<1>2. /\ inbox' = << >> /\ open' = {} /\ replies' = << >>
      /\ tasks' = [t \in Ready |-> tasks[t]]
      /\ failed' = failed \cup {q.region : q \in {p \in Queued \cup Answered : p.op = "spill"}}
      /\ UNCHANGED directory /\ UNCHANGED <<memory, files, version, calls>>
  BY <1>1 DEF close
<1>3. Channel' /\ Queued' = {} /\ Answered' = {}
  BY <1>2, ChannelClosed
<1>4. UNCHANGED slots /\ Resident' = Resident
  BY <1>2 DEF directory, Resident
<1>5. DOMAIN tasks' \subseteq DOMAIN tasks /\ \A t \in DOMAIN tasks' : tasks'[t] = tasks[t]
  BY <1>2
<1> HIDE DEF Ready
<1>6. CallsMatched'
  <2>1. \A t \in DOMAIN tasks' : t \in Nat /\ t <= calls' /\ TaskOK(tasks[t])'
    <3>1. \A t \in DOMAIN tasks : t \in Nat /\ t <= calls /\ TaskOK(tasks[t])
      BY DEF WebInv, CallsMatched
    <3>2. \A task : TaskOK(task)' <=> TaskOK(task)
      BY <1>4 DEF TaskOK
    <3> QED BY <1>2, <1>5, <3>1, <3>2
  <2>2. \A t \in DOMAIN tasks', r \in DOMAIN slots' :
          tasks'[t] = PromoteOf(r) => slots'[r].residency = "Cold"
    BY <1>4, <1>5 DEF WebInv, CallsMatched
  <2>3. \A t, u \in DOMAIN tasks', r \in DOMAIN slots' :
          tasks'[t] = PromoteOf(r) /\ tasks'[u] = PromoteOf(r) => t = u
    BY <1>4, <1>5 DEF WebInv, CallsMatched
  <2> QED BY <1>2, <1>3, <2>1, <2>2, <2>3 DEF WebInv, CallsMatched, PromoteOf
<1>7. SpillsFirst'
  BY <1>2, <1>3 DEF SpillsFirst, NoSpill
<1>8. /\ files' \in [DOMAIN files' -> Seq(Cells)]
      /\ \A s \in DOMAIN files' : s \in DOMAIN slots /\ Len(files'[s]) <= slots[s].capacity
  BY <1>2 DEF WebInv, BytesTyped
<1>9. failed \subseteq failed' /\ \A q \in Queued : q.op = "spill" => q.region \in failed'
  BY <1>2
<1>10. \A s \in DOMAIN slots \ failed' :
         s \notin Resident /\ NoSpill(s)' => s \in DOMAIN files' /\ LatestAt(s, files'[s], 0)
  <2> SUFFICES ASSUME NEW s \in DOMAIN slots \ failed', s \notin Resident
               PROVE  s \in DOMAIN files /\ LatestAt(s, files[s], 0)
    BY <1>2
  <2>1. NoSpill(s) /\ s \notin failed
    BY <1>9 DEF NoSpill, Spills
  <2> QED BY <2>1 DEF WebInv, BytesLatest
<1> QED BY <1>2, <1>3, <1>6, <1>7, <1>8, <1>9, <1>10, WorkerStep

-----------------------------------------------------------------------------
(* Regions that get a span *)

(* What a call that creates a region asks for.                             *)
LEMMA CreateTask ==
  ASSUME WebInv, NEW t \in DOMAIN tasks, tasks[t].op = "create"
  PROVE  /\ tasks[t].capacity \in Nat \ {0} /\ tasks[t].kind \in Policy
         /\ \E w \in Wanted : tasks[t].kind = w.kind /\ tasks[t].capacity = w.capacity
<1>1. TaskOK(tasks[t])
  BY DEF WebInv, CallsMatched
<1>2. PICK w \in Wanted, ready \in BOOLEAN : tasks[t] = Creating(w.kind, w.capacity, ready)
  <2>1. \A r : tasks[t] # PromoteOf(r)
    BY TaskTags
  <2>2. tasks[t] # [op |-> "evict"]
    BY TaskTags
  <2> QED BY <1>1, <2>1, <2>2 DEF TaskOK
<1>3. tasks[t].kind = w.kind /\ tasks[t].capacity = w.capacity
  BY <1>2 DEF Creating
<1>4. w.kind \in Policy /\ w.capacity \in Nat \ {0}
  BY WebAssumption
<1> QED BY <1>3, <1>4

(* createRegion after its await: the region gets a span, or an id is spent. *)
LEMMA CreateKeeps ==
  ASSUME WebInv, NEW t \in DOMAIN tasks, directory_createRegion(t)
  PROVE  WebInv'
<1>1. PICK c \in Nat \ {0}, kind \in Policy : c = tasks[t].capacity /\ kind = tasks[t].kind
  BY CreateTask DEF directory_createRegion
<1>2. PICK place : place = allocateSpan(c, kind.initial)
  OBVIOUS
<1>3. PICK entry : entry = [residency |-> kind.initial, pinned |-> FALSE,
                           pinnable |-> kind.pinnable, spillable |-> kind.spillable,
                           capacity |-> c, used |-> 0,
                           poolIndex |-> place.poolIndex, baseOffset |-> place.baseOffset]
  OBVIOUS
<1>4. PICK r : r = nextId
  OBVIOUS
<1>5. /\ tasks[t].op = "create" /\ tasks[t].ready
      /\ nextId' = nextId + 1 /\ tasks' = Without(tasks, t)
      /\ \/ /\ place.found /\ pools' = place.pools /\ cursorHot' = place.hot /\ cursorWarm' = place.warm
            /\ slots' = With(slots, r, entry)
            /\ version' = With(version, r, [n |-> 0, length |-> 0])
            /\ warmLru' = (IF kind.initial = "Warm" THEN lruPushFront(warmLru, r) ELSE warmLru)
         \/ UNCHANGED <<pools, slots, cursorHot, cursorWarm, warmLru, version>>
      /\ UNCHANGED <<memory, inbox, open, replies, files, calls, failed>>
  BY <1>1, <1>2, <1>3, <1>4 DEF directory_createRegion, worker
<1>6. \A q \in Queued \cup Answered : q.task # t
  BY <1>5, ReadyTask
<1>7. AnswersLeft /\ Answered' = Answered
  BY <1>5 DEF AnswersLeft, Answered
<1>8. calls \in Nat /\ t \in Nat /\ t <= calls /\ nextId \in Nat \ {0} /\ CallsMatched /\ DirectoryTyped /\ Tiled
  BY DEF WebInv, CallsMatched, DirectoryTyped
<1>9. CASE UNCHANGED <<pools, slots, cursorHot, cursorWarm, warmLru, version>>
  <2>1. SpansKept
    BY <1>8, <1>9, UnchangedKeeps
  <2>2. DirectoryTyped'
    <3>1. \A s \in DOMAIN slots : s \in Nat /\ s < nextId + 1 /\ slots[s].used <= slots[s].capacity
      BY <1>8, EntryFacts
    <3>2. nextId' \in Nat \ {0}
      BY <1>5, <1>8
    <3> QED BY <1>5, <1>8, <1>9, <3>1, <3>2 DEF DirectoryTyped
  <2>3. CallsMatched'
    <3>1. calls' \in Nat /\ calls <= calls' /\ t <= calls' /\ inbox' = inbox /\ open' = open
      BY <1>5, <1>8
    <3>2. \A q \in Queued \cup Answered' : q.task # t
      BY <1>6, <1>7
    <3> QED BY <1>5, <1>7, <1>8, <2>1, <3>1, <3>2, CallsEnd
  <2> QED BY <1>5, <1>7, <1>9, <2>1, <2>2, <2>3, QuietBytes
<1>10. CASE /\ place.found /\ pools' = place.pools /\ cursorHot' = place.hot /\ cursorWarm' = place.warm
            /\ slots' = With(slots, r, entry)
            /\ version' = With(version, r, [n |-> 0, length |-> 0])
            /\ warmLru' = (IF kind.initial = "Warm" THEN lruPushFront(warmLru, r) ELSE warmLru)
  <2>0. PICK k \in Pools : \E res :
          /\ res = allocateFromPool(pools[k], c) /\ res.at >= 0
          /\ place.poolIndex = k /\ place.baseOffset = res.at
          /\ place.pools = [pools EXCEPT ![k] = res.pool]
          /\ place.hot \in Nat /\ place.warm \in Nat
    <3>1. cursorHot \in Nat /\ cursorWarm \in Nat
      BY <1>8 DEF DirectoryTyped
    <3>2. PICK residency : residency = kind.initial
      OBVIOUS
    <3>3. place.found /\ place = allocateSpan(c, residency)
      BY <1>2, <1>10, <3>2
    <3>4. \E k \in Pools : \E res :
            /\ res = allocateFromPool(pools[k], c) /\ res.at >= 0
            /\ place.poolIndex = k /\ place.baseOffset = res.at
            /\ place.pools = [pools EXCEPT ![k] = res.pool]
            /\ place.hot \in Nat /\ place.warm \in Nat
      BY <3>1, <3>3, SpanPlaced
    <3> QED BY <3>4
  <2>1. PICK res :
          /\ res = allocateFromPool(pools[k], c) /\ res.at >= 0
          /\ place.poolIndex = k /\ place.baseOffset = res.at
          /\ place.pools = [pools EXCEPT ![k] = res.pool]
          /\ place.hot \in Nat /\ place.warm \in Nat
    BY <2>0
  <2>2. r \notin DOMAIN slots /\ r \notin Resident /\ r \in Nat
    BY <1>4, <1>8, EntryFacts DEF Resident
  <2>3. /\ DOMAIN slots' = DOMAIN slots \cup {r} /\ slots'[r] = entry
        /\ \A s \in DOMAIN slots : slots'[s] = slots[s]
    BY <1>10, <2>2 DEF With
  <2>4. /\ entry.poolIndex = k /\ entry.baseOffset = res.at /\ entry.residency = kind.initial
        /\ entry.capacity = c /\ entry.used = 0
    BY <1>3, <2>1
  <2>5. kind.initial \in {"Hot", "Warm"} /\ kind.pinnable \in BOOLEAN /\ kind.spillable \in BOOLEAN
    BY DEF Policy
  <2>6. Places(r, k, res.at, res.pool) /\ slots'[r].capacity = c
    BY <1>10, <2>1, <2>3, <2>4, <2>5 DEF Places
  <2>7. /\ Tiled' /\ pools' \in [Pools -> [used : Nat, free : Seq(Spans)]]
        /\ Resident' = Resident \cup {r} /\ res.at \in Nat
    BY <1>8, <2>1, <2>2, <2>6, PlacedTiled
  <2>8. entry \in Entries
    BY <1>3, <2>1, <2>5, <2>7 DEF Entries
  <2>9. DirectoryTyped'
    <3>1. slots' \in [DOMAIN slots' -> Entries]
      <4>1. slots' = [s \in DOMAIN slots' |-> slots'[s]]
        BY <1>10 DEF With
      <4>2. \A s \in DOMAIN slots' : slots'[s] \in Entries
        BY <1>8, <2>3, <2>8, EntryFacts
      <4> QED BY <4>1, <4>2
    <3>2. warmLru' \in Seq(DOMAIN slots')
      <4>1. warmLru \in Seq(DOMAIN slots')
        BY <1>8, <2>3, SeqMonotonic DEF DirectoryTyped
      <4>2. lruPushFront(warmLru, r) \in Seq(DOMAIN slots')
        BY <2>3, <4>1, LruTyped
      <4> QED BY <1>10, <4>1, <4>2
    <3>3. \A s \in DOMAIN slots' : s \in Nat /\ s < nextId' /\ slots'[s].used <= slots'[s].capacity
      <4>1. \A s \in DOMAIN slots : s \in Nat /\ s < nextId /\ slots[s].used <= slots[s].capacity
        BY <1>8, EntryFacts
      <4>2. r < nextId' /\ 0 <= c
        BY <1>4, <1>5, <1>8
      <4>3. \A s \in DOMAIN slots : s < nextId'
        BY <1>5, <1>8, <4>1
      <4> QED BY <2>2, <2>3, <2>4, <4>1, <4>2, <4>3
    <3>4. nextId' \in Nat \ {0}
      BY <1>5, <1>8
    <3> QED BY <1>10, <2>1, <2>7, <3>1, <3>2, <3>3, <3>4 DEF DirectoryTyped
  <2>10. Channel' /\ Queued' = Queued
    BY <1>5, <1>7, ChannelQuiet DEF WebInv
  <2>11. CallsMatched'
    <3>1. /\ \A u \in DOMAIN tasks \ {t} : u \in DOMAIN tasks' /\ tasks'[u] = tasks[u]
          /\ DOMAIN tasks' \subseteq DOMAIN tasks \cup {t} /\ t \notin DOMAIN tasks'
      BY <1>5 DEF Without
    <3>2. \A q \in Queued' \cup Answered' : q \in Queued \cup Answered /\ q.task # t
      BY <1>6, <1>7, <2>10
    <3>3. \A s \in DOMAIN slots : \A u \in DOMAIN tasks \ {t} :
            tasks[u] = PromoteOf(s) => slots'[s].residency = "Cold"
      BY <1>8, <2>3 DEF CallsMatched
    <3>4. calls' \in Nat /\ calls <= calls' /\ DOMAIN slots \subseteq DOMAIN slots'
      BY <1>5, <1>8, <2>3
    <3> QED BY <1>8, <3>1, <3>2, <3>3, <3>4, CallsChanged
  <2>12. \A s : NoSpill(s)' <=> NoSpill(s)
    BY <2>10 DEF NoSpill
  <2>13. NoSpill(r)
    BY <2>2, RequestFacts DEF NoSpill, Spills
  <2>14. SpillsFirst'
    <3>1. SpillsFirst
      BY DEF WebInv
    <3> QED BY <1>5, <1>7, <2>7, <2>12, <2>13, <3>1 DEF SpillsFirst
  <2>15. /\ DOMAIN version' = DOMAIN slots' /\ version'[r].n = 0 /\ version'[r].length = 0
         /\ \A s \in DOMAIN slots : version'[s] = version[s]
         /\ version' \in [DOMAIN slots' -> [n : Nat, length : Nat]]
    <3>1. version \in [DOMAIN slots -> [n : Nat, length : Nat]]
      BY DEF WebInv, BytesTyped
    <3>2. PICK first : first = [n |-> 0, length |-> 0]
      OBVIOUS
    <3>3. first \in [n : Nat, length : Nat] /\ first.n = 0 /\ first.length = 0
      BY <3>2
    <3>4. version' = With(version, r, first)
      BY <1>10, <3>2
    <3>5. /\ DOMAIN version' = DOMAIN slots' /\ version'[r] = first
          /\ \A s \in DOMAIN slots : version'[s] = version[s]
      BY <2>2, <2>3, <3>1, <3>4 DEF With
    <3>6. \A s \in DOMAIN slots' : version'[s] \in [n : Nat, length : Nat]
      BY <2>3, <3>1, <3>3, <3>5
    <3>7. version' = [s \in DOMAIN version' |-> version'[s]]
      BY <3>4 DEF With
    <3> QED BY <3>3, <3>5, <3>6, <3>7
  <2>16. BytesTyped'
    <3>1. \A s \in DOMAIN slots' : version'[s].length <= slots'[s].used
      <4>1. \A s \in DOMAIN slots : version[s].length <= slots[s].used
        BY VersionFacts
      <4> QED BY <2>3, <2>4, <2>15, <4>1
    <3>2. \A q \in Queued' \cup Answered' : Len(q.bytes) <= slots'[q.region].capacity
      BY <1>7, <2>3, <2>10, RequestFacts
    <3>3. \A s \in DOMAIN files' : s \in DOMAIN slots' /\ Len(files'[s]) <= slots'[s].capacity
      BY <1>5, <2>3 DEF WebInv, BytesTyped
    <3>4. memory' \in [Pools -> Seq(Cells)] /\ files' \in [DOMAIN files' -> Seq(Cells)]
      BY <1>5 DEF WebInv, BytesTyped
    <3> QED BY <2>15, <3>1, <3>2, <3>3, <3>4 DEF BytesTyped
  <2>17. BytesLatest'
    <3>1. \A s \in DOMAIN slots : \A b, o : LatestAt(s, b, o)' <=> LatestAt(s, b, o)
      BY <2>15, LatestSame
    <3>2. ASSUME NEW s \in Resident' \ failed'
          PROVE  LatestAt(s, memory[slots[s].poolIndex], slots[s].baseOffset)'
      <4>1. CASE s = r
        BY <2>15, <4>1 DEF LatestAt
      <4>2. CASE s # r
        <5>1. s \in Resident \ failed /\ s \in DOMAIN slots
          BY <1>5, <2>7, <3>2, <4>2 DEF Resident
        <5>2. LatestAt(s, memory[slots[s].poolIndex], slots[s].baseOffset)
          BY <5>1 DEF WebInv, BytesLatest
        <5>3. memory' = memory /\ slots'[s] = slots[s] /\ version'[s] = version[s]
          BY <1>5, <2>3, <2>15, <5>1
        <5> QED BY <5>2, <5>3 DEF LatestAt
      <4> QED BY <4>1, <4>2
    <3>3. \A q \in Queued' : q.op = "spill" /\ q.region \notin failed' => LatestAt(q.region, q.bytes, 0)'
      BY <1>5, <2>10, <3>1, RequestFacts DEF WebInv, BytesLatest
    <3>4. ASSUME NEW s \in DOMAIN slots' \ failed', s \notin Resident', NoSpill(s)'
          PROVE  s \in DOMAIN files' /\ LatestAt(s, files[s], 0)'
      <4>1. s \in DOMAIN slots \ failed /\ s \notin Resident /\ NoSpill(s)
        BY <1>5, <2>3, <2>7, <2>12, <3>4
      <4>2. s \in DOMAIN files /\ LatestAt(s, files[s], 0)
        BY <4>1 DEF WebInv, BytesLatest
      <4>3. files' = files /\ version'[s] = version[s]
        BY <1>5, <2>15, <4>1
      <4> QED BY <4>2, <4>3 DEF LatestAt
    <3>5. \A q \in Answered' : q.op = "load" /\ q.ok /\ q.region \notin failed'
            => LatestAt(q.region, q.bytes, 0)'
      BY <1>5, <1>7, <3>1, RequestFacts DEF WebInv, BytesLatest
    <3> QED BY <3>2, <3>3, <3>4, <3>5 DEF BytesLatest
  <2> QED BY <2>7, <2>9, <2>10, <2>11, <2>14, <2>16, <2>17 DEF WebInv
<1> QED BY <1>5, <1>9, <1>10

-----------------------------------------------------------------------------
(* Answers that are read *)

(* The answer at the head is of a call in progress; nothing else that is   *)
(* on its way is of that call.                                             *)
LEMMA AnswerRead ==
  ASSUME WebInv, replies # << >>, replies' = Tail(replies)
  PROVE  /\ AnswersLeft /\ Head(replies) \in Answered /\ Head(replies) \in Answers
         /\ Head(replies).task \in DOMAIN tasks
         /\ Head(replies).task \in Nat /\ Head(replies).task <= calls
         /\ \A q \in Queued \cup Answered' : q.task # Head(replies).task
         /\ Answered' \subseteq Answered
<1>1. AnswersLeft
  BY DEF AnswersLeft
<1>2. replies \in Seq(Answers) /\ Channel
  BY DEF WebInv, Channel
<1>3. /\ Head(replies) \in Answers
      /\ ToSet(replies) = {Head(replies)} \cup ToSet(Tail(replies))
  BY <1>2, TailElements
<1>4. Head(replies) \in Answered
  BY <1>3 DEF Answered
<1>5. Awaited(Head(replies))
  BY <1>4 DEF WebInv, CallsMatched
<1>6. /\ Head(replies).task \in DOMAIN tasks
      /\ Head(replies).task \in Nat /\ Head(replies).task <= calls
  BY <1>5 DEF WebInv, CallsMatched, Awaited
<1>7. replies' # replies
  <2>1. PICK n \in Nat : n = Len(replies) /\ Len(Tail(replies)) = n - 1
    BY <1>2, HeadTailProperties
  <2>2. n - 1 # n
    OBVIOUS
  <2> QED BY <2>1, <2>2
<1> QED BY <1>1, <1>2, <1>3, <1>4, <1>6, <1>7, AnswersRead

(* promote after its await: the bytes of the answer are written to a span  *)
(* that no region holds.                                                   *)
LEMMA ReloadKeeps ==
  ASSUME WebInv, replies # << >>, replies' = Tail(replies), NEW h, h = Head(replies),
         tasks[h.task].op = "promote", Reloadable(h), Reload(h), tasks' = Without(tasks, h.task),
         UNCHANGED <<inbox, open, files, calls, version, failed>>
  PROVE  WebInv'
<1>1. PICK t : t = h.task
  OBVIOUS
<1>2. /\ AnswersLeft /\ h \in Answered /\ h \in Answers /\ t \in DOMAIN tasks
      /\ t \in Nat /\ t <= calls /\ \A q \in Queued \cup Answered' : q.task # t
      /\ Answered' \subseteq Answered
  BY <1>1, AnswerRead
<1>3. PICK r \in DOMAIN slots : r = h.region
  BY <1>2, RequestFacts
<1>4. h.op = "load" /\ h.ok /\ tasks[t] = PromoteOf(r)
  <2>1. Awaited(h)
    BY <1>2 DEF WebInv, CallsMatched
  <2>2. h.op \in {"spill", "load"}
    BY <1>2, RequestFacts
  <2> QED BY <1>1, <1>3, <2>1, <2>2 DEF Awaited, Reloadable
<1>5. PICK e \in Entries, c \in Nat \ {0} :
        e = slots[r] /\ c = e.capacity /\ e.used \in Nat /\ e.used <= c /\ r \in Nat
  BY EntryFacts DEF WebInv
<1>6. PICK place : place = allocateSpan(c, "Hot")
  OBVIOUS
<1>7. PICK new \in Seq(Cells) : new = h.bytes /\ Len(new) <= c
  BY <1>2, <1>3, <1>5, RequestFacts
<1>8. /\ place.found /\ pools' = place.pools /\ cursorHot' = place.hot /\ cursorWarm' = place.warm
      /\ slots' = [slots EXCEPT ![r].poolIndex = place.poolIndex,
                                ![r].baseOffset = place.baseOffset, ![r].residency = "Hot"]
      /\ memory' = [memory EXCEPT ![place.poolIndex] =
                      writeRange(memory[place.poolIndex], place.baseOffset, new)]
      /\ warmLru' = lruRemove(warmLru, r) /\ nextId' = nextId
  BY <1>3, <1>5, <1>6, <1>7 DEF Reload
<1>9. DirectoryTyped /\ Tiled /\ CallsMatched /\ slots[r].residency = "Cold" /\ r \notin Resident
  <2>1. slots[r].residency = "Cold"
    BY <1>2, <1>3, <1>4, RequestFacts
  <2> QED BY <2>1 DEF WebInv, Resident
<1>9a. PICK k \in Pools : \E res :
         /\ res = allocateFromPool(pools[k], c) /\ res.at >= 0
         /\ place.poolIndex = k /\ place.baseOffset = res.at
         /\ place.pools = [pools EXCEPT ![k] = res.pool]
         /\ place.hot \in Nat /\ place.warm \in Nat
  <2>1. cursorHot \in Nat /\ cursorWarm \in Nat
    BY <1>9 DEF DirectoryTyped
  <2>2. \E k \in Pools : \E res :
          /\ res = allocateFromPool(pools[k], c) /\ res.at >= 0
          /\ place.poolIndex = k /\ place.baseOffset = res.at
          /\ place.pools = [pools EXCEPT ![k] = res.pool]
          /\ place.hot \in Nat /\ place.warm \in Nat
    <3>1. PICK residency : residency = "Hot"
      OBVIOUS
    <3>2. place.found
      BY <1>8
    <3>3. place = allocateSpan(c, residency)
      BY <1>6, <3>1
    <3>4. \E i \in Pools : \E res :
            /\ res = allocateFromPool(pools[i], c) /\ res.at >= 0
            /\ place.poolIndex = i /\ place.baseOffset = res.at
            /\ place.pools = [pools EXCEPT ![i] = res.pool]
            /\ place.hot \in Nat /\ place.warm \in Nat
      <4>1. c \in Nat \ {0}
        BY <1>5
      <4> QED BY <2>1, <3>2, <3>3, <4>1, SpanPlaced, ZenonT(60)
    <3> QED BY <3>4
  <2> QED BY <2>2
<1>10. PICK res :
         /\ res = allocateFromPool(pools[k], c) /\ res.at >= 0
         /\ place.poolIndex = k /\ place.baseOffset = res.at
         /\ place.pools = [pools EXCEPT ![k] = res.pool]
         /\ place.hot \in Nat /\ place.warm \in Nat
  BY <1>9a
<1>11. PICK f : f = [e EXCEPT !.poolIndex = k, !.baseOffset = res.at, !.residency = "Hot"]
  OBVIOUS
<1>12. /\ f.poolIndex = k /\ f.baseOffset = res.at /\ f.residency = "Hot"
       /\ f.capacity = c /\ f.used = e.used
  BY <1>5, <1>11 DEF Entries
<1>13. /\ DOMAIN slots' = DOMAIN slots /\ slots'[r] = f
       /\ \A s \in DOMAIN slots \ {r} : slots'[s] = slots[s]
       /\ slots' = [s \in DOMAIN slots |-> IF s = r THEN f ELSE slots[s]]
  <2>1. slots = [s \in DOMAIN slots |-> slots[s]]
    BY <1>9 DEF DirectoryTyped
  <2> QED BY <1>5, <1>8, <1>10, <1>11, <2>1
<1>14. Places(r, k, res.at, res.pool) /\ slots'[r].capacity = c
  <2>1. pools' = [pools EXCEPT ![k] = res.pool]
    BY <1>8, <1>10
  <2>2. DOMAIN slots' = DOMAIN slots \cup {r}
    BY <1>13
  <2>3. slots'[r].poolIndex = k /\ slots'[r].baseOffset = res.at /\ slots'[r].residency # "Cold"
    BY <1>12, <1>13
  <2>4. slots'[r].capacity = c
    BY <1>12, <1>13
  <2> QED BY <1>13, <2>1, <2>2, <2>3, <2>4 DEF Places
<1>15. /\ Tiled' /\ pools' \in [Pools -> [used : Nat, free : Seq(Spans)]]
       /\ Resident' = Resident \cup {r} /\ res.at \in Nat
       /\ \A x \in Nat : Within(res.at, c, x) => ~Busy(pools[k], x)
  BY <1>9, <1>10, <1>14, PlacedTiled
<1>16. PICK o \in Nat : o = res.at
  BY <1>15
<1>17. DirectoryTyped'
  <2>1. f \in Entries
    BY <1>5, <1>11, <1>15 DEF Entries
  <2>2. slots' \in [DOMAIN slots' -> Entries]
    BY <1>9, <1>13, <2>1, EntryFacts
  <2>3. warmLru' \in Seq(DOMAIN slots')
    BY <1>8, <1>9, <1>13, LruTyped DEF DirectoryTyped
  <2>4. ASSUME NEW s \in DOMAIN slots'
        PROVE  s \in Nat /\ s < nextId' /\ slots'[s].used <= slots'[s].capacity
    <3>1. s \in DOMAIN slots /\ s \in Nat /\ s < nextId /\ slots[s].used <= slots[s].capacity
      BY <1>9, <1>13, EntryFacts
    <3> QED BY <1>5, <1>8, <1>12, <1>13, <3>1
  <2> QED BY <1>8, <1>9, <1>10, <1>15, <2>2, <2>3, <2>4 DEF DirectoryTyped
<1>18. Channel' /\ Queued' = Queued
  BY <1>2, ChannelQuiet DEF WebInv
<1>19. CallsMatched'
  <2>1. /\ \A u \in DOMAIN tasks \ {t} : u \in DOMAIN tasks' /\ tasks'[u] = tasks[u]
        /\ DOMAIN tasks' \subseteq DOMAIN tasks \cup {t} /\ t \notin DOMAIN tasks'
    BY <1>1 DEF Without
  <2>2. \A q \in Queued' \cup Answered' : q \in Queued \cup Answered /\ q.task # t
    BY <1>2, <1>18
  <2>3. ASSUME NEW s \in DOMAIN slots, NEW u \in DOMAIN tasks \ {t}, tasks[u] = PromoteOf(s)
        PROVE  slots'[s].residency = "Cold"
    <3>1. s # r
      BY <1>2, <1>4, <1>9, <2>3 DEF CallsMatched
    <3>2. slots[s].residency = "Cold"
      BY <1>9, <2>3 DEF CallsMatched
    <3> QED BY <1>13, <3>1, <3>2
  <2>4. calls' \in Nat /\ calls <= calls' /\ DOMAIN slots \subseteq DOMAIN slots'
    BY <1>9, <1>13 DEF CallsMatched
  <2> QED BY <1>9, <2>1, <2>2, <2>3, <2>4, CallsChanged
<1>20. \A s : NoSpill(s)' <=> NoSpill(s)
  BY <1>18 DEF NoSpill
<1>21. NoSpill(r)
  BY <1>2, <1>3, <1>4 DEF WebInv, SpillsFirst
<1>22. SpillsFirst'
  <2>1. SpillsFirst
    BY DEF WebInv
  <2> QED BY <1>2, <1>15, <1>20, <1>21, <2>1 DEF SpillsFirst
<1>23. /\ memory' \in [Pools -> Seq(Cells)]
       /\ Len(memory'[k]) \in Nat /\ Len(new) \in Nat /\ o + Len(new) <= Len(memory'[k])
       /\ Stored(memory'[k], o, new) /\ Spared(k, o, Len(new))
  <2>1. PICK g : g = writeRange(memory[k], o, new) /\ memory' = [memory EXCEPT ![k] = g]
    BY <1>8, <1>10, <1>16
  <2> QED BY <2>1, MemoryWritten
<1>24. BytesTyped'
  <2>1. ASSUME NEW s \in DOMAIN slots'
        PROVE  /\ slots'[s].used = slots[s].used /\ slots'[s].capacity = slots[s].capacity
               /\ s \in DOMAIN slots
    BY <1>5, <1>12, <1>13
  <2>2. \A s \in DOMAIN slots' : version'[s].length <= slots'[s].used
    BY <2>1, VersionFacts
  <2>3. \A q \in Queued' \cup Answered' : Len(q.bytes) <= slots'[q.region].capacity
    BY <1>2, <1>13, <1>18, <2>1, RequestFacts
  <2>4. \A s \in DOMAIN files' : s \in DOMAIN slots' /\ Len(files'[s]) <= slots'[s].capacity
    BY <1>13, <2>1 DEF WebInv, BytesTyped
  <2>5. files' \in [DOMAIN files' -> Seq(Cells)] /\ version' \in [DOMAIN slots' -> [n : Nat, length : Nat]]
    BY <1>13 DEF WebInv, BytesTyped
  <2> QED BY <1>23, <2>2, <2>3, <2>4, <2>5 DEF BytesTyped
<1>25. BytesLatest'
  <2>1. \A s, b, p : LatestAt(s, b, p)' <=> LatestAt(s, b, p)
    BY LatestSame
  <2>2. ASSUME NEW s \in Resident' \ failed'
        PROVE  LatestAt(s, memory[slots[s].poolIndex], slots[s].baseOffset)'
    <3>1. CASE s = r
      <4>1. LatestAt(r, new, 0)
        BY <1>2, <1>3, <1>4, <1>7, <2>2, <3>1 DEF WebInv, BytesLatest
      <4>2. version[r].length \in Nat
        BY VersionFacts
      <4>3. PICK n \in Nat : n = Len(new)
        OBVIOUS
      <4>4. version[r].length <= n
        BY <4>1, <4>2, <4>3 DEF LatestAt
      <4>5. PICK g : g = memory'[k]
        OBVIOUS
      <4>6. \A i \in 1..n : g[o + i] = new[0 + i]
        BY <1>23, <4>3, <4>5 DEF Stored
      <4>7. Len(g) \in Nat /\ o + n <= Len(g)
        BY <1>23, <4>3, <4>5
      <4>8. LatestAt(r, g, o)
        <5>1. 0 \in Nat
          OBVIOUS
        <5> QED BY <4>1, <4>2, <4>4, <4>6, <4>7, <5>1, LatestCopied
      <4>9. slots'[s].poolIndex = k /\ slots'[s].baseOffset = o /\ version' = version
        BY <1>12, <1>13, <1>16, <3>1
      <4> QED BY <3>1, <4>5, <4>8, <4>9 DEF LatestAt
    <3>2. CASE s # r
      <4>1. s \in Resident \ failed /\ s \in DOMAIN slots \ {r}
        BY <1>15, <2>2, <3>2 DEF Resident
      <4>2. LatestAt(s, memory[slots[s].poolIndex], slots[s].baseOffset)
        BY <4>1 DEF WebInv, BytesLatest
      <4>3. ASSUME slots[s].poolIndex = k, NEW x \in Nat
            PROVE  ~(Within(slots[s].baseOffset, slots[s].capacity, x) /\ Within(o, Len(new), x))
        <5>1. s \in Here(k)
          BY <4>1, <4>3 DEF Here
        <5>2. Holds(s, x) => Busy(pools[k], x)
          BY <1>9, <5>1 DEF Tiled
        <5>3. Within(o, Len(new), x) => Within(o, c, x)
          <6>1. Len(new) \in Nat /\ Len(new) <= c
            BY <1>7
          <6> QED BY <6>1 DEF Within
        <5> QED BY <1>15, <1>16, <5>2, <5>3 DEF Holds
      <4>4. LatestAt(s, memory'[slots[s].poolIndex], slots[s].baseOffset)
        BY <1>23, <4>1, <4>2, <4>3 DEF Spared
      <4>5. slots'[s] = slots[s] /\ version' = version
        BY <1>13, <4>1
      <4> QED BY <4>4, <4>5 DEF LatestAt
    <3> QED BY <3>1, <3>2
  <2>3. \A q \in Queued' : q.op = "spill" /\ q.region \notin failed' => LatestAt(q.region, q.bytes, 0)'
    BY <1>18, <2>1 DEF WebInv, BytesLatest
  <2>4. ASSUME NEW s \in DOMAIN slots' \ failed', s \notin Resident', NoSpill(s)'
        PROVE  s \in DOMAIN files' /\ LatestAt(s, files[s], 0)'
    <3>1. s \in DOMAIN slots \ failed /\ s \notin Resident /\ NoSpill(s)
      BY <1>13, <1>15, <1>20, <2>4
    <3>2. s \in DOMAIN files /\ LatestAt(s, files[s], 0)
      BY <3>1 DEF WebInv, BytesLatest
    <3> QED BY <3>2 DEF LatestAt
  <2>5. \A q \in Answered' : q.op = "load" /\ q.ok /\ q.region \notin failed'
          => LatestAt(q.region, q.bytes, 0)'
    BY <1>2, <2>1 DEF WebInv, BytesLatest
  <2> QED BY <2>2, <2>3, <2>4, <2>5 DEF BytesLatest
<1> QED BY <1>15, <1>17, <1>18, <1>19, <1>22, <1>24, <1>25 DEF WebInv

-----------------------------------------------------------------------------
(* The steps *)

(* One round of ensureBudgetFor, of a call that starts or goes on.         *)
LEMMA BudgetKeeps ==
  ASSUME WebInv, NEW w \in Wanted, NEW t \in Nat, AnswersLeft,
         calls' \in Nat, calls <= calls', t <= calls',
         \A q \in Queued \cup Answered' : q.task # t,
         ensureBudgetFor(w.kind, w.capacity, t), UNCHANGED <<memory, open, files, version>>
  PROVE  WebInv'
<1>1. DirectoryTyped
  BY DEF WebInv
<1>2. Scanned \in Seq(DOMAIN slots) /\ (Scanned # << >> => Last(Scanned) \in Resident)
  BY <1>1, ScanTyped
<1>3. CASE /\ Scanned # << >>
           /\ BeginEvict(Last(Scanned), Scanned, t, Creating(w.kind, w.capacity, FALSE))
  <2>1. PICK task : task = Creating(w.kind, w.capacity, FALSE)
    OBVIOUS
  <2>2. TaskOK(task) /\ task.op # "promote" /\ ~task.ready
    <3>1. TaskOK(task)
      BY <2>1 DEF TaskOK
    <3>2. task.op = "create" /\ task.ready = FALSE
      BY <2>1 DEF Creating
    <3> QED BY <3>1, <3>2
  <2>3. PICK r \in Resident, lru \in Seq(DOMAIN slots) : r = Last(Scanned) /\ lru = Scanned
    BY <1>2, <1>3
  <2>4. BeginEvict(r, lru, t, task)
    BY <1>3, <2>1, <2>3
  <2> QED BY <2>2, <2>4, EvictKeeps
<1>4. CASE /\ warmLru' = (IF OverBudget(w.capacity) THEN Scanned ELSE warmLru)
           /\ tasks' = With(tasks, t, Creating(w.kind, w.capacity, TRUE))
           /\ UNCHANGED <<pools, slots, nextId, cursorHot, cursorWarm, inbox, failed>>
  <2>1. SpansKept
    BY <1>1, <1>4, UnchangedKeeps
  <2>2. warmLru' \in Seq(DOMAIN slots)
    BY <1>1, <1>2, <1>4 DEF DirectoryTyped
  <2>3. DirectoryTyped'
    BY <1>1, <1>4, <2>2 DEF DirectoryTyped
  <2>4. inbox' = inbox /\ open' = open
    BY <1>4
  <2>5. CallsMatched'
    BY <1>4, <2>1, <2>4, CallsEnd
  <2> QED BY <1>4, <2>1, <2>3, <2>4, <2>5, QuietBytes
<1> QED BY <1>3, <1>4 DEF ensureBudgetFor

(* An answer is read: its call ends, or goes on.                           *)
LEMMA ResumeKeeps ==
  ASSUME WebInv, resume
  PROVE  WebInv'
<1>1. PICK h, t : h = Head(replies) /\ t = h.task
  OBVIOUS
<1>2. /\ replies # << >> /\ replies' = Tail(replies)
      /\ evict_returns(h) \/ createRegion_resumes(h) \/ promote_resumes(h)
  BY <1>1 DEF resume
<1>3. /\ AnswersLeft /\ t \in DOMAIN tasks /\ t \in Nat /\ t <= calls
      /\ \A q \in Queued \cup Answered' : q.task # t
  BY <1>1, <1>2, AnswerRead
<1>4. calls \in Nat /\ calls <= calls
  BY DEF WebInv, CallsMatched
<1>5. ASSUME tasks' = Without(tasks, t), UNCHANGED directory,
             UNCHANGED <<memory, inbox, open, files, calls, version, failed>>
      PROVE  WebInv'
  <2>1. SpansKept /\ DirectoryTyped'
    BY <1>5, UnchangedTyped DEF WebInv
  <2>2. calls' \in Nat /\ calls <= calls' /\ t <= calls' /\ inbox' = inbox /\ open' = open
    BY <1>3, <1>4, <1>5
  <2>3. CallsMatched'
    BY <1>3, <1>5, <2>1, <2>2, CallsEnd
  <2> QED BY <1>3, <1>5, <2>1, <2>2, <2>3, QuietBytes
<1>6. CASE evict_returns(h)
  <2>1. /\ tasks' = Without(tasks, t) /\ UNCHANGED directory
        /\ UNCHANGED <<memory, inbox, open, files, calls, version, failed>>
    BY <1>1, <1>6 DEF evict_returns
  <2> QED BY <1>5, <2>1
<1>7. CASE createRegion_resumes(h)
  <2>1. UNCHANGED <<memory, open, files, version>> /\ calls' = calls /\ tasks[t].op = "create"
    BY <1>1, <1>7 DEF createRegion_resumes
  <2>2. CASE ensureBudgetFor(tasks[t].kind, tasks[t].capacity, t)
    <3>1. PICK w \in Wanted : tasks[t].kind = w.kind /\ tasks[t].capacity = w.capacity
      BY <1>3, <2>1, CreateTask
    <3>2. ensureBudgetFor(w.kind, w.capacity, t)
      BY <2>2, <3>1
    <3>3. calls' \in Nat /\ calls <= calls' /\ t <= calls'
      BY <1>3, <1>4, <2>1
    <3> QED BY <1>3, <2>1, <3>2, <3>3, BudgetKeeps
  <2>3. CASE tasks' = Without(tasks, t) /\ UNCHANGED <<directory, inbox, failed>>
    <3>1. /\ UNCHANGED directory /\ UNCHANGED <<memory, inbox, open, files, calls, version, failed>>
      BY <2>1, <2>3
    <3> QED BY <1>5, <2>3, <3>1
  <2> QED BY <1>1, <1>7, <2>2, <2>3 DEF createRegion_resumes
<1>8. CASE promote_resumes(h)
  <2>1. /\ tasks[h.task].op = "promote" /\ tasks' = Without(tasks, h.task)
        /\ UNCHANGED <<inbox, open, files, calls, version, failed>>
        /\ (Reloadable(h) /\ Reload(h)) \/ UNCHANGED <<directory, memory>>
    BY <1>8 DEF promote_resumes
  <2>2. CASE Reloadable(h) /\ Reload(h)
    BY <1>1, <1>2, <2>1, <2>2, ReloadKeeps
  <2>3. CASE UNCHANGED <<directory, memory>>
    <3>1. /\ UNCHANGED directory /\ UNCHANGED <<memory, inbox, open, files, calls, version, failed>>
      BY <2>1, <2>3
    <3> QED BY <1>1, <1>5, <2>1, <3>1
  <2> QED BY <2>1, <2>2, <2>3
<1> QED BY <1>2, <1>6, <1>7, <1>8

(* Calls that evict or create a region begin.                              *)
LEMMA BeginKeeps ==
  ASSUME WebInv,
         \/ \E r \in DOMAIN slots : evict(r)
         \/ evictColdest
         \/ \E w \in Wanted : createRegion(w.kind, w.capacity)
  PROVE  WebInv'
<1>1. PICK t \in Nat : t = calls + 1
  BY FreshTask
<1>2. /\ calls' = calls + 1 /\ calls \in Nat
      /\ UNCHANGED <<memory, open, replies, files, version>>
  BY DEF evict, evictColdest, createRegion, Started, WebInv, CallsMatched
<1>3. /\ AnswersLeft /\ Answered' = Answered
      /\ calls' \in Nat /\ calls <= calls' /\ t <= calls'
      /\ UNCHANGED <<memory, open, files, version>>
  BY <1>1, <1>2 DEF AnswersLeft, Answered
<1>4. \A q \in Queued \cup Answered' : q.task # t
  BY <1>1, <1>3, FreshTask
<1>5. PICK task : task = [op |-> "evict"]
  OBVIOUS
<1>6. TaskOK(task) /\ task.op # "promote" /\ (task.op = "create" => ~task.ready)
  <2>1. TaskOK(task)
    BY <1>5 DEF TaskOK
  <2>2. task.op = "evict"
    BY <1>5
  <2> QED BY <2>1, <2>2
<1>7. DirectoryTyped
  BY DEF WebInv
<1>8. ASSUME NEW r \in DOMAIN slots, evict(r) PROVE WebInv'
  <2>1. BeginEvict(r, warmLru, t, task) /\ r \in Resident
    BY <1>1, <1>5, <1>8 DEF evict, MayEvict, Resident, This
  <2>2. warmLru \in Seq(DOMAIN slots)
    BY <1>7 DEF DirectoryTyped
  <2> QED BY <1>3, <1>4, <1>6, <2>1, <2>2, EvictKeeps
<1>9. CASE evictColdest
  <2>1. Scanned # << >> /\ BeginEvict(Last(Scanned), Scanned, t, task)
    BY <1>1, <1>5, <1>9 DEF evictColdest, This
  <2>2. PICK r \in Resident, lru \in Seq(DOMAIN slots) : r = Last(Scanned) /\ lru = Scanned
    BY <1>7, <2>1, ScanTyped
  <2>3. BeginEvict(r, lru, t, task)
    BY <2>1, <2>2
  <2> QED BY <1>3, <1>4, <1>6, <2>3, EvictKeeps
<1>10. ASSUME NEW w \in Wanted, createRegion(w.kind, w.capacity) PROVE WebInv'
  <2>1. ensureBudgetFor(w.kind, w.capacity, t)
    BY <1>1, <1>10 DEF createRegion, This
  <2> QED BY <1>3, <1>4, <2>1, BudgetKeeps
<1> QED BY <1>8, <1>9, <1>10

(* The invariant holds of a Tvm just made.                                 *)
LEMMA WebInvInit ==
  ASSUME WebInit
  PROVE  WebInv
<1>1. DOMAIN << >> = {} /\ ToSet(<< >>) = {} /\ Len(<< >>) = 0
  BY DEF ToSet
<1>2. /\ Queued = {} /\ Answered = {} /\ Resident = {}
      /\ DOMAIN slots = {} /\ DOMAIN tasks = {} /\ DOMAIN files = {}
  BY <1>1 DEF WebInit, Queued, Answered, Resident
<1>3. DirectoryTyped
  <2>1. << >> \in Seq(Spans) /\ << >> \in Seq({}) /\ << >> \in [{} -> Entries]
    OBVIOUS
  <2> QED BY <1>1, <2>1 DEF WebInit, DirectoryTyped
<1>4. Tiled
  <2>1. PICK pool : pool = [used |-> 0, free |-> << >>]
    OBVIOUS
  <2>2. PoolOK(pool) /\ \A x \in Nat : ~Busy(pool, x)
    <3>1. pool.used = 0 /\ pool.free = << >> /\ DOMAIN pool.free = {}
      BY <1>1, <2>1
    <3>2. << >> \in Seq(Spans) /\ 0 <= PoolCapacity
      BY WebAssumption
    <3>3. Separated(pool.free) /\ pool \in [used : Nat, free : Seq(Spans)]
      BY <2>1, <3>1, <3>2 DEF Separated
    <3>4. \A x \in Nat : ~(x < pool.used)
      BY <3>1
    <3> QED BY <3>1, <3>2, <3>3, <3>4 DEF PoolOK, Busy
  <2>3. \A k \in Pools : pools[k] = pool
    BY <2>1 DEF WebInit
  <2>4. \A k \in Pools : Here(k) = {}
    BY <1>2 DEF Here
  <2> QED BY <2>2, <2>3, <2>4 DEF Tiled
<1>5. Channel
  <2>1. << >> \in Seq(Requests) /\ << >> \in Seq(Answers) /\ Single(<< >>)
    BY <1>1 DEF Single
  <2> QED BY <1>1, <1>2, <2>1 DEF WebInit, Channel
<1>6. CallsMatched
  BY <1>2 DEF WebInit, CallsMatched
<1>7. SpillsFirst
  BY <1>2 DEF WebInit, SpillsFirst
<1>8. BytesTyped
  <2>1. [i \in 1..PageBytes |-> Blank] \in Seq(Cells)
    <3>1. Blank \in Cells /\ PageBytes \in Nat
      BY WebAssumption DEF Blank, Cells
    <3> QED BY <3>1
  <2>2. memory \in [Pools -> Seq(Cells)]
    BY <2>1 DEF WebInit
  <2>3. << >> \in [{} -> Seq(Cells)] /\ << >> \in [{} -> [n : Nat, length : Nat]]
    OBVIOUS
  <2> QED BY <1>1, <1>2, <2>2, <2>3 DEF WebInit, BytesTyped
<1>9. BytesLatest
  BY <1>2 DEF BytesLatest
<1> QED BY <1>3, <1>4, <1>5, <1>6, <1>7, <1>8, <1>9 DEF WebInv

(* Every call, every step of the worker and every answer keeps it.         *)
LEMMA WebInvNext ==
  ASSUME WebInv, [WebNext]_webVars
  PROVE  WebInv'
<1>1. CASE UNCHANGED webVars
  <2>1. UNCHANGED <<directory, memory, worker, tasks, calls, version, failed>>
    BY <1>1 DEF webVars
  <2> QED BY <2>1, SameKeeps
<1>2. CASE call
  <2>1. ASSUME NEW r \in DOMAIN slots, NEW size \in Sizes, alloc(r, size) PROVE WebInv'
    BY <2>1, AllocKeeps
  <2>2. ASSUME NEW r \in DOMAIN slots, write(r) PROVE WebInv'
    BY <2>2, WriteKeeps
  <2>3. ASSUME NEW r \in DOMAIN slots, pin(r) \/ unpin(r) \/ demote(r) PROVE WebInv'
    BY <2>3, PinKeeps
  <2>4. ASSUME NEW r \in DOMAIN slots, promote(r) PROVE WebInv'
    BY <2>4, PromoteKeeps
  <2>5. ASSUME NEW b, setBudget(b) PROVE WebInv'
    <3>1. UNCHANGED <<directory, memory, worker, tasks, calls, version, failed>>
      BY <2>5 DEF setBudget
    <3> QED BY <3>1, SameKeeps
  <2>6. CASE \/ \E r \in DOMAIN slots : evict(r)
             \/ evictColdest
             \/ \E w \in Wanted : createRegion(w.kind, w.capacity)
    BY <2>6, BeginKeeps
  <2>7. CASE close
    BY <2>7, CloseKeeps
  <2> QED BY <1>2, <2>1, <2>2, <2>3, <2>4, <2>5, <2>6, <2>7 DEF call
<1>3. ASSUME NEW t \in DOMAIN tasks, directory_createRegion(t) PROVE WebInv'
  BY <1>3, CreateKeeps
<1>4. CASE handleFor
  BY <1>4, HandleKeeps
<1>5. ASSUME NEW q \in open, dispatch(q) \/ dispatch_fails(q) PROVE WebInv'
  BY <1>5, DispatchKeeps
<1>6. CASE resume
  BY <1>6, ResumeKeeps
<1> QED BY <1>1, <1>2, <1>3, <1>4, <1>5, <1>6 DEF WebNext

-----------------------------------------------------------------------------
(* What the invariant says *)

(* The bytes of a region's span.                                           *)
LEMMA SpanElements ==
  ASSUME DirectoryTyped, NEW r \in DOMAIN slots
  PROVE  \A x : x \in Span(r) <=> x \in Nat /\ Holds(r, x)
<1>1. PICK o \in Nat, c \in Nat \ {0} : o = slots[r].baseOffset /\ c = slots[r].capacity
  BY EntryFacts
<1>2. \A x : x \in o..(o + c - 1) <=> x \in Nat /\ o <= x /\ x < o + c
  OBVIOUS
<1> QED BY <1>1, <1>2 DEF Span, Holds, Within

(* The bytes of a free span.                                               *)
LEMMA FreeElements ==
  ASSUME NEW f \in Spans
  PROVE  \A x : x \in FreeSpan(f) <=> x \in Nat /\ Within(f.offset, f.size, x)
<1>1. PICK o \in Nat, c \in Nat \ {0} : o = f.offset /\ c = f.size
  BY DEF Spans
<1>2. \A x : x \in o..(o + c - 1) <=> x \in Nat /\ o <= x /\ x < o + c
  OBVIOUS
<1> QED BY <1>1, <1>2 DEF FreeSpan, Within

(* Tiled, byte by byte, is what SpansTile says of sets of bytes.           *)
LEMMA TiledExactly ==
  ASSUME DirectoryTyped, Tiled
  PROVE  SpansTile
<1> SUFFICES ASSUME NEW k \in Pools, NEW here, here = {r \in Resident : slots[r].poolIndex = k},
                    NEW free, free = pools[k].free
             PROVE  /\ UNION ({Span(r) : r \in here} \cup {FreeSpan(f) : f \in ToSet(free)})
                         = 0..(pools[k].used - 1)
                    /\ \A r, s \in here : r # s => Span(r) \cap Span(s) = {}
                    /\ \A r \in here, f \in ToSet(free) : Span(r) \cap FreeSpan(f) = {}
                    /\ \A i \in 1..(Len(free) - 1) : free[i].offset + free[i].size < free[i + 1].offset
                    /\ \A f \in ToSet(free) : f.offset + f.size < pools[k].used
  BY DEF SpansTile
<1>1. here = Here(k) /\ here \subseteq DOMAIN slots
  BY DEF Here, Resident
<1>2. PICK used \in Nat : used = pools[k].used
  BY DEF Tiled, PoolOK
<1>3. /\ free \in Seq(Spans)
      /\ \A i, j \in DOMAIN free : i < j => End(free[i]) < free[j].offset
      /\ \A i \in DOMAIN free : End(free[i]) < used
  BY <1>2 DEF Tiled, PoolOK, Separated
<1>4. \A x \in Nat : Busy(pools[k], x) <=> x < used /\ ~Free(free, x)
  BY <1>2 DEF Busy
<1>5. ToSet(free) \subseteq Spans
  BY <1>3 DEF ToSet
<1>6. ASSUME NEW f \in ToSet(free), NEW x \in FreeSpan(f)
      PROVE  x \in Nat /\ x < used /\ Free(free, x)
  <2>1. PICK i \in DOMAIN free : f = free[i]
    BY <1>6 DEF ToSet
  <2>2. x \in Nat /\ Within(f.offset, f.size, x)
    BY <1>5, <1>6, FreeElements
  <2>3. f.offset + f.size < used /\ f.offset + f.size \in Nat
    BY <1>3, <1>5, <2>1 DEF End, Spans
  <2>4. x < used
    BY <2>2, <2>3 DEF Within
  <2> QED BY <2>1, <2>2, <2>4 DEF Free
<1>7. ASSUME NEW r \in here, NEW x \in Span(r)
      PROVE  x \in Nat /\ x < used /\ ~Free(free, x) /\ Holds(r, x)
  <2>1. x \in Nat /\ Holds(r, x)
    BY <1>1, <1>7, SpanElements
  <2>2. Busy(pools[k], x)
    BY <1>1, <2>1 DEF Tiled
  <2> QED BY <1>4, <2>1, <2>2
<1>8. \A r \in here, f \in ToSet(free) : Span(r) \cap FreeSpan(f) = {}
  BY <1>6, <1>7
<1>9. \A r, s \in here : r # s => Span(r) \cap Span(s) = {}
  BY <1>1, <1>7 DEF Tiled
<1>10. \A i \in 1..(Len(free) - 1) : free[i].offset + free[i].size < free[i + 1].offset
  <2> SUFFICES ASSUME NEW i \in 1..(Len(free) - 1)
               PROVE  free[i].offset + free[i].size < free[i + 1].offset
    OBVIOUS
  <2>1. i \in DOMAIN free /\ i + 1 \in DOMAIN free /\ i < i + 1
    BY <1>3
  <2> QED BY <1>3, <2>1 DEF End
<1>11. \A f \in ToSet(free) : f.offset + f.size < pools[k].used
  BY <1>2, <1>3 DEF ToSet, End
<1>12. ASSUME NEW x \in 0..(used - 1)
       PROVE  \/ \E r \in here : x \in Span(r)
              \/ \E f \in ToSet(free) : x \in FreeSpan(f)
  <2>1. x \in Nat /\ x < used
    BY <1>12
  <2>2. CASE Free(free, x)
    <3>1. PICK i \in DOMAIN free : Within(free[i].offset, free[i].size, x)
      BY <2>2 DEF Free
    <3>2. free[i] \in ToSet(free) /\ free[i] \in Spans
      BY <1>5, <3>1 DEF ToSet
    <3> QED BY <2>1, <3>1, <3>2, FreeElements
  <2>3. CASE ~Free(free, x)
    <3>1. PICK r \in here : Holds(r, x)
      BY <1>1, <1>4, <2>1, <2>3 DEF Tiled
    <3> QED BY <1>1, <2>1, <3>1, SpanElements
  <2> QED BY <2>2, <2>3
<1>13. UNION ({Span(r) : r \in here} \cup {FreeSpan(f) : f \in ToSet(free)}) = 0..(used - 1)
  <2>1. \A x \in Nat : x < used => x \in 0..(used - 1)
    OBVIOUS
  <2>2. \A r \in here : Span(r) \subseteq 0..(used - 1)
    BY <1>7, <2>1
  <2>3. \A f \in ToSet(free) : FreeSpan(f) \subseteq 0..(used - 1)
    BY <1>6, <2>1
  <2> QED BY <1>12, <2>2, <2>3
<1> QED BY <1>2, <1>8, <1>9, <1>10, <1>11, <1>13

(* Bytes that hold what was written last, from their start on.             *)
LEMMA LatestFromStart ==
  ASSUME NEW r, version[r].length \in Nat, NEW b \in Seq(Cells), LatestAt(r, b, 0)
  PROVE  Latest(r, b)
<1>1. Len(b) \in Nat
  OBVIOUS
<1>2. \A i \in 1..version[r].length : 0 + i = i
  OBVIOUS
<1> QED BY <1>1, <1>2 DEF Latest, LatestAt

(* The bytes of a pool from a region's base offset on.                     *)
LEMMA LatestInPool ==
  ASSUME NEW r, version[r].length \in Nat, NEW b \in Seq(Cells), NEW o \in Nat, LatestAt(r, b, o)
  PROVE  Latest(r, SubSeq(b, o + 1, Len(b)))
<1>1. PICK k \in Nat, l \in Nat : k = version[r].length /\ l = Len(b) /\ DOMAIN b = 1..l
  OBVIOUS
<1>2. (k # 0 => o + k <= l) /\ \A i \in 1..k : b[o + i] = <<r, version[r].n>>
  BY <1>1 DEF LatestAt
<1>3. PICK rest : rest = SubSeq(b, o + 1, l)
  OBVIOUS
<1>4. CASE k = 0
  <2>1. rest \in Seq(Cells)
    BY <1>1, <1>3, SubSeqProperties
  <2>2. Len(rest) \in Nat
    BY <2>1
  <2> QED BY <1>1, <1>3, <1>4, <2>2 DEF Latest
<1>5. CASE k # 0
  <2>1. o + 1 \in 1..(l + 1) /\ l \in (o + 1 - 1)..l /\ o + k <= l
    BY <1>2, <1>5
  <2>2. Len(rest) = l - o /\ \A i \in 1..(l - o) : rest[i] = b[o + i]
    <3>1. l - (o + 1) + 1 = l - o
      OBVIOUS
    <3>2. Len(rest) = l - (o + 1) + 1 /\ \A i \in 1..(l - (o + 1) + 1) : rest[i] = b[(o + 1) + i - 1]
      BY <1>1, <1>3, <2>1, SubSeqProperties
    <3>3. \A i \in 1..(l - o) : (o + 1) + i - 1 = o + i
      OBVIOUS
    <3> QED BY <3>1, <3>2, <3>3
  <2>3. l - o >= k /\ \A i \in 1..k : i \in 1..(l - o)
    BY <2>1
  <2> QED BY <1>1, <1>2, <1>3, <2>2, <2>3 DEF Latest
<1> QED BY <1>4, <1>5

(* What was written last is where the next read looks for it.              *)
LEMMA LatestReadable ==
  ASSUME WebInv
  PROVE  WebBytesSurvive
<1> SUFFICES ASSUME NEW r \in DOMAIN slots \ failed
             PROVE  IF r \in Resident
                    THEN Latest(r, SubSeq(memory[slots[r].poolIndex], slots[r].baseOffset + 1,
                                          Len(memory[slots[r].poolIndex])))
                    ELSE /\ \A q \in Spilling(r) : Latest(r, q.bytes)
                         /\ Spilling(r) = {} => r \in DOMAIN files /\ Latest(r, files[r])
  BY DEF WebBytesSurvive
<1>1. version[r].length \in Nat
  BY VersionFacts
<1>2. CASE r \in Resident
  <2>1. PICK k \in Pools, o \in Nat : k = slots[r].poolIndex /\ o = slots[r].baseOffset
    BY EntryFacts DEF WebInv
  <2>2. PICK b \in Seq(Cells) : b = memory[k]
    BY DEF WebInv, BytesTyped
  <2>3. LatestAt(r, b, o)
    BY <1>2, <2>1, <2>2 DEF WebInv, BytesLatest
  <2>4. Latest(r, SubSeq(b, o + 1, Len(b)))
    BY <1>1, <2>3, LatestInPool
  <2> QED BY <1>2, <2>1, <2>2, <2>4
<1>3. CASE r \notin Resident
  <2>1. Spilling(r) = {q \in Queued : Spills(q, r)}
    BY DEF Spilling, Queued, Spills
  <2>2. ASSUME NEW q \in Spilling(r) PROVE Latest(r, q.bytes)
    <3>1. q \in Queued /\ q.op = "spill" /\ q.region = r
      BY <2>1, <2>2 DEF Spills
    <3>2. q.bytes \in Seq(Cells)
      BY <3>1, RequestFacts
    <3>3. LatestAt(r, q.bytes, 0)
      BY <3>1 DEF WebInv, BytesLatest
    <3> QED BY <1>1, <3>2, <3>3, LatestFromStart
  <2>3. ASSUME Spilling(r) = {} PROVE r \in DOMAIN files /\ Latest(r, files[r])
    <3>1. NoSpill(r)
      BY <2>1, <2>3 DEF NoSpill
    <3>2. r \in DOMAIN files /\ LatestAt(r, files[r], 0)
      BY <1>3, <3>1 DEF WebInv, BytesLatest
    <3>3. files[r] \in Seq(Cells)
      BY <3>2 DEF WebInv, BytesTyped
    <3> QED BY <1>1, <3>2, <3>3, LatestFromStart
  <2> QED BY <1>3, <2>2, <2>3
<1> QED BY <1>2, <1>3

-----------------------------------------------------------------------------
(* The theorems *)

(* The invariant holds always: spans, requests, calls and bytes stay       *)
(* matched however createRegion, evict, promote, budget evictions, failing *)
(* files and close overlap (tvm.ts, directory.ts, opfs-worker.ts).         *)
THEOREM WebInvariant == WebSpec => []WebInv
<1>1. WebInit => WebInv
  BY WebInvInit
<1>2. WebInv /\ [WebNext]_webVars => WebInv'
  BY WebInvNext
<1> QED BY <1>1, <1>2, PTL DEF WebSpec

(* The span allocator of directory.ts (allocateFromPool, freeSpan) shares  *)
(* each pool out exactly: no byte below the bump mark is lost or given     *)
(* twice, and free spans are merged, for any pools, regions and calls.     *)
THEOREM WebSpansAlwaysTile == WebSpec => []SpansTile
<1>1. WebInv => SpansTile
  BY TiledExactly DEF WebInv
<1> QED BY <1>1, WebInvariant, PTL

(* No write is lost while spills and loads of a region overlap with other  *)
(* calls (evict, promote, ensureBudgetFor in tvm.ts), unless a spill of it *)
(* failed: memory, the spill on its way or the file has the latest bytes.  *)
THEOREM WebWritesSurvive == WebSpec => []WebBytesSurvive
<1>1. WebInv => WebBytesSurvive
  BY LatestReadable
<1> QED BY <1>1, WebInvariant, PTL

=============================================================================
