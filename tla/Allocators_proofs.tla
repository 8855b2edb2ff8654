-------------------------- MODULE Allocators_proofs --------------------------
(***************************************************************************)
(* What the allocators' operators compute, for every capacity and every    *)
(* sequence of calls.                                                      *)
(***************************************************************************)
EXTENDS Allocators, TvmLemmas, FiniteSetTheorems

-----------------------------------------------------------------------------
(* Free lists *)

(* A block is an offset and a size.                                        *)
Blocks == Nat \X Nat
End(b) == b[1] + b[2]

(* The byte c lies in a free block, or in a live one.                      *)
InFree(free, c) == \E i \in DOMAIN free : free[i][1] <= c /\ c < End(free[i])
InLive(w, c) == \E o \in DOMAIN w : o <= c /\ c < o + w[o]

(* Blocks are sorted, and only the blocks i and i + 1 with i in P touch.   *)
Sorted(free, P) ==
  \A i, j \in DOMAIN free : i < j =>
    /\ End(free[i]) <= free[j][1]
    /\ End(free[i]) = free[j][1] => j = i + 1 /\ i \in P

(* A list of free blocks as the allocator keeps it, but for the positions  *)
(* in P.                                                                   *)
FreeList(free, P) ==
  /\ free \in Seq(Blocks)
  /\ Sorted(free, P)
  /\ \A k \in DOMAIN free : free[k][2] # 0

(* g has the free bytes of free, with or without the size bytes at o.      *)
SameBytes(g, free) == \A c \in Nat : InFree(g, c) <=> InFree(free, c)
Adds(g, free, o, size) ==
  \A c \in Nat : InFree(g, c) <=> (InFree(free, c) \/ (o <= c /\ c < o + size))
Takes(g, free, o, size) ==
  \A c \in Nat : InFree(g, c) <=> (InFree(free, c) /\ ~(o <= c /\ c < o + size))

(* MergeAt joins two blocks that touch: the same bytes are free, and the   *)
(* position i is no longer one where blocks touch.                         *)
LEMMA MergeAtSorted ==
  ASSUME NEW free, NEW i \in Nat, NEW P, P \subseteq {i - 1, i}, FreeList(free, P)
  PROVE  /\ FreeList(MergeAt(free, i), P \ {i})
         /\ SameBytes(MergeAt(free, i), free)
<1>0. free \in Seq(Blocks) /\ Sorted(free, P) /\ \A k \in DOMAIN free : free[k][2] # 0
  BY DEF FreeList
<1>1. Len(free) \in Nat /\ DOMAIN free = 1..Len(free)
  BY <1>0
<1>2. ASSUME NEW k \in DOMAIN free
      PROVE  free[k] = <<free[k][1], free[k][2]>> /\ free[k][1] \in Nat /\ free[k][2] \in Nat
  BY <1>0, <1>1, <1>2 DEF Blocks
<1>3. CASE ~(i > 0 /\ i < Len(free) /\ free[i][1] + free[i][2] = free[i + 1][1])
  <2>1. MergeAt(free, i) = free
    BY <1>3 DEF MergeAt
  <2>2. Sorted(free, P \ {i})
    <3> SUFFICES ASSUME NEW k \in DOMAIN free, NEW j \in DOMAIN free, k < j,
                        End(free[k]) = free[j][1]
                 PROVE  k # i
      BY <1>0 DEF Sorted
    <3>1. j = k + 1
      BY <1>0 DEF Sorted
    <3> QED BY <1>1, <1>3, <3>1 DEF End
  <2> QED BY <1>0, <2>1, <2>2 DEF FreeList, SameBytes
<1>4. CASE i > 0 /\ i < Len(free) /\ free[i][1] + free[i][2] = free[i + 1][1]
  <2>0. i \in DOMAIN free /\ i + 1 \in DOMAIN free /\ i - 1 \in Nat
    BY <1>1, <1>4
  <2>1. PICK b \in Blocks : b = <<free[i][1], free[i][2] + free[i + 1][2]>>
    <3>1. free[i][1] \in Nat /\ free[i][2] + free[i + 1][2] \in Nat
      BY <1>2, <2>0
    <3>2. <<free[i][1], free[i][2] + free[i + 1][2]>> \in Blocks
      BY <3>1 DEF Blocks
    <3> QED BY <3>2
  <2>2. PICK t \in Seq(Blocks) : t = <<b>> /\ Len(t) = 1 /\ t[1] = b
    <3>1. <<b>> \in Seq(Blocks)
      OBVIOUS
    <3>2. Len(<<b>>) = 1 /\ <<b>>[1] = b
      OBVIOUS
    <3> QED BY <3>1, <3>2, Zenon
  <2>3. i + 2 \in 1..(Len(free) + 1) /\ i - 1 \in 0..((i + 2) - 1)
    BY <1>1, <1>4
  <2>4. PICK n \in 1..(Len(free) + 1) : n = i + 2
    BY <2>3
  <2>m. PICK m \in 0..(n - 1) : m = i - 1
    BY <2>3, <2>4
  <2>5. PICK g : g = Splice(free, m, t, n)
    OBVIOUS
  <2>6. /\ g \in Seq(Blocks)
        /\ Len(g) = m + Len(t) + (Len(free) - n + 1)
        /\ \A k \in 1..m : g[k] = free[k]
        /\ \A k \in 1..Len(t) : g[m + k] = t[k]
        /\ \A k \in n..Len(free) : g[m + Len(t) + (k - n + 1)] = free[k]
    <3>1. Splice(free, m, t, n) \in Seq(Blocks)
      BY <1>0, SpliceElements
    <3>2. Len(Splice(free, m, t, n)) = m + Len(t) + (Len(free) - n + 1)
      BY <1>0, SpliceElements
    <3>3. \A k \in 1..m : Splice(free, m, t, n)[k] = free[k]
      BY <1>0, SpliceElements
    <3>4. \A k \in 1..Len(t) : Splice(free, m, t, n)[m + k] = t[k]
      BY <1>0, SpliceElements
    <3>5. \A k \in n..Len(free) : Splice(free, m, t, n)[m + Len(t) + (k - n + 1)] = free[k]
      BY <1>0, SpliceElements
    <3> QED BY <2>5, <3>1, <3>2, <3>3, <3>4, <3>5, Zenon
  <2>7. g = MergeAt(free, i)
    BY <1>4, <2>1, <2>2, <2>4, <2>m, <2>5 DEF MergeAt, Splice
  <2>8. /\ Len(g) = Len(free) - 1 /\ g[i] = b /\ DOMAIN g = 1..(Len(free) - 1)
        /\ \A k \in 1..(i - 1) : g[k] = free[k]
        /\ \A k \in (i + 1)..(Len(free) - 1) : g[k] = free[k + 1]
    <3>1. 1 \in 1..Len(t) /\ m + 1 = i
      BY <2>2, <2>m
    <3>2. g[i] = b
      BY <2>2, <2>6, <3>1
    <3>3. ASSUME NEW k \in (i + 1)..(Len(free) - 1) PROVE g[k] = free[k + 1]
      <4>1. k + 1 \in n..Len(free) /\ m + Len(t) + ((k + 1) - n + 1) = k
        BY <1>1, <2>2, <2>4, <2>m
      <4> QED BY <2>6, <4>1
    <3>4. Len(g) = Len(free) - 1
      BY <1>1, <2>2, <2>4, <2>m, <2>6
    <3>5. DOMAIN g = 1..(Len(free) - 1)
      BY <2>6, <3>4
    <3> QED BY <2>m, <2>6, <3>2, <3>3, <3>4, <3>5
  <2>9. /\ b[1] = free[i][1] /\ b[2] = free[i][2] + free[i + 1][2]
        /\ End(b) = End(free[i + 1]) /\ End(free[i]) = free[i + 1][1]
        /\ b[2] # 0 /\ free[i][1] <= free[i + 1][1] /\ End(free[i]) <= End(free[i + 1])
        /\ free[i + 1][1] \in Nat /\ free[i][1] \in Nat /\ End(free[i + 1]) \in Nat
    <3>1. b[1] = free[i][1] /\ b[2] = free[i][2] + free[i + 1][2]
      BY <2>1
    <3>2. PICK x, y, u, v \in Nat :
            /\ free[i][1] = x /\ free[i][2] = y /\ free[i + 1][1] = u /\ free[i + 1][2] = v
            /\ x + y = u /\ y # 0
      BY <1>0, <1>2, <1>4, <2>0
    <3>3. End(free[i]) = x + y /\ End(free[i + 1]) = u + v /\ End(b) = x + (y + v)
      BY <3>1, <3>2 DEF End
    <3> QED BY <3>1, <3>2, <3>3
  (* the block of free whose start, and the one whose end, block k of g has *)
  <2>10. ASSUME NEW k \in DOMAIN g
         PROVE  \E x, y \in DOMAIN free :
                  /\ x = (IF k <= i THEN k ELSE k + 1) /\ y = (IF k < i THEN k ELSE k + 1)
                  /\ g[k][1] = free[x][1] /\ End(g[k]) = End(free[y])
                  /\ g[k][2] # 0
    <3>1. CASE k < i
      BY <1>0, <1>1, <2>8, <3>1
    <3>2. CASE k = i
      <4>1. g[k][1] = free[i][1] /\ End(g[k]) = End(free[i + 1]) /\ g[k][2] # 0
        BY <2>8, <2>9, <3>2
      <4> QED BY <2>0, <3>2, <4>1
    <3>3. CASE k > i
      BY <1>0, <1>1, <2>8, <3>3
    <3> QED BY <1>1, <2>8, <3>1, <3>2, <3>3
  <2>11. Sorted(g, P \ {i})
    <3> SUFFICES ASSUME NEW k \in DOMAIN g, NEW j \in DOMAIN g, k < j
                 PROVE  /\ End(g[k]) <= g[j][1]
                        /\ End(g[k]) = g[j][1] => j = k + 1 /\ k \in P \ {i}
      BY DEF Sorted
    <3>1. PICK y \in DOMAIN free : y = (IF k < i THEN k ELSE k + 1) /\ End(g[k]) = End(free[y])
      BY <2>10
    <3>2. PICK x \in DOMAIN free : x = (IF j <= i THEN j ELSE j + 1) /\ g[j][1] = free[x][1]
      BY <2>10
    <3>3. y < x
      BY <1>1, <2>8, <3>1, <3>2
    <3>4. End(free[y]) <= free[x][1] /\ (End(free[y]) = free[x][1] => x = y + 1 /\ y \in P)
      BY <1>0, <3>3 DEF Sorted
    <3>5. k \in Int /\ j \in Int
      BY <1>1, <2>8
    <3> QED BY <3>1, <3>2, <3>4, <3>5
  <2>12. ASSUME NEW c \in Nat PROVE InFree(g, c) <=> InFree(free, c)
    <3>1. ASSUME NEW k \in DOMAIN g, g[k][1] <= c, c < End(g[k]) PROVE InFree(free, c)
      <4>1. CASE k < i
        BY <1>1, <2>8, <3>1, <4>1 DEF InFree
      <4>2. CASE k > i
        <5>1. k + 1 \in DOMAIN free /\ g[k] = free[k + 1]
          BY <1>1, <2>8, <4>2
        <5> QED BY <3>1, <5>1 DEF InFree
      <4>3. CASE k = i
        <5>1. free[i][1] <= c /\ c < End(free[i + 1])
          BY <2>8, <2>9, <3>1, <4>3
        <5>2. c < End(free[i]) \/ free[i + 1][1] <= c
          BY <1>2, <2>0, <2>9
        <5> QED BY <2>0, <5>1, <5>2 DEF InFree
      <4> QED BY <1>1, <2>8, <4>1, <4>2, <4>3
    <3>2. ASSUME NEW k \in DOMAIN free, free[k][1] <= c, c < End(free[k]) PROVE InFree(g, c)
      <4>1. CASE k < i
        <5>1. k \in DOMAIN g /\ g[k] = free[k]
          BY <1>1, <1>4, <2>8, <4>1
        <5> QED BY <3>2, <5>1 DEF InFree
      <4>2. CASE k > i + 1
        <5>1. k - 1 \in DOMAIN g /\ k - 1 \in (i + 1)..(Len(free) - 1) /\ (k - 1) + 1 = k
          BY <1>1, <2>8, <4>2
        <5>2. g[k - 1] = free[k]
          BY <2>8, <5>1
        <5> QED BY <3>2, <5>1, <5>2 DEF InFree
      <4>3. CASE k = i \/ k = i + 1
        <5>1. i \in DOMAIN g
          BY <1>1, <1>4, <2>0, <2>8
        <5>2. b[1] <= c /\ c < End(b)
          BY <2>9, <3>2, <4>3
        <5> QED BY <2>8, <5>1, <5>2 DEF InFree
      <4> QED BY <1>1, <4>1, <4>2, <4>3
    <3> QED BY <3>1, <3>2 DEF InFree
  <2>13. \A k \in DOMAIN g : g[k][2] # 0
    BY <2>10
  <2> QED BY <2>6, <2>7, <2>11, <2>12, <2>13 DEF FreeList, SameBytes
<1> QED BY <1>3, <1>4

(* partition_point: the blocks before offset o are those before the        *)
(* position it returns.                                                    *)
PartitionPoint(free, o) ==
  LET behind == SelectInSeq(free, LAMBDA b : ~(b[1] < o))
  IN IF behind = 0 THEN Len(free) + 1 ELSE behind

(* Of a sorted list.                                                       *)
LEMMA PartitionPointSplits ==
  ASSUME NEW free \in Seq(Blocks), NEW o \in Nat, Sorted(free, {})
  PROVE  /\ PartitionPoint(free, o) \in 1..(Len(free) + 1)
         /\ \A k \in DOMAIN free : k < PartitionPoint(free, o) => free[k][1] < o
         /\ \A k \in DOMAIN free : k >= PartitionPoint(free, o) => free[k][1] >= o
<1> DEFINE I == {k \in 1..Len(free) : ~(free[k][1] < o)}
<1>1. PartitionPoint(free, o) = IF (IF I # {} THEN Min(I) ELSE 0) = 0 THEN Len(free) + 1
                                ELSE (IF I # {} THEN Min(I) ELSE 0)
  BY DEF PartitionPoint, SelectInSeq
<1>2. Len(free) \in Nat /\ DOMAIN free = 1..Len(free) /\ I \subseteq 1..Len(free)
  OBVIOUS
<1>3. \A k \in DOMAIN free : free[k][1] \in Nat /\ free[k][2] \in Nat
  BY <1>2 DEF Blocks
<1>4. CASE I = {}
  BY <1>1, <1>2, <1>3, <1>4
<1>5. CASE I # {}
  <2>1. PICK p \in I : p = Min(I) /\ \A y \in I : p <= y
    <3>1. I \in SUBSET Nat
      BY <1>2
    <3> HIDE DEF I
    <3> QED BY <1>5, <3>1, MinProperties
  <2>2. p \in DOMAIN free /\ free[p][1] >= o /\ p \in Nat \ {0}
    BY <1>2, <1>3, <2>1
  <2>3. PartitionPoint(free, o) = p
    <3> HIDE DEF I
    <3> QED BY <1>1, <1>5, <2>1, <2>2
  <2>4. \A k \in DOMAIN free : k < p => free[k][1] < o
    BY <1>2, <2>1, <2>2
  <2>5. ASSUME NEW k \in DOMAIN free, k >= p PROVE free[k][1] >= o
    <3>1. CASE k = p
      BY <2>2, <3>1
    <3>2. CASE k # p
      <4>1. End(free[p]) <= free[k][1]
        BY <1>2, <2>2, <2>5, <3>2 DEF Sorted
      <4> QED BY <1>3, <2>2, <4>1 DEF End
    <3> QED BY <3>1, <3>2
  <2> QED BY <1>2, <2>2, <2>3, <2>4, <2>5
<1> QED BY <1>4, <1>5

(* A freed block is put where it belongs; it may touch its neighbours.     *)
LEMMA InsertSorted ==
  ASSUME NEW free, FreeList(free, {}), NEW o \in Nat, NEW z \in Nat \ {0},
         \A c \in Nat : o <= c /\ c < o + z => ~InFree(free, c)
  PROVE  /\ PartitionPoint(free, o) \in Nat \ {0}
         /\ FreeList(InsertAt(free, PartitionPoint(free, o), <<o, z>>),
                     {PartitionPoint(free, o) - 1, PartitionPoint(free, o)})
         /\ Adds(InsertAt(free, PartitionPoint(free, o), <<o, z>>), free, o, z)
<1>0. free \in Seq(Blocks) /\ Sorted(free, {}) /\ \A k \in DOMAIN free : free[k][2] # 0
  BY DEF FreeList
<1>1. Len(free) \in Nat /\ DOMAIN free = 1..Len(free)
  BY <1>0
<1>2. PICK p \in 1..(Len(free) + 1) :
        /\ p = PartitionPoint(free, o)
        /\ \A k \in DOMAIN free : k < p => free[k][1] < o
        /\ \A k \in DOMAIN free : k >= p => free[k][1] >= o
  BY <1>0, PartitionPointSplits
<1>3. \A k \in DOMAIN free : free[k][1] \in Nat /\ free[k][2] \in Nat /\ End(free[k]) \in Nat
                             /\ free[k][1] < End(free[k])
  BY <1>0, <1>1 DEF Blocks, End
<1>4. PICK b \in Blocks : b = <<o, z>> /\ b[1] = o /\ b[2] = z /\ End(b) = o + z
  <2>1. <<o, z>> \in Blocks
    BY DEF Blocks
  <2> QED BY <2>1 DEF End
<1>5. PICK t \in Seq(Blocks) : t = <<b>> /\ Len(t) = 1 /\ t[1] = b
  <2>1. <<b>> \in Seq(Blocks)
    OBVIOUS
  <2>2. Len(<<b>>) = 1 /\ <<b>>[1] = b
    OBVIOUS
  <2> QED BY <2>1, <2>2, Zenon
<1>6. PICK m \in 0..(p - 1) : m = p - 1
  BY <1>1
<1>7. PICK h : h = Splice(free, m, t, p)
  OBVIOUS
<1>8. h = InsertAt(free, p, <<o, z>>)
  BY <1>4, <1>5, <1>6, <1>7 DEF InsertAt, Splice
<1>9. /\ h \in Seq(Blocks) /\ DOMAIN h = 1..(Len(free) + 1)
      /\ \A k \in 1..(p - 1) : h[k] = free[k]
      /\ h[p] = b
      /\ \A k \in p..Len(free) : h[k + 1] = free[k]
  <2>1. Splice(free, m, t, p) \in Seq(Blocks)
    BY <1>0, SpliceElements
  <2>2. Len(Splice(free, m, t, p)) = m + Len(t) + (Len(free) - p + 1)
    BY <1>0, SpliceElements
  <2>3. \A k \in 1..m : Splice(free, m, t, p)[k] = free[k]
    BY <1>0, SpliceElements
  <2>4. \A k \in 1..Len(t) : Splice(free, m, t, p)[m + k] = t[k]
    BY <1>0, SpliceElements
  <2>5. \A k \in p..Len(free) : Splice(free, m, t, p)[m + Len(t) + (k - p + 1)] = free[k]
    BY <1>0, SpliceElements
  <2>6. Len(h) = Len(free) + 1 /\ h \in Seq(Blocks)
    BY <1>1, <1>5, <1>6, <1>7, <2>1, <2>2
  <2>7. h[p] = b
    <3>1. 1 \in 1..Len(t) /\ m + 1 = p
      BY <1>1, <1>5, <1>6
    <3> QED BY <1>5, <1>7, <2>4, <3>1
  <2>8. ASSUME NEW k \in p..Len(free) PROVE h[k + 1] = free[k]
    <3>1. m + Len(t) + (k - p + 1) = k + 1
      BY <1>1, <1>5, <1>6
    <3> QED BY <1>7, <2>5, <3>1
  <2> QED BY <1>6, <1>7, <2>3, <2>6, <2>7, <2>8
<1>10. ASSUME NEW k \in DOMAIN free, k < p PROVE End(free[k]) <= o
  <2>1. ~InFree(free, o)
    OBVIOUS
  <2> QED BY <1>2, <1>3, <1>10, <2>1 DEF InFree
<1>11. ASSUME NEW k \in DOMAIN free, k >= p PROVE o + z <= free[k][1]
  <2>1. InFree(free, free[k][1])
    BY <1>3 DEF InFree
  <2> QED BY <1>2, <1>3, <1>11, <2>1
(* where block k of h comes from *)
<1>12. ASSUME NEW k \in DOMAIN h
       PROVE  \/ k < p /\ k \in DOMAIN free /\ h[k] = free[k]
              \/ k = p /\ h[k] = b
              \/ k > p /\ k - 1 \in DOMAIN free /\ h[k] = free[k - 1]
  <2>1. CASE k > p
    <3>1. k - 1 \in p..Len(free) /\ (k - 1) + 1 = k /\ k - 1 \in DOMAIN free
      BY <1>1, <1>9, <2>1
    <3> QED BY <1>9, <2>1, <3>1
  <2>2. CASE k < p
    BY <1>1, <1>9, <2>2
  <2> QED BY <1>1, <1>9, <2>1, <2>2
<1>13. Sorted(h, {p - 1, p})
  <2> SUFFICES ASSUME NEW k \in DOMAIN h, NEW j \in DOMAIN h, k < j
               PROVE  /\ End(h[k]) <= h[j][1]
                      /\ End(h[k]) = h[j][1] => j = k + 1 /\ k \in {p - 1, p}
    BY DEF Sorted
  <2>0. k \in Int /\ j \in Int /\ p \in Int
    BY <1>1, <1>9
  <2>1. \A x, y \in DOMAIN free : x < y => End(free[x]) <= free[y][1] /\ End(free[x]) # free[y][1]
    BY <1>0 DEF Sorted
  <2>2. CASE k # p /\ j # p
    <3>1. PICK x, y \in DOMAIN free : x < y /\ h[k] = free[x] /\ h[j] = free[y]
      <4>1. PICK x \in DOMAIN free : h[k] = free[x] /\ x = IF k < p THEN k ELSE k - 1
        BY <1>12, <2>0, <2>2
      <4>2. PICK y \in DOMAIN free : h[j] = free[y] /\ y = IF j < p THEN j ELSE j - 1
        BY <1>12, <2>0, <2>2
      <4> QED BY <2>0, <2>2, <4>1, <4>2
    <3> QED BY <2>1, <3>1
  <2>3. CASE j = p
    <3>1. k \in DOMAIN free /\ h[k] = free[k] /\ h[j][1] = o
      BY <1>4, <1>9, <1>12, <2>0, <2>3
    <3>2. End(free[k]) <= o
      BY <1>10, <2>3, <3>1
    <3>3. ASSUME k # p - 1 PROVE End(free[k]) # o
      <4>1. k + 1 \in DOMAIN free /\ k + 1 < p
        BY <1>1, <2>0, <2>3, <3>1, <3>3
      <4>2. End(free[k]) <= free[k + 1][1] /\ free[k + 1][1] < o
        BY <1>2, <2>0, <2>1, <3>1, <4>1
      <4> QED BY <1>3, <3>1, <4>1, <4>2
    <3> QED BY <2>0, <2>3, <3>1, <3>2, <3>3
  <2>4. CASE k = p
    <3>0. j - 1 \in DOMAIN free /\ h[j] = free[j - 1]
      BY <1>12, <2>0, <2>4
    <3>a. h[k] = b
      BY <1>9, <2>4
    <3>b. End(h[k]) = o + z
      BY <1>4, <3>a
    <3>c. j - 1 >= p
      BY <2>0, <2>4
    <3>1. j - 1 \in DOMAIN free /\ h[j] = free[j - 1] /\ End(h[k]) = o + z /\ j - 1 >= p
      BY <3>0, <3>b, <3>c
    <3>2. o + z <= free[j - 1][1]
      BY <1>11, <3>1
    <3>3. ASSUME j # p + 1 PROVE o + z # free[j - 1][1]
      <4>1. p \in DOMAIN free /\ p < j - 1
        BY <1>1, <2>0, <2>4, <3>1, <3>3
      <4>2. End(free[p]) <= free[j - 1][1] /\ o + z <= free[p][1]
        BY <1>11, <2>0, <2>1, <3>1, <4>1
      <4> QED BY <1>3, <3>1, <4>1, <4>2
    <3> QED BY <2>0, <2>4, <3>1, <3>2, <3>3
  <2> QED BY <2>2, <2>3, <2>4
<1>14. \A k \in DOMAIN h : h[k][2] # 0
  BY <1>0, <1>4, <1>12
<1>15. ASSUME NEW c \in Nat PROVE InFree(h, c) <=> InFree(free, c) \/ (o <= c /\ c < o + z)
  <2>1. ASSUME InFree(h, c) PROVE InFree(free, c) \/ (o <= c /\ c < o + z)
    BY <1>4, <1>12, <2>1 DEF InFree
  <2>2. ASSUME NEW k \in DOMAIN free, free[k][1] <= c, c < End(free[k]) PROVE InFree(h, c)
    <3>1. CASE k < p
      <4>1. k \in DOMAIN h /\ h[k] = free[k]
        BY <1>1, <1>9, <3>1
      <4> QED BY <2>2, <4>1 DEF InFree
    <3>2. CASE ~(k < p)
      <4>1. k + 1 \in DOMAIN h /\ h[k + 1] = free[k]
        BY <1>1, <1>9, <3>2
      <4> QED BY <2>2, <4>1 DEF InFree
    <3> QED BY <3>1, <3>2
  <2>3. ASSUME o <= c, c < o + z PROVE InFree(h, c)
    <3>1. p \in DOMAIN h
      BY <1>1, <1>9
    <3> QED BY <1>4, <1>9, <2>3, <3>1 DEF InFree
  <2> QED BY <2>1, <2>2, <2>3 DEF InFree
<1>16. FreeList(h, {p - 1, p}) /\ Adds(h, free, o, z)
  BY <1>9, <1>13, <1>14, <1>15 DEF FreeList, Adds
<1>17. p \in Nat \ {0}
  BY <1>1
<1> QED BY <1>2, <1>8, <1>16, <1>17

(* Freeing a block adds its bytes to the free ones and leaves no two free  *)
(* blocks touching.                                                        *)
LEMMA CoalesceSorted ==
  ASSUME NEW free, FreeList(free, {}), NEW o \in Nat, NEW z \in Nat \ {0},
         \A c \in Nat : o <= c /\ c < o + z => ~InFree(free, c),
         NEW p, p = PartitionPoint(free, o)
  PROVE  /\ FreeList(coalesce(InsertAt(free, p, <<o, z>>), p), {})
         /\ Adds(coalesce(InsertAt(free, p, <<o, z>>), p), free, o, z)
<1>1. PICK h : h = InsertAt(free, p, <<o, z>>)
  OBVIOUS
<1>2. p \in Nat \ {0} /\ FreeList(h, {p - 1, p}) /\ Adds(h, free, o, z)
  BY <1>1, InsertSorted
<1>3. PICK f : f = MergeAt(h, p)
  OBVIOUS
<1>4. FreeList(f, {p - 1, p} \ {p}) /\ SameBytes(f, h)
  BY <1>2, <1>3, MergeAtSorted
<1>5. PICK q \in Nat : q = p - 1 /\ {p - 1, p} \ {p} = {q}
  BY <1>2
<1>6. FreeList(f, {q})
  BY <1>4, <1>5
<1>7. FreeList(MergeAt(f, q), {q} \ {q}) /\ SameBytes(MergeAt(f, q), f)
  BY <1>6, MergeAtSorted
<1>8. {q} \ {q} = {} /\ MergeAt(f, q) = coalesce(h, p)
  BY <1>3, <1>5 DEF coalesce
<1>9. FreeList(coalesce(h, p), {}) /\ SameBytes(coalesce(h, p), f)
  BY <1>7, <1>8
<1>10. Adds(coalesce(h, p), free, o, z)
  BY <1>2, <1>4, <1>9 DEF Adds, SameBytes
<1> QED BY <1>1, <1>9, <1>10

(* Block i of a free list gives way to a list of blocks inside it.         *)
LEMMA ReplaceSorted ==
  ASSUME NEW free, FreeList(free, {}), NEW i \in DOMAIN free, NEW t, FreeList(t, {}),
         \A k \in DOMAIN t : free[i][1] <= t[k][1] /\ End(t[k]) <= End(free[i])
  PROVE  /\ FreeList(Splice(free, i - 1, t, i + 1), {})
         /\ \A c \in Nat : InFree(Splice(free, i - 1, t, i + 1), c)
              <=> (InFree(t, c) \/ (InFree(free, c) /\ ~(free[i][1] <= c /\ c < End(free[i]))))
<1>0. free \in Seq(Blocks) /\ Sorted(free, {}) /\ \A k \in DOMAIN free : free[k][2] # 0
  BY DEF FreeList
<1>1. t \in Seq(Blocks) /\ Sorted(t, {}) /\ \A k \in DOMAIN t : t[k][2] # 0
  BY DEF FreeList
<1>2. /\ Len(free) \in Nat /\ DOMAIN free = 1..Len(free) /\ i \in Nat \ {0}
      /\ Len(t) \in Nat /\ DOMAIN t = 1..Len(t)
  BY <1>0, <1>1
<1>3. /\ \A k \in DOMAIN free : free[k][1] \in Nat /\ End(free[k]) \in Nat /\ free[k][1] < End(free[k])
      /\ \A k \in DOMAIN t : t[k][1] \in Nat /\ End(t[k]) \in Nat /\ t[k][1] < End(t[k])
  <2>1. ASSUME NEW s \in Seq(Blocks), NEW k \in DOMAIN s, s[k][2] # 0
        PROVE  s[k][1] \in Nat /\ End(s[k]) \in Nat /\ s[k][1] < End(s[k])
    <3>1. s[k] \in Blocks
      OBVIOUS
    <3> QED BY <2>1, <3>1 DEF Blocks, End
  <2>2. \A k \in DOMAIN free : free[k][1] \in Nat /\ End(free[k]) \in Nat /\ free[k][1] < End(free[k])
    BY <1>0, <2>1
  <2>3. \A k \in DOMAIN t : t[k][1] \in Nat /\ End(t[k]) \in Nat /\ t[k][1] < End(t[k])
    BY <1>1, <2>1
  <2> QED BY <2>2, <2>3
<1>4. /\ \A x, y \in DOMAIN free : x < y => End(free[x]) < free[y][1]
      /\ \A x, y \in DOMAIN t : x < y => End(t[x]) < t[y][1]
  <2>1. \A x, y \in DOMAIN free : x < y => End(free[x]) <= free[y][1] /\ End(free[x]) # free[y][1]
    BY <1>0 DEF Sorted
  <2>2. \A x, y \in DOMAIN t : x < y => End(t[x]) <= t[y][1] /\ End(t[x]) # t[y][1]
    BY <1>1 DEF Sorted
  <2> QED BY <1>3, <2>1, <2>2
<1>5. PICK n \in 1..(Len(free) + 1) : n = i + 1
  <2>1. i + 1 \in 1..(Len(free) + 1)
    BY <1>2
  <2> QED BY <2>1
<1>6. PICK m \in 0..(n - 1) : m = i - 1
  <2>1. i - 1 \in 0..(n - 1)
    BY <1>2, <1>5
  <2> QED BY <2>1
<1>7. PICK g : g = Splice(free, m, t, n)
  OBVIOUS
<1>8. /\ g \in Seq(Blocks)
      /\ Len(g) = m + Len(t) + (Len(free) - n + 1)
      /\ \A k \in 1..m : g[k] = free[k]
      /\ \A k \in 1..Len(t) : g[m + k] = t[k]
      /\ \A k \in n..Len(free) : g[m + Len(t) + (k - n + 1)] = free[k]
  <2>1. Splice(free, m, t, n) \in Seq(Blocks)
    BY <1>0, <1>1, SpliceElements
  <2>2. Len(Splice(free, m, t, n)) = m + Len(t) + (Len(free) - n + 1)
    BY <1>0, <1>1, SpliceElements
  <2>3. \A k \in 1..m : Splice(free, m, t, n)[k] = free[k]
    BY <1>0, <1>1, SpliceElements
  <2>4. \A k \in 1..Len(t) : Splice(free, m, t, n)[m + k] = t[k]
    BY <1>0, <1>1, SpliceElements
  <2>5. \A k \in n..Len(free) : Splice(free, m, t, n)[m + Len(t) + (k - n + 1)] = free[k]
    BY <1>0, <1>1, SpliceElements
  <2> QED BY <1>7, <2>1, <2>2, <2>3, <2>4, <2>5, Zenon
<1>9. PICK l \in Nat : l = Len(t)
  BY <1>2
<1>10. DOMAIN g = 1..(Len(free) + l - 1)
  <2>1. PICK u \in Nat : u = Len(free)
    BY <1>2
  <2>2. Len(g) = (i - 1) + l + (u - (i + 1) + 1)
    BY <1>5, <1>6, <1>8, <1>9, <2>1
  <2>3. (i - 1) + l + (u - (i + 1) + 1) = u + l - 1
    BY <1>2, <1>9, <2>1
  <2>4. Len(g) = Len(free) + l - 1
    BY <2>1, <2>2, <2>3
  <2> QED BY <1>8, <2>4
(* where block k of g comes from *)
<1>11. ASSUME NEW k \in DOMAIN g, k < i PROVE k \in DOMAIN free /\ g[k] = free[k]
  <2>1. k \in 1..m /\ k \in DOMAIN free
    BY <1>2, <1>6, <1>10, <1>11
  <2> QED BY <1>8, <2>1
<1>12. ASSUME NEW k \in DOMAIN g, i <= k, k < i + l PROVE (k - i) + 1 \in DOMAIN t /\ g[k] = t[(k - i) + 1]
  <2>1. (k - i) + 1 \in 1..Len(t) /\ m + ((k - i) + 1) = k
    <3>1. k \in Nat
      BY <1>10
    <3> QED BY <1>2, <1>6, <1>9, <1>12, <3>1
  <2> QED BY <1>2, <1>8, <2>1
<1>13. ASSUME NEW k \in DOMAIN g, i + l <= k
       PROVE (k - l) + 1 \in DOMAIN free /\ (k - l) + 1 > i /\ g[k] = free[(k - l) + 1]
  <2>0. PICK u \in Nat : u = Len(free)
    BY <1>2
  <2>a. k \in Nat /\ k <= u + l - 1 /\ i \in Nat \ {0} /\ l \in Nat
    BY <1>2, <1>9, <1>10, <2>0
  <2>b. (k - l) + 1 \in (i + 1)..u /\ (i - 1) + l + (((k - l) + 1) - (i + 1) + 1) = k
    <3>1. (k - l) + 1 \in (i + 1)..u
      BY <1>13, <2>a, <2>0
    <3>2. (i - 1) + l + (((k - l) + 1) - (i + 1) + 1) = k
      BY <2>a
    <3> QED BY <3>1, <3>2
  <2>1. (k - l) + 1 \in n..Len(free) /\ m + Len(t) + (((k - l) + 1) - n + 1) = k
    BY <1>5, <1>6, <1>9, <2>0, <2>b
  <2>2. (k - l) + 1 \in DOMAIN free /\ (k - l) + 1 > i
    <3>1. PICK y \in (i + 1)..u : y = (k - l) + 1
      BY <2>b
    <3>2. y \in 1..u /\ y > i
      BY <2>a
    <3> QED BY <1>2, <2>0, <3>1, <3>2
  <2> QED BY <1>8, <2>1, <2>2
<1>14. ASSUME NEW k \in DOMAIN g, NEW j \in DOMAIN g, k < j PROVE End(g[k]) < g[j][1]
  <2>0. k \in Int /\ j \in Int /\ i \in Int
    BY <1>2, <1>10
  <2>1. CASE j < i
    <3>1. k < i
      BY <1>14, <2>0, <2>1
    <3> QED BY <1>4, <1>11, <1>14, <2>1, <3>1
  <2>2. CASE i <= j /\ j < i + l
    <3>1. PICK y \in DOMAIN t : y = (j - i) + 1 /\ g[j] = t[y]
      BY <1>12, <2>2
    <3>2. CASE k < i
      <4>1. k \in DOMAIN free /\ g[k] = free[k]
        BY <1>11, <3>2
      <4>2. End(free[k]) < free[i][1]
        BY <1>4, <3>2, <4>1
      <4> QED BY <1>3, <3>1, <4>1, <4>2
    <3>3. CASE i <= k
      <4>1. k < i + l
        BY <1>14, <2>0, <2>2, <1>9
      <4>2. PICK x \in DOMAIN t : x = (k - i) + 1 /\ g[k] = t[x]
        BY <1>12, <3>3, <4>1
      <4>3. x < y
        BY <1>14, <2>0, <3>1, <4>2
      <4> QED BY <1>4, <3>1, <4>2, <4>3
    <3> QED BY <2>0, <3>2, <3>3
  <2>3. CASE i + l <= j
    <3>1. PICK y \in DOMAIN free : y = (j - l) + 1 /\ y > i /\ g[j] = free[y]
      BY <1>13, <2>3
    <3>2. CASE k < i
      <4>1. k \in DOMAIN free /\ g[k] = free[k] /\ k < y
        BY <1>2, <1>11, <2>0, <3>1, <3>2
      <4> QED BY <1>4, <3>1, <4>1
    <3>3. CASE i <= k /\ k < i + l
      <4>1. PICK x \in DOMAIN t : g[k] = t[x]
        BY <1>12, <3>3
      <4>2. End(free[i]) < free[y][1]
        BY <1>4, <3>1
      <4> QED BY <1>3, <3>1, <4>1, <4>2
    <3>4. CASE i + l <= k
      <4>1. PICK x \in DOMAIN free : x = (k - l) + 1 /\ g[k] = free[x]
        BY <1>13, <3>4
      <4>2. x < y
        BY <1>9, <1>14, <2>0, <3>1, <4>1
      <4> QED BY <1>4, <3>1, <4>1, <4>2
    <3> QED BY <1>9, <2>0, <3>2, <3>3, <3>4
  <2> QED BY <1>9, <2>0, <2>1, <2>2, <2>3
<1>15. \A k \in DOMAIN g : (g[k][2] # 0 /\ g[k][1] \in Nat /\ End(g[k]) \in Nat)
  <2> SUFFICES ASSUME NEW k \in DOMAIN g PROVE g[k][2] # 0 /\ g[k][1] \in Nat /\ End(g[k]) \in Nat
    OBVIOUS
  <2>1. k \in Int
    BY <1>10
  <2>2. CASE k < i
    BY <1>0, <1>3, <1>11, <2>2
  <2>3. CASE i <= k /\ k < i + l
    BY <1>1, <1>3, <1>12, <2>3
  <2>4. CASE i + l <= k
    BY <1>0, <1>3, <1>13, <2>4
  <2> QED BY <1>2, <1>9, <2>1, <2>2, <2>3, <2>4
<1>16. FreeList(g, {})
  <2>1. Sorted(g, {})
    <3> SUFFICES ASSUME NEW k \in DOMAIN g, NEW j \in DOMAIN g, k < j
                 PROVE  End(g[k]) <= g[j][1] /\ End(g[k]) # g[j][1]
      BY DEF Sorted
    <3> QED BY <1>14, <1>15
  <2> QED BY <1>8, <1>15, <2>1 DEF FreeList
<1>17. ASSUME NEW c \in Nat
       PROVE InFree(g, c) <=> (InFree(t, c) \/ (InFree(free, c) /\ ~(free[i][1] <= c /\ c < End(free[i]))))
  <2>1. ASSUME NEW k \in DOMAIN g, g[k][1] <= c, c < End(g[k])
        PROVE  InFree(t, c) \/ (InFree(free, c) /\ ~(free[i][1] <= c /\ c < End(free[i])))
    <3>0. k \in Int
      BY <1>10
    <3>1. CASE k < i
      <4>1. k \in DOMAIN free /\ g[k] = free[k]
        BY <1>11, <3>1
      <4>2. End(free[k]) < free[i][1]
        BY <1>4, <3>1, <4>1
      <4>3. c < free[i][1]
        BY <1>3, <2>1, <4>1, <4>2
      <4>4. InFree(free, c)
        BY <2>1, <4>1 DEF InFree
      <4> QED BY <1>3, <4>3, <4>4
    <3>2. CASE i <= k /\ k < i + l
      <4>1. PICK x \in DOMAIN t : g[k] = t[x]
        BY <1>12, <3>2
      <4> QED BY <2>1, <4>1 DEF InFree
    <3>3. CASE i + l <= k
      <4>1. PICK x \in DOMAIN free : x > i /\ g[k] = free[x]
        BY <1>13, <3>3
      <4>2. End(free[i]) < free[x][1]
        BY <1>4, <4>1
      <4>3. End(free[i]) <= c
        BY <1>3, <2>1, <4>1, <4>2
      <4>4. InFree(free, c)
        BY <2>1, <4>1 DEF InFree
      <4> QED BY <1>3, <4>3, <4>4
    <3> QED BY <1>2, <1>9, <3>0, <3>1, <3>2, <3>3
  <2>2. ASSUME NEW x \in DOMAIN t, t[x][1] <= c, c < End(t[x]) PROVE InFree(g, c)
    <3>1. x \in 1..Len(t) /\ m + x \in DOMAIN g
      BY <1>2, <1>6, <1>9, <1>10
    <3>2. g[m + x] = t[x]
      BY <1>8, <3>1
    <3> QED BY <2>2, <3>1, <3>2 DEF InFree
  <2>3. ASSUME NEW x \in DOMAIN free, free[x][1] <= c, c < End(free[x]), x # i PROVE InFree(g, c)
    <3>1. CASE x < i
      <4>1. x \in DOMAIN g /\ x \in 1..m
        BY <1>2, <1>6, <1>9, <1>10, <3>1
      <4> QED BY <1>8, <2>3, <4>1 DEF InFree
    <3>2. CASE x > i
      <4>1. m + Len(t) + (x - n + 1) \in DOMAIN g /\ x \in n..Len(free)
        <5>1. PICK u \in Nat : u = Len(free) /\ x \in 1..u
          BY <1>2
        <5>2. x \in (i + 1)..u /\ (i - 1) + l + (x - (i + 1) + 1) = x + l - 1
          <6>1. x \in Int /\ i \in Int /\ l \in Int
            BY <1>2, <5>1
          <6>2. (i - 1) + l + (x - (i + 1) + 1) = x + l - 1
            BY <6>1
          <6> QED BY <3>2, <5>1, <6>1, <6>2
        <5>3. x + l - 1 \in 1..(u + l - 1)
          BY <1>2, <1>9, <5>1, <5>2
        <5> QED BY <1>5, <1>6, <1>9, <1>10, <5>1, <5>2, <5>3
      <4>2. g[m + Len(t) + (x - n + 1)] = free[x]
        BY <1>8, <4>1
      <4> QED BY <2>3, <4>1, <4>2 DEF InFree
    <3> QED BY <1>2, <2>3, <3>1, <3>2
  <2> QED BY <2>1, <2>2, <2>3 DEF InFree
<1> QED BY <1>5, <1>6, <1>7, <1>16, <1>17

(* The list without blocks.                                                *)
LEMMA NoBlock ==
  /\ FreeList(<< >>, {}) /\ DOMAIN << >> = {}
  /\ \A c : ~InFree(<< >>, c)
<1>1. << >> \in Seq(Blocks) /\ DOMAIN << >> = {}
  OBVIOUS
<1> QED BY <1>1 DEF FreeList, Sorted, InFree

(* A list of one block.                                                    *)
LEMMA OneBlock ==
  ASSUME NEW a \in Blocks, a[2] # 0
  PROVE  /\ FreeList(<<a>>, {})
         /\ \A k \in DOMAIN <<a>> : <<a>>[k] = a
         /\ \A c : InFree(<<a>>, c) <=> (a[1] <= c /\ c < End(a))
<1>1. PICK t \in Seq(Blocks) : t = <<a>> /\ DOMAIN t = {1} /\ t[1] = a
  <2>1. <<a>> \in Seq(Blocks)
    OBVIOUS
  <2>2. DOMAIN <<a>> = {1} /\ <<a>>[1] = a
    OBVIOUS
  <2> QED BY <2>1, <2>2, Zenon
<1>2. Sorted(t, {})
  BY <1>1 DEF Sorted
<1>3. FreeList(t, {})
  BY <1>1, <1>2 DEF FreeList
<1>4. \A c : InFree(t, c) <=> (a[1] <= c /\ c < End(a))
  BY <1>1 DEF InFree
<1> QED BY <1>1, <1>3, <1>4

(* A list of two blocks that do not touch.                                 *)
LEMMA TwoBlocks ==
  ASSUME NEW a \in Blocks, NEW b \in Blocks, a[2] # 0, b[2] # 0, End(a) < b[1]
  PROVE  /\ FreeList(<<a>> \o <<b>>, {})
         /\ \A k \in DOMAIN (<<a>> \o <<b>>) : (<<a>> \o <<b>>)[k] \in {a, b}
         /\ \A c : InFree(<<a>> \o <<b>>, c)
                     <=> ((a[1] <= c /\ c < End(a)) \/ (b[1] <= c /\ c < End(b)))
<1>1. PICK t \in Seq(Blocks) : t = <<a>> \o <<b>> /\ DOMAIN t = {1, 2} /\ t[1] = a /\ t[2] = b
  <2>1. <<a>> \o <<b>> \in Seq(Blocks)
    OBVIOUS
  <2>2. DOMAIN (<<a>> \o <<b>>) = {1, 2} /\ (<<a>> \o <<b>>)[1] = a /\ (<<a>> \o <<b>>)[2] = b
    <3>1. PICK u, v \in Seq(Blocks) : u = <<a>> /\ v = <<b>> /\ Len(u) = 1 /\ Len(v) = 1
                                     /\ u[1] = a /\ v[1] = b
      <4>1. <<a>> \in Seq(Blocks) /\ <<b>> \in Seq(Blocks)
        OBVIOUS
      <4>2. Len(<<a>>) = 1 /\ Len(<<b>>) = 1 /\ <<a>>[1] = a /\ <<b>>[1] = b
        OBVIOUS
      <4> QED BY <4>1, <4>2, Zenon
    <3>2. DOMAIN (u \o v) = {1, 2} /\ (u \o v)[1] = a /\ (u \o v)[2] = b
      BY <3>1
    <3> QED BY <3>1, <3>2
  <2> QED BY <2>1, <2>2, Zenon
<1>2. End(a) \in Nat /\ b[1] \in Nat
  BY DEF Blocks, End
<1>3. Sorted(t, {})
  <2> SUFFICES ASSUME NEW k \in DOMAIN t, NEW j \in DOMAIN t, k < j
               PROVE  End(t[k]) <= t[j][1] /\ End(t[k]) # t[j][1]
    BY DEF Sorted
  <2>1. k = 1 /\ j = 2
    BY <1>1
  <2> QED BY <1>1, <1>2, <2>1
<1>4. FreeList(t, {})
  BY <1>1, <1>3 DEF FreeList
<1>5. \A c : InFree(t, c) <=> ((a[1] <= c /\ c < End(a)) \/ (b[1] <= c /\ c < End(b)))
  BY <1>1 DEF InFree
<1> QED BY <1>1, <1>4, <1>5

(* The list t holds what is left of the bytes x to y + r: the p at x and   *)
(* the r at y.                                                             *)
Leftover(t, x, p, y, r) ==
  /\ FreeList(t, {})
  /\ \A k \in DOMAIN t : x <= t[k][1] /\ End(t[k]) <= y + r
  /\ \A c \in Nat : InFree(t, c) <=> ((x <= c /\ c < x + p) \/ (y <= c /\ c < y + r))

(* An empty leftover is left out of the list.                              *)
LEMMA LeftoversSorted ==
  ASSUME NEW x \in Nat, NEW p \in Nat, NEW y \in Nat, NEW r \in Nat, x + p < y
  PROVE  Leftover(NonEmpty(<<x, p>>) \o NonEmpty(<<y, r>>), x, p, y, r)
<1>1. PICK a \in Blocks, b \in Blocks : /\ a = <<x, p>> /\ a[1] = x /\ a[2] = p /\ End(a) = x + p
                                        /\ b = <<y, r>> /\ b[1] = y /\ b[2] = r /\ End(b) = y + r
  <2>1. <<x, p>> \in Blocks /\ <<y, r>> \in Blocks
    BY DEF Blocks
  <2> QED BY <2>1 DEF End
<1>3. CASE p = 0 /\ r = 0
  <2>1. NonEmpty(a) \o NonEmpty(b) = << >>
    BY <1>1, <1>3 DEF NonEmpty
  <2>2. \A c \in Nat : ~((x <= c /\ c < x + p) \/ (y <= c /\ c < y + r))
    BY <1>3
  <2>3. Leftover(<< >>, x, p, y, r)
    BY <2>2, NoBlock, Zenon DEF Leftover
  <2> QED BY <1>1, <2>1, <2>3
<1>4. CASE p # 0 /\ r = 0
  <2>1. NonEmpty(a) \o NonEmpty(b) = <<a>>
    BY <1>1, <1>4 DEF NonEmpty
  <2>2. PICK t : t = <<a>>
    OBVIOUS
  <2>3. FreeList(t, {}) /\ (\A k \in DOMAIN t : t[k] = a)
        /\ \A c : InFree(t, c) <=> (a[1] <= c /\ c < End(a))
    BY <1>1, <1>4, <2>2, OneBlock, Zenon
  <2>4. \A k \in DOMAIN t : x <= t[k][1] /\ End(t[k]) <= y + r
    BY <1>1, <1>4, <2>3
  <2>5. \A c \in Nat : InFree(t, c) <=> ((x <= c /\ c < x + p) \/ (y <= c /\ c < y + r))
    BY <1>1, <1>4, <2>3
  <2> QED BY <1>1, <2>1, <2>2, <2>3, <2>4, <2>5 DEF Leftover
<1>5. CASE p = 0 /\ r # 0
  <2>1. NonEmpty(a) \o NonEmpty(b) = <<b>>
    BY <1>1, <1>5 DEF NonEmpty
  <2>2. PICK t : t = <<b>>
    OBVIOUS
  <2>3. FreeList(t, {}) /\ (\A k \in DOMAIN t : t[k] = b)
        /\ \A c : InFree(t, c) <=> (b[1] <= c /\ c < End(b))
    BY <1>1, <1>5, <2>2, OneBlock, Zenon
  <2>4. \A k \in DOMAIN t : x <= t[k][1] /\ End(t[k]) <= y + r
    BY <1>1, <1>5, <2>3
  <2>5. \A c \in Nat : InFree(t, c) <=> ((x <= c /\ c < x + p) \/ (y <= c /\ c < y + r))
    BY <1>1, <1>5, <2>3
  <2> QED BY <1>1, <2>1, <2>2, <2>3, <2>4, <2>5 DEF Leftover
<1>6. CASE p # 0 /\ r # 0
  <2>1. NonEmpty(a) \o NonEmpty(b) = <<a>> \o <<b>>
    BY <1>1, <1>6 DEF NonEmpty
  <2>2. PICK t : t = <<a>> \o <<b>>
    OBVIOUS
  <2>a. a[2] # 0 /\ b[2] # 0 /\ End(a) < b[1]
    BY <1>1, <1>6
  <2>3. FreeList(t, {}) /\ (\A k \in DOMAIN t : t[k] \in {a, b})
        /\ \A c : InFree(t, c) <=> ((a[1] <= c /\ c < End(a)) \/ (b[1] <= c /\ c < End(b)))
    BY <2>2, <2>a, TwoBlocks, Zenon
  <2>4. \A k \in DOMAIN t : x <= t[k][1] /\ End(t[k]) <= y + r
    BY <1>1, <1>6, <2>3
  <2>5. \A c \in Nat : InFree(t, c) <=> ((x <= c /\ c < x + p) \/ (y <= c /\ c < y + r))
    BY <1>1, <1>6, <2>3
  <2> QED BY <1>1, <2>1, <2>2, <2>3, <2>4, <2>5 DEF Leftover
<1> QED BY <1>3, <1>4, <1>5, <1>6

(* What FreelistAlloc makes of the free list when it takes from block i.   *)
TakeAt(free, i, pad, size) ==
  SubSeq(free, 1, i - 1) \o NonEmpty(<<free[i][1], pad>>)
    \o NonEmpty(<<free[i][1] + pad + size, free[i][2] - pad - size>>)
    \o SubSeq(free, i + 1, Len(free))

(* First fit: block i is left with the padding before the aligned offset   *)
(* and with what the request does not need.                                *)
LEMMA TakeSorted ==
  ASSUME NEW free, FreeList(free, {}), NEW i \in DOMAIN free, NEW pad \in Nat,
         NEW size \in Nat \ {0}, pad + size <= free[i][2]
  PROVE  /\ FreeList(TakeAt(free, i, pad, size), {})
         /\ Takes(TakeAt(free, i, pad, size), free, free[i][1] + pad, size)
<1>0. PICK g : g = TakeAt(free, i, pad, size)
  OBVIOUS
<1>1. free \in Seq(Blocks) /\ Len(free) \in Nat /\ DOMAIN free = 1..Len(free) /\ i \in Nat \ {0}
  BY DEF FreeList
<1>2. PICK x, y \in Nat : x = free[i][1] /\ y = free[i][2] /\ End(free[i]) = x + y
  <2>1. free[i] \in Blocks
    BY <1>1
  <2> QED BY <2>1 DEF Blocks, End
<1>3. PICK u, r \in Nat : u = x + pad + size /\ r = y - pad - size /\ x + pad < u /\ u + r = x + y
  <2>1. pad + size <= y
    BY <1>2
  <2>2. y - pad - size \in Nat /\ x + pad + size \in Nat /\ x + pad < x + pad + size
        /\ (x + pad + size) + (y - pad - size) = x + y
    BY <2>1
  <2> QED BY <2>2
<1>4. PICK b, c : b = NonEmpty(<<x, pad>>) /\ c = NonEmpty(<<u, r>>)
  OBVIOUS
<1>5. b \in Seq(Blocks) /\ c \in Seq(Blocks)
  <2>1. <<x, pad>> \in Blocks /\ <<u, r>> \in Blocks
    BY DEF Blocks
  <2> QED BY <1>4, <2>1 DEF NonEmpty
<1>6. PICK t : t = b \o c
  OBVIOUS
<1>7. /\ FreeList(t, {})
      /\ \A k \in DOMAIN t : x <= t[k][1] /\ End(t[k]) <= u + r
      /\ \A d \in Nat : InFree(t, d) <=> ((x <= d /\ d < x + pad) \/ (u <= d /\ d < u + r))
  <2>1. Leftover(NonEmpty(<<x, pad>>) \o NonEmpty(<<u, r>>), x, pad, u, r)
    BY <1>3, LeftoversSorted
  <2>2. Leftover(t, x, pad, u, r)
    BY <1>4, <1>6, <2>1
  <2> QED BY <2>2 DEF Leftover
<1>8. PICK s \in Seq(Blocks) : s = SubSeq(free, 1, i - 1)
  <2>1. 1 \in Nat \ {0} /\ i - 1 \in Nat /\ i - 1 <= Len(free)
    BY <1>1
  <2>2. SubSeq(free, 1, i - 1) \in Seq(Blocks)
    BY <1>1, <2>1, SubSeqType, Zenon
  <2> QED BY <2>2
<1>9. g = Splice(free, i - 1, t, i + 1)
  <2>1. (s \o b) \o c = s \o (b \o c)
    BY <1>5, ConcatAssociative
  <2>2. g = ((s \o b) \o c) \o SubSeq(free, i + 1, Len(free))
    BY <1>0, <1>2, <1>3, <1>4, <1>8 DEF TakeAt
  <2> QED BY <1>6, <1>8, <2>1, <2>2, Zenon DEF Splice
<1>10. /\ FreeList(g, {})
       /\ \A d \in Nat : InFree(g, d)
            <=> (InFree(t, d) \/ (InFree(free, d) /\ ~(free[i][1] <= d /\ d < End(free[i]))))
  <2>1. \A k \in DOMAIN t : free[i][1] <= t[k][1] /\ End(t[k]) <= End(free[i])
    BY <1>2, <1>3, <1>7
  <2>2. /\ FreeList(Splice(free, i - 1, t, i + 1), {})
        /\ \A d \in Nat : InFree(Splice(free, i - 1, t, i + 1), d)
             <=> (InFree(t, d) \/ (InFree(free, d) /\ ~(free[i][1] <= d /\ d < End(free[i]))))
    BY <1>7, <2>1, ReplaceSorted, Zenon
  <2> QED BY <1>9, <2>2
<1>11. \A d \in Nat : x <= d /\ d < x + y => InFree(free, d)
  BY <1>2 DEF InFree
<1>12. ASSUME NEW d \in Nat
       PROVE  InFree(g, d) <=> (InFree(free, d) /\ ~(x + pad <= d /\ d < x + pad + size))
  <2>1. InFree(g, d) <=> (InFree(t, d) \/ (InFree(free, d) /\ ~(x <= d /\ d < x + y)))
    BY <1>2, <1>10
  <2>2. InFree(t, d) <=> ((x <= d /\ d < x + pad) \/ (u <= d /\ d < u + r))
    BY <1>7
  <2>3. x <= d /\ d < x + y => InFree(free, d)
    BY <1>11
  <2>4. ((x <= d /\ d < x + pad) \/ (u <= d /\ d < u + r))
          <=> (x <= d /\ d < x + y /\ ~(x + pad <= d /\ d < x + pad + size))
    BY <1>3
  <2>5. x + pad <= d /\ d < x + pad + size => x <= d /\ d < x + y
    BY <1>3
  <2> QED BY <2>1, <2>2, <2>3, <2>4, <2>5
<1> QED BY <1>0, <1>2, <1>10, <1>12 DEF Takes

-----------------------------------------------------------------------------
(* Rounding up *)

(* No power of two is 0.                                                   *)
LEMMA PowerOfTwoPositive ==
  ASSUME NEW align \in Nat, IsPowerOfTwo(align)
  PROVE  align \in Nat \ {0}
BY DEF IsPowerOfTwo

(* What align_up returns is the least multiple of the alignment that is    *)
(* not below the value.                                                    *)
LEMMA AlignUpLeast ==
  ASSUME NEW value \in Nat, NEW align \in Nat, align_up(value, align) # NoOffset
  PROVE  /\ align # 0
         /\ align_up(value, align) \in Nat
         /\ align_up(value, align) >= value
         /\ align_up(value, align) % align = 0
         /\ \A o \in Nat : o >= value /\ o % align = 0 => align_up(value, align) <= o
<1>1. IsPowerOfTwo(align) /\ align_up(value, align) = ((value + (align - 1)) \div align) * align
  BY DEF align_up
<1>2. align \in Nat \ {0}
  BY <1>1, PowerOfTwoPositive
<1>3. PICK n \in Nat \ {0} : n = align
  BY <1>2
<1>4. PICK v \in Nat : v = value + (n - 1)
  <2>1. value + (n - 1) \in Nat
    OBVIOUS
  <2> QED BY <2>1
<1>5. PICK q \in Int, r \in 0..(n - 1) : v = n * q + r /\ q = v \div n
  <2>1. v % n \in 0..(n - 1) /\ v \div n \in Int /\ v = n * (v \div n) + (v % n)
    BY Division
  <2> QED BY <2>1, Zenon
<1>6. PICK u \in Int : u = n * q /\ align_up(value, align) = u
  <2>1. n * q \in Int /\ n * q = q * n
    OBVIOUS
  <2> QED BY <1>1, <1>3, <1>4, <1>5, <2>1
<1>7. u >= value /\ u \in Nat
  BY <1>4, <1>5, <1>6
<1>8. u % n = 0
  <2>1. u = n * q + 0 /\ 0 \in 0..(n - 1)
    BY <1>6
  <2> QED BY <2>1, RemainderUnique
<1>9. ASSUME NEW o \in Nat, o >= value, o % n = 0 PROVE u <= o
  <2>1. PICK p \in Int : o = n * p
    <3>1. o = n * (o \div n) + (o % n) /\ o \div n \in Int
      BY Division
    <3>2. n * (o \div n) + 0 = n * (o \div n)
      BY <3>1
    <3> QED BY <1>9, <3>1, <3>2
  <2>2. CASE p >= q
    <3>1. CASE p = q
      BY <1>6, <2>1, <3>1
    <3>2. CASE p > q
      <4>1. n * p >= n * q + n
        BY <3>2, TimesMonotonic
      <4> QED BY <1>6, <2>1, <4>1
    <3> QED BY <2>2, <3>1, <3>2
  <2>3. CASE q > p
    <3>1. n * q >= n * p + n
      BY <2>3, TimesMonotonic
    <3>2. u >= o + n
      BY <1>6, <2>1, <3>1
    <3> QED BY <1>4, <1>5, <1>6, <1>9, <3>2
  <2> QED BY <2>2, <2>3
<1> QED BY <1>2, <1>3, <1>6, <1>7, <1>8, <1>9

-----------------------------------------------------------------------------
(* First fit *)

(* What a successful allocation has done.                                  *)
Took(a, r, i, pad, size, align) ==
  /\ size # 0
  /\ align # 0
  /\ (a.free[i][1] + pad) % align = 0
  /\ pad + size <= a.free[i][2]
  /\ r.offset = a.free[i][1] + pad
  /\ r.state = [a EXCEPT
       !.free = TakeAt(a.free, i, pad, size),
       !.allocated = [o \in DOMAIN a.allocated \cup {a.free[i][1] + pad} |->
                        IF o = a.free[i][1] + pad THEN size ELSE a.allocated[o]],
       !.used = a.used + size]

(* An allocation takes its bytes from one block, or changes nothing.       *)
LEMMA AllocTakes ==
  ASSUME NEW a, a.free \in Seq(Blocks), NEW size \in Nat, NEW align \in Nat,
         NEW r, r = FreelistAlloc(a, size, align)
  PROVE  \/ r.offset = NoOffset /\ r.state = a
         \/ \E i \in DOMAIN a.free, pad \in Nat : Took(a, r, i, pad, size, align)
<1> DEFINE Test(b) == Overflows(b, size, align) \/ Fits(b, size, align)
           I == {k \in 1..Len(a.free) : Test(a.free[k])}
           s == SelectInSeq(a.free, LAMBDA b : Overflows(b, size, align) \/ Fits(b, size, align))
<1>1. s = IF I # {} THEN Min(I) ELSE 0
  BY DEF SelectInSeq
<1>2. Len(a.free) \in Nat /\ DOMAIN a.free = 1..Len(a.free) /\ I \subseteq 1..Len(a.free)
  OBVIOUS
<1>3. CASE size = 0 \/ s = 0
  BY <1>3 DEF FreelistAlloc
<1>4. CASE size # 0 /\ s # 0
  <2>1. PICK i \in DOMAIN a.free : i = s /\ Test(a.free[i])
    <3>1. I # {} /\ I \in SUBSET Nat
      BY <1>1, <1>2, <1>4
    <3>2. Min(I) \in I
      <4> HIDE DEF I
      <4> QED BY <3>1, MinProperties
    <3> QED BY <1>1, <1>2, <3>1, <3>2
  <2>2. CASE Overflows(a.free[i], size, align)
    <3>1. r = [offset |-> NoOffset, state |-> a]
      BY <1>4, <2>1, <2>2 DEF FreelistAlloc
    <3> QED BY <3>1
  <2>3. CASE ~Overflows(a.free[i], size, align)
    <3>1. PICK x, y \in Nat : x = a.free[i][1] /\ y = a.free[i][2]
      <4>1. a.free[i] \in Blocks
        BY <1>2
      <4> QED BY <4>1 DEF Blocks
    <3>2. align_up(x, align) # NoOffset /\ Fits(a.free[i], size, align)
      BY <2>1, <2>3, <3>1 DEF Overflows
    <3>3. align # 0 /\ align_up(x, align) \in Nat /\ align_up(x, align) >= x
          /\ align_up(x, align) % align = 0
      BY <3>2, AlignUpLeast
    <3>4. PICK pad \in Nat : pad = Padding(a.free[i], align) /\ align_up(x, align) = x + pad
      <4>1. align_up(x, align) - x \in Nat
        BY <3>3
      <4>2. Padding(a.free[i], align) = align_up(x, align) - x
        BY <3>1 DEF Padding
      <4> QED BY <3>3, <4>1, <4>2
    <3>5. pad + size <= y
      BY <3>1, <3>2, <3>4 DEF Fits
    <3>6. /\ r.offset = a.free[i][1] + pad
          /\ r.state = [a EXCEPT
               !.free = TakeAt(a.free, i, pad, size),
               !.allocated = [o \in DOMAIN a.allocated \cup {a.free[i][1] + pad} |->
                                IF o = a.free[i][1] + pad THEN size ELSE a.allocated[o]],
               !.used = a.used + size]
      <4> HIDE DEF I
      <4> QED BY <1>4, <2>1, <2>3, <3>4 DEF FreelistAlloc, TakeAt
    <3>7. Took(a, r, i, pad, size, align)
      BY <1>4, <3>1, <3>3, <3>4, <3>5, <3>6 DEF Took
    <3> QED BY <3>7
  <2> QED BY <2>2, <2>3
<1> QED BY <1>3, <1>4

-----------------------------------------------------------------------------
(* The books of the freelist *)

(* Live blocks w and free blocks share out the bytes below C.              *)
Tiled(free, w, C) ==
  /\ \A o, q \in DOMAIN w : o < q => o + w[o] <= q
  /\ \A c \in Nat : InFree(free, c) => ~InLive(w, c)
  /\ \A c \in Nat : (InFree(free, c) \/ InLive(w, c)) <=> c < C

(* The live blocks: offsets below C and their sizes.                       *)
Live(C) == UNION {[D -> Nat \ {0}] : D \in SUBSET (0..(C - 1))}

(* Only a region without bytes lists an empty block, until it is compacted.*)
Balanced(a, C) ==
  /\ a \in [kind : {"Freelist"}, free : Seq(Blocks), allocated : Live(C), used : Nat]
  /\ FreeList(a.free, {}) \/ (C = 0 /\ a.free = << <<0, 0>> >>)
  /\ Tiled(a.free, a.allocated, C)
  /\ a.used = SumOf(a.allocated, DOMAIN a.allocated)

(* The types of the live blocks.                                           *)
LEMMA LiveType ==
  ASSUME NEW C \in Nat, NEW w \in Live(C)
  PROVE  /\ DOMAIN w \subseteq 0..(C - 1)
         /\ DOMAIN w \subseteq Nat
         /\ IsFiniteSet(DOMAIN w)
         /\ \A o \in DOMAIN w : o \in Nat /\ w[o] \in Nat \ {0}
         /\ w \in [DOMAIN w -> Nat \ {0}]
<1>1. PICK D \in SUBSET (0..(C - 1)) : w \in [D -> Nat \ {0}]
  BY DEF Live
<1>2. DOMAIN w = D
  BY <1>1
<1>3. IsFiniteSet(D)
  <2>1. IsFiniteSet(0..(C - 1))
    BY FS_Interval
  <2> QED BY <2>1, FS_Subset
<1> QED BY <1>1, <1>2, <1>3

(* The live blocks with one more, or one less.                             *)
Grown(w, o, size) == [x \in DOMAIN w \cup {o} |-> IF x = o THEN size ELSE w[x]]
Shrunk(w, o) == [x \in DOMAIN w \ {o} |-> w[x]]

(* A block taken from the free bytes becomes a live one.                   *)
LEMMA TakeTiled ==
  ASSUME NEW C \in Nat, NEW free, NEW w \in Live(C), Tiled(free, w, C), NEW g,
         NEW o \in Nat, NEW size \in Nat \ {0}, Takes(g, free, o, size),
         \A c \in Nat : o <= c /\ c < o + size => InFree(free, c)
  PROVE  /\ Grown(w, o, size) \in Live(C)
         /\ Tiled(g, Grown(w, o, size), C)
         /\ o \notin DOMAIN w /\ o + size <= C
         /\ SumOf(Grown(w, o, size), DOMAIN Grown(w, o, size)) = SumOf(w, DOMAIN w) + size
<1>1. /\ DOMAIN w \subseteq 0..(C - 1) /\ IsFiniteSet(DOMAIN w)
      /\ \A x \in DOMAIN w : x \in Nat /\ w[x] \in Nat \ {0}
  BY LiveType
<1>2. \A c \in Nat : o <= c /\ c < o + size => ~InLive(w, c) /\ c < C
  BY DEF Tiled
<1>3. o \notin DOMAIN w /\ o < C /\ o + size <= C
  <2>1. o <= o /\ o < o + size
    OBVIOUS
  <2>2. ~InLive(w, o) /\ o < C
    BY <1>2, <2>1
  <2>3. PICK e \in Nat : e = o + size - 1
    <3>1. o + size - 1 \in Nat
      OBVIOUS
    <3> QED BY <3>1
  <2>4. e < C
    BY <1>2, <2>3
  <2>5. o \notin DOMAIN w
    <3> SUFFICES ASSUME o \in DOMAIN w PROVE InLive(w, o)
      BY <2>2
    <3>1. w[o] \in Nat \ {0}
      BY <1>1
    <3> QED BY <3>1 DEF InLive
  <2> QED BY <2>2, <2>3, <2>4, <2>5
<1>4. PICK v : v = Grown(w, o, size)
  OBVIOUS
<1>5. /\ DOMAIN v = DOMAIN w \cup {o} /\ v[o] = size
      /\ \A x \in DOMAIN w : v[x] = w[x]
  BY <1>3, <1>4 DEF Grown
<1>6. v \in Live(C)
  <2>1. v \in [DOMAIN w \cup {o} -> Nat \ {0}]
    BY <1>1, <1>4 DEF Grown
  <2>2. DOMAIN w \cup {o} \in SUBSET (0..(C - 1))
    BY <1>1, <1>3
  <2> QED BY <2>1, <2>2 DEF Live
<1>7. \A x \in DOMAIN w : \A c \in Nat : o <= c /\ c < o + size => ~(x <= c /\ c < x + w[x])
  BY <1>2 DEF InLive
<1>8. ASSUME NEW x \in DOMAIN v, NEW y \in DOMAIN v, x < y PROVE x + v[x] <= y
  <2>1. CASE x # o /\ y # o
    BY <1>5, <2>1, <1>8 DEF Tiled
  <2>2. CASE x = o
    <3>1. y \in DOMAIN w /\ y \in Nat /\ w[y] \in Nat \ {0}
      BY <1>1, <1>5, <1>8, <2>2
    <3>2. ~(o <= y /\ y < o + size)
      BY <1>7, <3>1
    <3> QED BY <1>5, <1>8, <2>2, <3>1, <3>2
  <2>3. CASE y = o
    <3>1. x \in DOMAIN w /\ x \in Nat /\ w[x] \in Nat \ {0}
      BY <1>1, <1>5, <1>8, <2>3
    <3>2. ~(x <= o /\ o < x + w[x])
      BY <1>7, <3>1
    <3> QED BY <1>5, <1>8, <2>3, <3>1, <3>2
  <2> QED BY <2>1, <2>2, <2>3
<1>9. ASSUME NEW c \in Nat PROVE InLive(v, c) <=> (InLive(w, c) \/ (o <= c /\ c < o + size))
  BY <1>5 DEF InLive
<1>10. Tiled(g, v, C)
  BY <1>2, <1>8, <1>9 DEF Tiled, Takes
<1>11. SumOf(v, DOMAIN v) = SumOf(w, DOMAIN w) + size
  <2>1. IsFiniteSet(DOMAIN v) /\ \A x \in DOMAIN v : v[x] \in Nat
    BY <1>1, <1>5, FS_AddElement
  <2>2. SumOf(v, DOMAIN v) = v[o] + SumOf(v, DOMAIN v \ {o})
    BY <1>5, <2>1, SumRemove
  <2>3. DOMAIN v \ {o} = DOMAIN w
    BY <1>3, <1>5
  <2>4. SumOf(v, DOMAIN w) = SumOf(w, DOMAIN w)
    BY <1>1, <1>5, SumAgree
  <2>5. SumOf(w, DOMAIN w) \in Nat
    BY <1>1, SumType
  <2> QED BY <1>5, <2>2, <2>3, <2>4, <2>5
<1> QED BY <1>3, <1>4, <1>6, <1>10, <1>11

(* A block given back.                                                     *)
LEMMA GiveTiled ==
  ASSUME NEW C \in Nat, NEW free, NEW w \in Live(C), Tiled(free, w, C), NEW g,
         NEW o \in DOMAIN w, Adds(g, free, o, w[o])
  PROVE  /\ Shrunk(w, o) \in Live(C)
         /\ Tiled(g, Shrunk(w, o), C)
         /\ SumOf(w, DOMAIN w) = SumOf(Shrunk(w, o), DOMAIN Shrunk(w, o)) + w[o]
         /\ SumOf(Shrunk(w, o), DOMAIN Shrunk(w, o)) \in Nat
<1>1. /\ DOMAIN w \subseteq 0..(C - 1) /\ IsFiniteSet(DOMAIN w)
      /\ \A x \in DOMAIN w : x \in Nat /\ w[x] \in Nat \ {0}
  BY LiveType
<1>2. PICK v : v = Shrunk(w, o)
  OBVIOUS
<1>3. DOMAIN v = DOMAIN w \ {o} /\ \A x \in DOMAIN v : v[x] = w[x]
  BY <1>2 DEF Shrunk
<1>4. v \in Live(C)
  <2>1. v \in [DOMAIN w \ {o} -> Nat \ {0}]
    BY <1>1, <1>2 DEF Shrunk
  <2>2. DOMAIN w \ {o} \in SUBSET (0..(C - 1))
    BY <1>1
  <2> QED BY <2>1, <2>2 DEF Live
<1>5. ASSUME NEW c \in Nat PROVE InLive(w, c) <=> (InLive(v, c) \/ (o <= c /\ c < o + w[o]))
  BY <1>3 DEF InLive
<1>6. ASSUME NEW c \in Nat, o <= c, c < o + w[o], NEW x \in DOMAIN v, x <= c, c < x + v[x] PROVE FALSE
  <2>1. x \in DOMAIN w /\ x # o /\ v[x] = w[x]
    BY <1>3
  <2>2. (x < o => x + w[x] <= o) /\ (o < x => o + w[o] <= x)
    BY <2>1 DEF Tiled
  <2> QED BY <1>1, <1>6, <2>1, <2>2
<1>7. \A c \in Nat : o <= c /\ c < o + w[o] => ~InLive(v, c)
  BY <1>6 DEF InLive
<1>8. \A x, y \in DOMAIN v : x < y => x + v[x] <= y
  BY <1>3 DEF Tiled
<1>9. Tiled(g, v, C)
  BY <1>5, <1>7, <1>8 DEF Tiled, Adds
<1>10. IsFiniteSet(DOMAIN v) /\ SumOf(v, DOMAIN v) \in Nat
  <2>1. IsFiniteSet(DOMAIN v) /\ \A x \in DOMAIN v : v[x] \in Nat
    BY <1>4, LiveType
  <2> QED BY <2>1, SumType
<1>11. SumOf(w, DOMAIN w) = SumOf(v, DOMAIN v) + w[o]
  <2>1. SumOf(w, DOMAIN w) = w[o] + SumOf(w, DOMAIN w \ {o})
    BY <1>1, SumRemove
  <2>2. SumOf(w, DOMAIN v) = SumOf(v, DOMAIN v)
    BY <1>3, <1>10, SumAgree
  <2> QED BY <1>1, <1>3, <1>10, <2>1, <2>2
<1> QED BY <1>2, <1>4, <1>9, <1>10, <1>11

(* A new region's freelist holds every byte in one free block.             *)
LEMMA NewBalanced ==
  ASSUME NEW C \in Nat
  PROVE  Balanced(FreelistNew(C), C)
<1>1. PICK b \in Blocks : b = <<0, C>> /\ b[1] = 0 /\ b[2] = C /\ End(b) = C
  <2>1. <<0, C>> \in Blocks
    BY DEF Blocks
  <2> QED BY <2>1 DEF End
<1>2. PICK w : w = << >> /\ DOMAIN w = {}
  OBVIOUS
<1>3. w \in Live(C)
  <2>1. w \in [{} -> Nat \ {0}]
    BY <1>2
  <2>2. {} \in SUBSET (0..(C - 1))
    OBVIOUS
  <2> QED BY <2>1, <2>2 DEF Live
<1>4. SumOf(w, {}) = 0
  BY FS_EmptySet, SumPick
<1>5. \A c : ~InLive(w, c)
  BY <1>2 DEF InLive
<1>6. \A c \in Nat : InFree(<<b>>, c) <=> c < C
  <2>1. DOMAIN <<b>> = {1} /\ <<b>>[1] = b
    OBVIOUS
  <2>2. \A c : InFree(<<b>>, c) <=> (b[1] <= c /\ c < End(b))
    BY <2>1, Zenon DEF InFree
  <2> QED BY <1>1, <2>2
<1>7. Tiled(<<b>>, w, C)
  BY <1>2, <1>5, <1>6 DEF Tiled
<1>8. FreeList(<<b>>, {}) \/ (C = 0 /\ <<b>> = << <<0, 0>> >>)
  BY <1>1, OneBlock
<1>9. PICK f \in Seq(Blocks) : f = <<b>>
  <2>1. <<b>> \in Seq(Blocks)
    OBVIOUS
  <2> QED BY <2>1
<1>10. FreelistNew(C) = [kind |-> "Freelist", free |-> f, allocated |-> w, used |-> 0]
  BY <1>1, <1>2, <1>9 DEF FreelistNew
<1>11. Balanced([kind |-> "Freelist", free |-> f, allocated |-> w, used |-> 0], C)
  BY <1>2, <1>3, <1>4, <1>7, <1>8, <1>9 DEF Balanced
<1> QED BY <1>10, <1>11

(* What a successful allocation has done to balanced books: the block is   *)
(* aligned, was free, and is now live.                                     *)
Gained(a, r, size, align, C) ==
  /\ size # 0 /\ align # 0
  /\ r.offset \in 0..(C - 1)
  /\ r.offset % align = 0
  /\ r.offset + size <= C
  /\ r.offset \notin DOMAIN a.allocated
  /\ \A c \in Nat : r.offset <= c /\ c < r.offset + size => ~InLive(a.allocated, c)
  /\ r.state.allocated = Grown(a.allocated, r.offset, size)
  /\ Balanced(r.state, C)

(* A successful allocation keeps the books balanced.                       *)
LEMMA AllocBalanced ==
  ASSUME NEW C \in Nat, NEW a, Balanced(a, C), NEW size \in Nat, NEW align \in Nat,
         NEW r, r = FreelistAlloc(a, size, align), r.offset # NoOffset
  PROVE  Gained(a, r, size, align, C)
<1>1. a \in [kind : {"Freelist"}, free : Seq(Blocks), allocated : Live(C), used : Nat]
  BY DEF Balanced
<1>2. Tiled(a.free, a.allocated, C) /\ a.used = SumOf(a.allocated, DOMAIN a.allocated)
  BY DEF Balanced
<1>3. PICK i \in DOMAIN a.free, pad \in Nat : Took(a, r, i, pad, size, align)
  BY <1>1, AllocTakes
<1>4. PICK z \in Nat \ {0} : z = size
  BY <1>3 DEF Took
<1>5. PICK x, y \in Nat : x = a.free[i][1] /\ y = a.free[i][2] /\ End(a.free[i]) = x + y /\ pad + size <= y
  <2>1. a.free[i] \in Blocks
    BY <1>1
  <2> QED BY <1>3, <2>1 DEF Blocks, End, Took
<1>6. FreeList(a.free, {})
  <2> SUFFICES ASSUME a.free = << <<0, 0>> >> PROVE FALSE
    BY DEF Balanced
  <2>1. DOMAIN a.free = {1} /\ a.free[1] = <<0, 0>>
    OBVIOUS
  <2>2. y = 0
    BY <1>5, <2>1
  <2> QED BY <1>4, <1>5, <2>2
<1>7. PICK o \in Nat : o = x + pad
  OBVIOUS
<1>8. PICK g : g = TakeAt(a.free, i, pad, z)
  OBVIOUS
<1>9. FreeList(g, {}) /\ Takes(g, a.free, o, z)
  <2>1. /\ FreeList(TakeAt(a.free, i, pad, z), {})
        /\ Takes(TakeAt(a.free, i, pad, z), a.free, a.free[i][1] + pad, z)
    <3>1. pad + z <= a.free[i][2]
      BY <1>4, <1>5
    <3> QED BY <1>6, <3>1, TakeSorted
  <2> QED BY <1>5, <1>7, <1>8, <2>1
<1>10. \A c \in Nat : o <= c /\ c < o + z => InFree(a.free, c)
  <2>1. \A c \in Nat : x <= c /\ c < x + y => InFree(a.free, c)
    BY <1>5 DEF InFree
  <2> QED BY <1>4, <1>5, <1>7, <2>1
<1>11. PICK w \in Live(C) : w = a.allocated
  BY <1>1
<1>12. /\ Grown(w, o, z) \in Live(C)
       /\ Tiled(g, Grown(w, o, z), C)
       /\ o \notin DOMAIN w /\ o + z <= C
       /\ SumOf(Grown(w, o, z), DOMAIN Grown(w, o, z)) = SumOf(w, DOMAIN w) + z
  <2>1. Tiled(a.free, w, C)
    BY <1>2, <1>11
  <2> QED BY <1>9, <1>10, <2>1, TakeTiled
<1>13. PICK u \in Nat : u = a.used + z /\ u = SumOf(Grown(w, o, z), DOMAIN Grown(w, o, z))
  <2>1. a.used + z \in Nat
    BY <1>1
  <2> QED BY <1>2, <1>11, <1>12, <2>1
<1>14. r.offset = o /\ o % align = 0 /\ align # 0
       /\ r.state = [a EXCEPT !.free = g, !.allocated = Grown(w, o, z), !.used = u]
  BY <1>3, <1>4, <1>5, <1>7, <1>8, <1>11, <1>13 DEF Took, Grown
<1>15. g \in Seq(Blocks)
  BY <1>9 DEF FreeList
<1>16. PICK v \in Live(C) : v = Grown(w, o, z)
  BY <1>12
<1>17. r.state = [kind |-> "Freelist", free |-> g, allocated |-> v, used |-> u]
  BY <1>1, <1>14, <1>16
<1>18. Balanced(r.state, C)
  <2>1. Tiled(g, v, C) /\ u = SumOf(v, DOMAIN v)
    BY <1>12, <1>13, <1>16
  <2>2. Balanced([kind |-> "Freelist", free |-> g, allocated |-> v, used |-> u], C)
    BY <1>9, <1>15, <2>1 DEF Balanced
  <2> QED BY <1>17, <2>2
<1>19. \A c \in Nat : o <= c /\ c < o + z => ~InLive(w, c)
  BY <1>2, <1>10, <1>11 DEF Tiled
<1>20. o \in 0..(C - 1)
  BY <1>12
<1>21. r.state.allocated = Grown(w, o, z)
  BY <1>16, <1>17
<1> QED BY <1>4, <1>11, <1>12, <1>14, <1>18, <1>19, <1>20, <1>21 DEF Gained

(* A free gives a live block back.                                         *)
LEMMA DeallocBalanced ==
  ASSUME NEW C \in Nat, NEW a, Balanced(a, C), NEW o \in DOMAIN a.allocated
  PROVE  /\ Balanced(FreelistDealloc(a, o), C)
         /\ FreelistDealloc(a, o).allocated = Shrunk(a.allocated, o)
<1>1. a \in [kind : {"Freelist"}, free : Seq(Blocks), allocated : Live(C), used : Nat]
  BY DEF Balanced
<1>2. Tiled(a.free, a.allocated, C) /\ a.used = SumOf(a.allocated, DOMAIN a.allocated)
  BY DEF Balanced
<1>3. PICK w \in Live(C) : w = a.allocated
  BY <1>1
<1>4. o \in Nat /\ w[o] \in Nat \ {0} /\ o < C
  BY <1>3, LiveType
<1>5. PICK z \in Nat \ {0} : z = w[o]
  BY <1>4
<1>6. FreeList(a.free, {})
  BY <1>4 DEF Balanced
<1>7. \A c \in Nat : o <= c /\ c < o + z => ~InFree(a.free, c)
  <2>1. \A c \in Nat : o <= c /\ c < o + z => InLive(w, c)
    BY <1>3, <1>5 DEF InLive
  <2> QED BY <1>2, <1>3, <2>1 DEF Tiled
<1>8. PICK p : p = PartitionPoint(a.free, o)
  OBVIOUS
<1>9. PICK g : g = coalesce(InsertAt(a.free, p, <<o, z>>), p)
  OBVIOUS
<1>10. FreeList(g, {}) /\ Adds(g, a.free, o, z)
  <2>1. /\ FreeList(coalesce(InsertAt(a.free, p, <<o, z>>), p), {})
        /\ Adds(coalesce(InsertAt(a.free, p, <<o, z>>), p), a.free, o, z)
    BY <1>4, <1>6, <1>7, <1>8, CoalesceSorted
  <2> QED BY <1>9, <2>1
<1>11. /\ Shrunk(w, o) \in Live(C)
       /\ Tiled(g, Shrunk(w, o), C)
       /\ SumOf(w, DOMAIN w) = SumOf(Shrunk(w, o), DOMAIN Shrunk(w, o)) + w[o]
       /\ SumOf(Shrunk(w, o), DOMAIN Shrunk(w, o)) \in Nat
  <2>1. Tiled(a.free, w, C) /\ o \in DOMAIN w /\ Adds(g, a.free, o, w[o])
    BY <1>2, <1>3, <1>5, <1>10
  <2> QED BY <2>1, GiveTiled, Zenon
<1>12. PICK v \in Live(C), u \in Nat : v = Shrunk(w, o) /\ u = SumOf(v, DOMAIN v)
                                       /\ a.used - z = u /\ Tiled(g, v, C)
  <2>1. PICK v \in Live(C), u \in Nat : v = Shrunk(w, o) /\ u = SumOf(v, DOMAIN v) /\ Tiled(g, v, C)
                                        /\ SumOf(w, DOMAIN w) = u + w[o]
    BY <1>11, Zenon
  <2>2. a.used - z = u
    BY <1>2, <1>3, <1>5, <2>1
  <2> QED BY <2>1, <2>2
<1>13. FreelistDealloc(a, o) = [a EXCEPT !.free = g, !.allocated = v, !.used = u]
  BY <1>3, <1>5, <1>8, <1>9, <1>12 DEF FreelistDealloc, PartitionPoint, Shrunk
<1>14. FreelistDealloc(a, o) = [kind |-> "Freelist", free |-> g, allocated |-> v, used |-> u]
  BY <1>1, <1>13
<1>15. Balanced([kind |-> "Freelist", free |-> g, allocated |-> v, used |-> u], C)
  BY <1>10, <1>12 DEF Balanced, FreeList
<1> QED BY <1>3, <1>12, <1>14, <1>15

-----------------------------------------------------------------------------
(* Packing *)

(* A sum over part of a set is no larger.                                  *)
LEMMA SumMonotonic ==
  ASSUME NEW w, NEW S, IsFiniteSet(S), \A x \in S : w[x] \in Nat
  PROVE  \A t \in SUBSET S : \A s \in SUBSET t : SumOf(w, s) <= SumOf(w, t)
<1> DEFINE F == {t \in SUBSET S : \A s \in SUBSET t : SumOf(w, s) <= SumOf(w, t)}
<1>1. \A s \in SUBSET S : IsFiniteSet(s) /\ SumOf(w, s) \in Nat
  BY SumType
<1>2. {} \in F
  <2>1. \A s \in SUBSET {} : s = {}
    OBVIOUS
  <2>2. SumOf(w, {}) \in Nat
    BY <1>1
  <2> QED BY <2>1, <2>2
<1>3. ASSUME NEW t \in SUBSET S, t # {}, \A x \in t : t \ {x} \in F PROVE t \in F
  <2> SUFFICES ASSUME NEW s \in SUBSET t, s # t PROVE SumOf(w, s) <= SumOf(w, t)
    BY <1>1
  <2>1. PICK x \in t : x \notin s
    OBVIOUS
  <2>2. s \in SUBSET (t \ {x}) /\ t \ {x} \in F
    BY <1>3, <2>1
  <2>3. SumOf(w, s) <= SumOf(w, t \ {x})
    BY <2>2
  <2>4. SumOf(w, t) = w[x] + SumOf(w, t \ {x})
    BY <1>1, SumRemove
  <2>5. t \ {x} \in SUBSET S /\ s \in SUBSET S
    OBVIOUS
  <2> QED BY <1>1, <2>3, <2>4, <2>5
<1>4. SUBSET S \subseteq F
  <2> HIDE DEF F
  <2> QED BY <1>2, <1>3, SubsetsIn
<1> QED BY <1>4

(* Blocks below C, apart from each other.                                  *)
Apart(w, C) ==
  /\ \A o, q \in DOMAIN w : o < q => o + w[o] <= q
  /\ \A o \in DOMAIN w : o + w[o] <= C

Below(S, o) == {x \in S : x < o}

(* The last of a set of blocks, and the sum of the others.                 *)
LEMMA LastBlock ==
  ASSUME NEW C \in Nat, NEW w \in Live(C), NEW s \in SUBSET DOMAIN w, s # {}
  PROVE  \E m \in s : /\ \A x \in s : x <= m
                      /\ Below(s, m) = s \ {m}
                      /\ SumOf(w, s) = w[m] + SumOf(w, s \ {m})
<1>1. /\ DOMAIN w \subseteq 0..(C - 1) /\ DOMAIN w \subseteq Nat /\ IsFiniteSet(DOMAIN w)
      /\ \A o \in DOMAIN w : o \in Nat /\ w[o] \in Nat \ {0}
  BY LiveType
<1>2. PICK m \in s : \A x \in s : m >= x
  <2>1. s \in SUBSET (0..C)
    BY <1>1
  <2> QED BY <2>1, MaxProperties
<1>3. Below(s, m) = s \ {m}
  BY <1>1, <1>2 DEF Below
<1>4. SumOf(w, s) = w[m] + SumOf(w, s \ {m})
  <2>1. IsFiniteSet(s) /\ \A x \in s : w[x] \in Nat
    BY <1>1, FS_Subset
  <2> QED BY <2>1, SumRemove
<1>5. \A x \in s : x <= m
  BY <1>1, <1>2
<1> QED BY <1>3, <1>4, <1>5

(* Blocks that end at or before c add up to no more than c.                *)
LEMMA PackedFits ==
  ASSUME NEW C \in Nat, NEW w \in Live(C), Apart(w, C)
  PROVE  \A s \in SUBSET DOMAIN w : \A c \in Nat : (\A x \in s : x + w[x] <= c) => SumOf(w, s) <= c
<1> DEFINE F == {s \in SUBSET DOMAIN w :
                   \A c \in Nat : (\A x \in s : x + w[x] <= c) => SumOf(w, s) <= c}
<1>1. /\ IsFiniteSet(DOMAIN w)
      /\ \A o \in DOMAIN w : o \in Nat /\ w[o] \in Nat \ {0}
  BY LiveType
<1>2. \A s \in SUBSET DOMAIN w : IsFiniteSet(s) /\ SumOf(w, s) \in Nat
  BY <1>1, SumType
<1>3. {} \in F
  <2>1. SumOf(w, {}) = 0
    BY FS_EmptySet, SumPick
  <2> QED BY <2>1
<1>4. ASSUME NEW s \in SUBSET DOMAIN w, s # {}, \A x \in s : s \ {x} \in F PROVE s \in F
  <2> SUFFICES ASSUME NEW c \in Nat, \A x \in s : x + w[x] <= c PROVE SumOf(w, s) <= c
    OBVIOUS
  <2>1. PICK m \in s : (\A x \in s : x <= m) /\ SumOf(w, s) = w[m] + SumOf(w, s \ {m})
    BY <1>4, LastBlock
  <2>2. m \in Nat /\ w[m] \in Nat /\ m + w[m] <= c /\ SumOf(w, s \ {m}) \in Nat
    BY <1>1, <1>2
  <2>3. \A x \in s \ {m} : x + w[x] <= m
    <3> SUFFICES ASSUME NEW x \in s \ {m} PROVE x + w[x] <= m
      OBVIOUS
    <3>1. x < m
      BY <1>1, <2>1, <2>2
    <3> QED BY <3>1 DEF Apart
  <2>4. SumOf(w, s \ {m}) <= m
    BY <1>4, <2>2, <2>3
  <2> QED BY <2>1, <2>2, <2>4
<1>5. SUBSET DOMAIN w \subseteq F
  <2> HIDE DEF F
  <2>1. \A s \in SUBSET DOMAIN w : s # {} /\ (\A x \in s : s \ {x} \in F) => s \in F
    BY <1>4
  <2> QED BY <1>1, <1>3, <2>1, SubsetsIn
<1> QED BY <1>5

(* Packed blocks cover every byte below their total.                       *)
LEMMA PackedCovers ==
  ASSUME NEW C \in Nat, NEW w \in Live(C)
  PROVE  \A s \in SUBSET DOMAIN w : \A c \in Nat : c < SumOf(w, s) =>
           \E o \in s : SumOf(w, Below(s, o)) <= c /\ c < SumOf(w, Below(s, o)) + w[o]
<1> DEFINE F == {s \in SUBSET DOMAIN w : \A c \in Nat : c < SumOf(w, s) =>
                   \E o \in s : SumOf(w, Below(s, o)) <= c /\ c < SumOf(w, Below(s, o)) + w[o]}
<1>1. /\ IsFiniteSet(DOMAIN w)
      /\ \A o \in DOMAIN w : o \in Nat /\ w[o] \in Nat \ {0}
  BY LiveType
<1>2. \A s \in SUBSET DOMAIN w : IsFiniteSet(s) /\ SumOf(w, s) \in Nat
  BY <1>1, SumType
<1>3. {} \in F
  <2>1. SumOf(w, {}) = 0
    BY FS_EmptySet, SumPick
  <2> QED BY <2>1
<1>4. ASSUME NEW s \in SUBSET DOMAIN w, s # {}, \A x \in s : s \ {x} \in F PROVE s \in F
  <2> SUFFICES ASSUME NEW c \in Nat, c < SumOf(w, s)
               PROVE  \E o \in s : SumOf(w, Below(s, o)) <= c /\ c < SumOf(w, Below(s, o)) + w[o]
    OBVIOUS
  <2>1. PICK m \in s : /\ \A x \in s : x <= m
                       /\ Below(s, m) = s \ {m}
                       /\ SumOf(w, s) = w[m] + SumOf(w, s \ {m})
    BY <1>4, LastBlock
  <2>2. SumOf(w, s \ {m}) \in Nat /\ w[m] \in Nat
    BY <1>1, <1>2
  <2>3. CASE c < SumOf(w, s \ {m})
    <3>1. PICK o \in s \ {m} : /\ SumOf(w, Below(s \ {m}, o)) <= c
                               /\ c < SumOf(w, Below(s \ {m}, o)) + w[o]
      BY <1>4, <2>3
    <3>2. Below(s \ {m}, o) = Below(s, o)
      BY <1>1, <2>1 DEF Below
    <3> QED BY <3>1, <3>2
  <2>4. CASE ~(c < SumOf(w, s \ {m}))
    <3>1. PICK b \in Nat : b = SumOf(w, Below(s, m)) /\ SumOf(w, s) = w[m] + b /\ ~(c < b)
      BY <2>1, <2>2, <2>4
    <3>2. b <= c /\ c < b + w[m]
      BY <2>2, <3>1
    <3> QED BY <3>1, <3>2
  <2> QED BY <2>3, <2>4
<1>5. SUBSET DOMAIN w \subseteq F
  <2> HIDE DEF F
  <2> QED BY <1>1, <1>3, <1>4, SubsetsIn
<1> QED BY <1>5

(* The packed offset of block o.                                           *)
Packed(w, o) == SumOf(w, Below(DOMAIN w, o))

(* It is the one the code computes.                                        *)
LEMMA PackedIs ==
  ASSUME NEW a, NEW o
  PROVE  PackedOffset(a, o) = Packed(a.allocated, o)
BY DEF PackedOffset, Packed, SumOf, Below, MapThenSumSet, MapThenFoldSet

(* Packed blocks stay in their order, apart, at or below where they were.  *)
LEMMA PackedApart ==
  ASSUME NEW C \in Nat, NEW w \in Live(C), Apart(w, C)
  PROVE  /\ \A o \in DOMAIN w : Packed(w, o) \in Nat /\ Packed(w, o) <= o
         /\ \A o, q \in DOMAIN w : o < q => Packed(w, o) + w[o] <= Packed(w, q)
         /\ \A o \in DOMAIN w : Packed(w, o) + w[o] <= SumOf(w, DOMAIN w)
         /\ SumOf(w, DOMAIN w) \in Nat /\ SumOf(w, DOMAIN w) <= C
<1>1. /\ DOMAIN w \subseteq 0..(C - 1) /\ IsFiniteSet(DOMAIN w)
      /\ \A o \in DOMAIN w : o \in Nat /\ w[o] \in Nat \ {0} /\ w[o] \in Nat
  BY LiveType
<1>2. \A s \in SUBSET DOMAIN w : IsFiniteSet(s) /\ SumOf(w, s) \in Nat
  BY <1>1, SumType
<1>3. \A o : Below(DOMAIN w, o) \in SUBSET DOMAIN w
  BY DEF Below
<1>4. ASSUME NEW o \in DOMAIN w PROVE Packed(w, o) \in Nat /\ Packed(w, o) <= o
  <2>1. \A x \in Below(DOMAIN w, o) : x + w[x] <= o
    BY DEF Below, Apart
  <2>2. o \in Nat
    BY <1>1
  <2>3. SumOf(w, Below(DOMAIN w, o)) <= o
    BY <1>3, <2>1, <2>2, PackedFits
  <2> QED BY <1>2, <1>3, <2>3 DEF Packed
<1>5. ASSUME NEW o \in DOMAIN w, NEW t \in SUBSET DOMAIN w, o \in t, Below(DOMAIN w, o) \subseteq t
      PROVE  Packed(w, o) + w[o] <= SumOf(w, t)
  <2>1. PICK s : s = Below(DOMAIN w, o) \cup {o}
    OBVIOUS
  <2>2. s \in SUBSET t /\ s \ {o} = Below(DOMAIN w, o) /\ o \in s /\ s \in SUBSET DOMAIN w
    BY <1>1, <1>5, <2>1 DEF Below
  <2>3. SumOf(w, s) <= SumOf(w, t)
    BY <1>1, <2>2, SumMonotonic
  <2>4. SumOf(w, s) = w[o] + SumOf(w, s \ {o})
    BY <1>1, <1>2, <2>2, SumRemove
  <2>5. Packed(w, o) = SumOf(w, s \ {o})
    BY <2>2 DEF Packed
  <2>6. Packed(w, o) \in Nat /\ w[o] \in Nat
    BY <1>1, <1>4
  <2> QED BY <2>3, <2>4, <2>5, <2>6
<1>6. ASSUME NEW o \in DOMAIN w, NEW q \in DOMAIN w, o < q PROVE Packed(w, o) + w[o] <= Packed(w, q)
  <2>1. o \in Below(DOMAIN w, q) /\ Below(DOMAIN w, o) \subseteq Below(DOMAIN w, q)
    BY <1>1, <1>6 DEF Below
  <2>2. Packed(w, o) + w[o] <= SumOf(w, Below(DOMAIN w, q))
    BY <1>3, <1>5, <2>1
  <2> QED BY <2>2 DEF Packed
<1>7. \A o \in DOMAIN w : Packed(w, o) + w[o] <= SumOf(w, DOMAIN w)
  BY <1>3, <1>5
<1>8. SumOf(w, DOMAIN w) <= C
  <2>1. \A x \in DOMAIN w : x + w[x] <= C
    BY DEF Apart
  <2>2. DOMAIN w \in SUBSET DOMAIN w
    OBVIOUS
  <2> QED BY <2>1, <2>2, PackedFits
<1> QED BY <1>2, <1>4, <1>6, <1>7, <1>8
(* The books of v are those of w with every block at its packed offset.    *)
PackedTo(v, w) ==
  /\ DOMAIN v = {Packed(w, o) : o \in DOMAIN w}
  /\ \A o \in DOMAIN w : v[Packed(w, o)] = w[o]

(* Moving blocks does not change what they add up to.                      *)
LEMMA PackedTotal ==
  ASSUME NEW C \in Nat, NEW w \in Live(C), Apart(w, C), NEW v, PackedTo(v, w)
  PROVE  SumOf(v, DOMAIN v) = SumOf(w, DOMAIN w)
<1>1. /\ IsFiniteSet(DOMAIN w)
      /\ \A o \in DOMAIN w : o \in Nat /\ w[o] \in Nat /\ w[o] # 0
  BY LiveType
<1>2. /\ \A o \in DOMAIN w : Packed(w, o) \in Nat
      /\ \A o, q \in DOMAIN w : o < q => Packed(w, o) + w[o] <= Packed(w, q)
  BY PackedApart
<1>3. PICK h : h = [o \in DOMAIN w |-> Packed(w, o)]
  OBVIOUS
<1>4. ASSUME NEW o \in DOMAIN w, NEW q \in DOMAIN w, h[o] = h[q] PROVE o = q
  <2>1. ~(o < q) /\ ~(q < o)
    BY <1>1, <1>2, <1>3, <1>4
  <2> QED BY <1>1, <2>1
<1>5. \A o \in DOMAIN w : w[o] \in Nat /\ v[h[o]] = w[o]
  BY <1>1, <1>3 DEF PackedTo
<1>6. {h[o] : o \in DOMAIN w} = DOMAIN v
  BY <1>3 DEF PackedTo
<1>7. SumOf(v, {h[o] : o \in DOMAIN w}) = SumOf(w, DOMAIN w)
  BY <1>1, <1>4, <1>5, SumReindex
<1> QED BY <1>6, <1>7

(* The first block is packed at 0, and the next one after block p where p  *)
(* ends.                                                                   *)
LEMMA PackedNext ==
  ASSUME NEW C \in Nat, NEW w \in Live(C), NEW o \in DOMAIN w
  PROVE  /\ Below(DOMAIN w, o) = {} => Packed(w, o) = 0
         /\ \A p \in Below(DOMAIN w, o) :
              (\A x \in Below(DOMAIN w, o) : x <= p) => Packed(w, o) = Packed(w, p) + w[p]
<1>1. /\ IsFiniteSet(DOMAIN w)
      /\ \A x \in DOMAIN w : x \in Nat /\ w[x] \in Nat
  BY LiveType
<1>2. SumOf(w, {}) = 0
  BY FS_EmptySet, SumPick
<1>3. ASSUME NEW p \in Below(DOMAIN w, o), \A x \in Below(DOMAIN w, o) : x <= p
      PROVE  Packed(w, o) = Packed(w, p) + w[p]
  <2>1. PICK s : s = Below(DOMAIN w, o)
    OBVIOUS
  <2>2. s \subseteq DOMAIN w /\ p \in s
    BY <2>1 DEF Below
  <2>3. IsFiniteSet(s) /\ \A x \in s : w[x] \in Nat
    BY <1>1, <2>2, FS_Subset
  <2>4. SumOf(w, s) = w[p] + SumOf(w, s \ {p})
    BY <2>2, <2>3, SumRemove
  <2>5. s \ {p} = Below(DOMAIN w, p)
    <3>1. ASSUME NEW x \in s \ {p} PROVE x \in Below(DOMAIN w, p)
      <4>1. x \in DOMAIN w /\ x \in Nat /\ p \in Nat /\ x <= p /\ x # p
        BY <1>1, <1>3, <2>1, <2>2
      <4> QED BY <4>1 DEF Below
    <3>2. ASSUME NEW x \in Below(DOMAIN w, p) PROVE x \in s \ {p}
      BY <1>1, <2>1, <2>2 DEF Below
    <3> QED BY <3>1, <3>2
  <2>6. SumOf(w, s \ {p}) \in Nat /\ w[p] \in Nat
    BY <2>2, <2>3, SumType
  <2>7. Packed(w, o) = SumOf(w, s) /\ Packed(w, p) = SumOf(w, s \ {p})
    BY <2>1, <2>5 DEF Packed
  <2> QED BY <2>4, <2>6, <2>7
<1> QED BY <1>2, <1>3 DEF Packed

(* Balanced books hold blocks apart, below C.                              *)
LEMMA BalancedApart ==
  ASSUME NEW C \in Nat, NEW a, Balanced(a, C)
  PROVE  a.allocated \in Live(C) /\ Apart(a.allocated, C)
<1>1. PICK w \in Live(C) : w = a.allocated /\ Tiled(a.free, w, C)
  BY DEF Balanced
<1>2. \A o \in DOMAIN w : o \in Nat /\ w[o] \in Nat \ {0}
  BY LiveType
<1>3. ASSUME NEW o \in DOMAIN w PROVE o + w[o] <= C
  <2>1. PICK e \in Nat : e = o + w[o] - 1 /\ o <= e /\ e < o + w[o]
    <3>1. o + w[o] - 1 \in Nat /\ o <= o + w[o] - 1 /\ o + w[o] - 1 < o + w[o]
      BY <1>2
    <3> QED BY <3>1
  <2>2. InLive(w, e)
    BY <2>1 DEF InLive
  <2>3. e < C
    BY <1>1, <2>2 DEF Tiled
  <2> QED BY <1>2, <2>1, <2>3
<1> QED BY <1>1, <1>3 DEF Apart, Tiled

(* A rebuilt freelist balances, with every block at its packed offset and  *)
(* every free byte behind them.                                            *)
LEMMA RebuildBalanced ==
  ASSUME NEW C \in Nat, NEW a, Balanced(a, C)
  PROVE  /\ Balanced(FreelistRebuild(a, C), C)
         /\ PackedTo(FreelistRebuild(a, C).allocated, a.allocated)
         /\ FreelistRebuild(a, C).used = a.used
         /\ FreelistRebuild(a, C).free = NonEmpty(<<a.used, C - a.used>>)
         /\ FreelistRebuild(a, C).kind = "Freelist"
<1>1. a \in [kind : {"Freelist"}, free : Seq(Blocks), allocated : Live(C), used : Nat]
  BY DEF Balanced
<1>2. Tiled(a.free, a.allocated, C) /\ a.used = SumOf(a.allocated, DOMAIN a.allocated)
  BY DEF Balanced
<1>3. PICK w \in Live(C) : w = a.allocated
  BY <1>1
<1>4. /\ DOMAIN w \subseteq 0..(C - 1) /\ IsFiniteSet(DOMAIN w)
      /\ \A o \in DOMAIN w : o \in Nat /\ w[o] \in Nat \ {0}
  BY LiveType
<1>5. Apart(w, C)
  BY <1>3, BalancedApart
<1>6. /\ \A o \in DOMAIN w : Packed(w, o) \in Nat /\ Packed(w, o) <= o
      /\ \A o, q \in DOMAIN w : o < q => Packed(w, o) + w[o] <= Packed(w, q)
      /\ \A o \in DOMAIN w : Packed(w, o) + w[o] <= SumOf(w, DOMAIN w)
      /\ SumOf(w, DOMAIN w) \in Nat /\ SumOf(w, DOMAIN w) <= C
  BY <1>5, PackedApart
<1>7. PICK u \in Nat, r \in Nat : u = SumOf(w, DOMAIN w) /\ r = C - u /\ u + r = C /\ u = a.used
  <2>1. C - SumOf(w, DOMAIN w) \in Nat
    BY <1>6
  <2> QED BY <1>2, <1>3, <1>6, <2>1
<1>8. ASSUME NEW o \in DOMAIN w, NEW q \in DOMAIN w, Packed(w, o) = Packed(w, q) PROVE o = q
  <2>1. ~(o < q) /\ ~(q < o)
    BY <1>4, <1>6, <1>8
  <2> QED BY <1>4, <2>1
<1>9. PICK v : v = FreelistRebuild(a, C).allocated
  OBVIOUS
<1>10. FreelistRebuild(a, C)
         = [a EXCEPT !.free = NonEmpty(<<u, r>>),
              !.allocated = [n \in {PackedOffset(a, o) : o \in DOMAIN a.allocated} |->
                a.allocated[CHOOSE o \in DOMAIN a.allocated : PackedOffset(a, o) = n]],
              !.used = u]
  <2>1. MapThenSumSet(LAMBDA o : a.allocated[o], DOMAIN a.allocated) = u
    BY <1>3, <1>7 DEF SumOf, MapThenSumSet, MapThenFoldSet
  <2> QED BY <1>7, <2>1 DEF FreelistRebuild
<1>11. v = [n \in {PackedOffset(a, o) : o \in DOMAIN a.allocated} |->
              a.allocated[CHOOSE o \in DOMAIN a.allocated : PackedOffset(a, o) = n]]
  BY <1>1, <1>9, <1>10
<1>12. PackedTo(v, w)
  <2>1. \A o : PackedOffset(a, o) = Packed(w, o)
    BY <1>3, PackedIs
  <2>2. ASSUME NEW o \in DOMAIN w PROVE v[Packed(w, o)] = w[o]
    <3>1. o \in DOMAIN a.allocated /\ PackedOffset(a, o) = Packed(w, o)
      BY <1>3, <2>1
    <3>2. PICK q : q = CHOOSE x \in DOMAIN a.allocated : PackedOffset(a, x) = Packed(w, o)
      OBVIOUS
    <3>3. q \in DOMAIN a.allocated /\ PackedOffset(a, q) = Packed(w, o)
      BY <3>1, <3>2
    <3>4. q = o
      BY <1>3, <1>8, <2>1, <3>3
    <3>5. v[Packed(w, o)] = a.allocated[q]
      BY <1>11, <3>1, <3>2, Zenon
    <3> QED BY <1>3, <3>4, <3>5
  <2>3. DOMAIN v = {Packed(w, o) : o \in DOMAIN w}
    BY <1>3, <1>11, <2>1
  <2> QED BY <2>2, <2>3 DEF PackedTo
<1>13. v \in Live(C)
  <2>1. DOMAIN v \in SUBSET (0..(C - 1))
    BY <1>4, <1>6, <1>12 DEF PackedTo
  <2>2. \A n \in DOMAIN v : v[n] \in Nat \ {0}
    BY <1>4, <1>12 DEF PackedTo
  <2>3. v \in [DOMAIN v -> Nat \ {0}]
    BY <1>11, <2>2
  <2> QED BY <2>1, <2>3 DEF Live
<1>14. SumOf(v, DOMAIN v) = u
  BY <1>5, <1>7, <1>12, PackedTotal
<1>15. \A c \in Nat : InLive(v, c) <=> c < u
  <2>1. ASSUME NEW c \in Nat, InLive(v, c) PROVE c < u
    <3>1. PICK n \in DOMAIN v : n <= c /\ c < n + v[n]
      BY <2>1 DEF InLive
    <3>2. PICK o \in DOMAIN w : n = Packed(w, o) /\ v[n] = w[o]
      BY <1>12, <3>1 DEF PackedTo
    <3>3. Packed(w, o) \in Nat /\ w[o] \in Nat /\ Packed(w, o) + w[o] <= u
      BY <1>4, <1>6, <1>7
    <3> QED BY <3>1, <3>2, <3>3
  <2>2. ASSUME NEW c \in Nat, c < u PROVE InLive(v, c)
    <3>1. PICK o \in DOMAIN w : Packed(w, o) <= c /\ c < Packed(w, o) + w[o]
      <4>1. DOMAIN w \in SUBSET DOMAIN w /\ c < SumOf(w, DOMAIN w)
        BY <1>7, <2>2
      <4> QED BY <4>1, PackedCovers DEF Packed
    <3> QED BY <1>12, <3>1 DEF PackedTo, InLive
  <2> QED BY <2>1, <2>2
<1>16. ASSUME NEW n \in DOMAIN v, NEW k \in DOMAIN v, n < k PROVE n + v[n] <= k
  <2>1. PICK o \in DOMAIN w : n = Packed(w, o) /\ v[n] = w[o]
    BY <1>12 DEF PackedTo
  <2>2. PICK q \in DOMAIN w : k = Packed(w, q) /\ v[k] = w[q]
    BY <1>12 DEF PackedTo
  <2>3. o \in Nat /\ q \in Nat /\ w[q] \in Nat /\ Packed(w, o) \in Nat /\ Packed(w, q) \in Nat
    BY <1>4, <1>6
  <2>4. o < q
    <3> SUFFICES ASSUME ~(o < q) PROVE FALSE
      OBVIOUS
    <3>1. o # q
      BY <1>16, <2>1, <2>2, <2>3
    <3>2. q < o
      BY <2>3, <3>1
    <3>3. Packed(w, q) + w[q] <= Packed(w, o)
      BY <1>6, <3>2
    <3> QED BY <1>16, <2>1, <2>2, <2>3, <3>3
  <2> QED BY <1>6, <2>1, <2>2, <2>4
<1>17. PICK g : g = NonEmpty(<<u, r>>)
  OBVIOUS
<1>18. FreeList(g, {}) /\ \A c \in Nat : InFree(g, c) <=> (u <= c /\ c < C)
  <2>1. PICK b \in Blocks : b = <<u, r>> /\ b[1] = u /\ b[2] = r /\ End(b) = C
    <3>1. <<u, r>> \in Blocks
      BY DEF Blocks
    <3> QED BY <1>7, <3>1 DEF End
  <2>2. CASE r = 0
    <3>1. g = << >>
      BY <1>17, <2>1, <2>2 DEF NonEmpty
    <3>2. \A c \in Nat : ~(u <= c /\ c < C)
      BY <1>7, <2>2
    <3> QED BY <3>1, <3>2, NoBlock
  <2>3. CASE r # 0
    <3>1. g = <<b>>
      BY <1>17, <2>1, <2>3 DEF NonEmpty
    <3>2. FreeList(g, {}) /\ \A c : InFree(g, c) <=> (b[1] <= c /\ c < End(b))
      BY <2>1, <2>3, <3>1, OneBlock, Zenon
    <3> QED BY <2>1, <3>2
  <2> QED BY <2>2, <2>3
<1>19. Tiled(g, v, C)
  BY <1>7, <1>15, <1>16, <1>18 DEF Tiled
<1>20. FreelistRebuild(a, C) = [kind |-> "Freelist", free |-> g, allocated |-> v, used |-> u]
  BY <1>1, <1>10, <1>11, <1>17
<1>21. Balanced([kind |-> "Freelist", free |-> g, allocated |-> v, used |-> u], C)
  BY <1>13, <1>14, <1>18, <1>19 DEF Balanced, FreeList
<1> QED BY <1>3, <1>7, <1>12, <1>17, <1>20, <1>21

-----------------------------------------------------------------------------
(* First fit finds every gap *)

(* A run of free bytes lies in one block.                                  *)
LEMMA RunInBlock ==
  ASSUME NEW free, FreeList(free, {}), NEW o \in Nat, NEW size \in Nat \ {0},
         \A c \in Nat : o <= c /\ c < o + size => InFree(free, c)
  PROVE  \E k \in DOMAIN free : free[k][1] <= o /\ o + size <= End(free[k])
<1>1. free \in Seq(Blocks) /\ Sorted(free, {}) /\ \A k \in DOMAIN free : free[k][2] # 0
  BY DEF FreeList
<1>2. \A k \in DOMAIN free : free[k][1] \in Nat /\ End(free[k]) \in Nat /\ k \in Nat
  <2> SUFFICES ASSUME NEW k \in DOMAIN free PROVE free[k][1] \in Nat /\ End(free[k]) \in Nat /\ k \in Nat
    OBVIOUS
  <2>1. free[k] \in Blocks /\ k \in Nat
    BY <1>1
  <2> QED BY <2>1 DEF Blocks, End
<1>3. PICK k \in DOMAIN free : free[k][1] <= o /\ o < End(free[k])
  <2>1. o <= o /\ o < o + size
    OBVIOUS
  <2>2. InFree(free, o)
    BY <2>1
  <2> QED BY <2>2 DEF InFree
<1>4. ASSUME End(free[k]) < o + size PROVE FALSE
  <2>1. o <= End(free[k]) /\ End(free[k]) \in Nat
    BY <1>2, <1>3
  <2>2. PICK j \in DOMAIN free : free[j][1] <= End(free[k]) /\ End(free[k]) < End(free[j])
    BY <1>4, <2>1 DEF InFree
  <2>3. CASE j < k
    <3>1. End(free[j]) <= free[k][1]
      BY <1>1, <2>3 DEF Sorted
    <3> QED BY <1>2, <1>3, <2>2, <3>1
  <2>4. CASE k < j
    <3>1. End(free[k]) <= free[j][1] /\ End(free[k]) # free[j][1]
      BY <1>1, <2>4 DEF Sorted
    <3> QED BY <1>2, <2>2, <3>1
  <2>5. CASE j = k
    BY <1>2, <2>2, <2>5
  <2> QED BY <1>2, <2>3, <2>4, <2>5
<1> QED BY <1>2, <1>3, <1>4

(* An allocation fails only if no aligned gap is large enough, but for     *)
(* gaps that align_up cannot round to.                                     *)
LEMMA AllocFindsGap ==
  ASSUME NEW C \in 0..MaxU32, NEW a, Balanced(a, C), NEW size \in Nat \ {0}, NEW align \in Nat,
         IsPowerOfTwo(align), NEW o \in Nat, o % align = 0, o + size <= C,
         o + align - 1 <= MaxU32,
         \A c \in Nat : o <= c /\ c < o + size => ~InLive(a.allocated, c)
  PROVE  FreelistAlloc(a, size, align).offset # NoOffset
<1>0. MaxU32 \in Nat /\ C \in Nat /\ align \in Nat \ {0}
  BY MaxU32Assumption, PowerOfTwoPositive
<1>1. a.free \in Seq(Blocks) /\ Tiled(a.free, a.allocated, C)
  BY DEF Balanced
<1>2. FreeList(a.free, {})
  BY <1>0 DEF Balanced
<1>3. \A c \in Nat : o <= c /\ c < o + size => InFree(a.free, c)
  BY <1>0, <1>1 DEF Tiled
<1>4. PICK k \in DOMAIN a.free : a.free[k][1] <= o /\ o + size <= End(a.free[k])
  BY <1>2, <1>3, RunInBlock
(* the block does not overflow, nor does one before it *)
<1>5. ASSUME NEW i \in DOMAIN a.free, i <= k
      PROVE  /\ a.free[i][1] \in Nat /\ a.free[i][2] \in Nat
             /\ a.free[i][1] <= o
             /\ align_up(a.free[i][1], align) \in Nat
             /\ a.free[i][1] <= align_up(a.free[i][1], align)
             /\ align_up(a.free[i][1], align) <= o
             /\ align_up(a.free[i][1], align) # NoOffset
  <2>1. a.free[i] \in Blocks /\ a.free[k] \in Blocks /\ i \in Nat /\ k \in Nat
    BY <1>1
  <2>2. PICK x \in Nat, y \in Nat, u \in Nat :
          x = a.free[i][1] /\ y = a.free[i][2] /\ End(a.free[i]) = x + y /\ u = a.free[k][1]
    BY <2>1 DEF Blocks, End
  <2>3. x <= o
    <3>1. CASE i = k
      BY <1>4, <2>2, <3>1
    <3>2. CASE i < k
      <4>1. End(a.free[i]) <= a.free[k][1]
        BY <1>2, <3>2 DEF FreeList, Sorted
      <4> QED BY <1>4, <2>2, <4>1
    <3> QED BY <1>5, <2>1, <3>1, <3>2
  <2>4. align_up(x, align) # NoOffset
    <3>1. x + (align - 1) <= MaxU32
      BY <1>0, <2>3
    <3>2. align_up(x, align) = ((x + (align - 1)) \div align) * align
      BY <3>1 DEF align_up
    <3>3. PICK n \in Nat \ {0}, v \in Nat : n = align /\ v = x + (align - 1)
      <4>1. x + (align - 1) \in Nat
        BY <1>0
      <4> QED BY <1>0, <4>1
    <3>4. v \div n \in Nat
      OBVIOUS
    <3>5. (v \div n) * n \in Nat
      BY <3>4
    <3> QED BY <3>2, <3>3, <3>5 DEF NoOffset
  <2>5. /\ align_up(x, align) \in Nat /\ align_up(x, align) >= x
        /\ \A q \in Nat : q >= x /\ q % align = 0 => align_up(x, align) <= q
    BY <2>4, AlignUpLeast
  <2>6. align_up(x, align) <= o
    BY <2>3, <2>5
  <2> QED BY <2>2, <2>3, <2>4, <2>5, <2>6
<1>6. ASSUME NEW i \in DOMAIN a.free, i <= k PROVE ~Overflows(a.free[i], size, align)
  <2>1. PICK x \in Nat, v \in Nat : x = a.free[i][1] /\ v = align_up(x, align) /\ x <= v /\ v <= o
                                    /\ v # NoOffset
    BY <1>5, <1>6
  <2>2. Padding(a.free[i], align) = v - x
    BY <2>1 DEF Padding
  <2>3. ~(Padding(a.free[i], align) + size > MaxU32)
    BY <1>0, <2>1, <2>2
  <2> QED BY <2>1, <2>3 DEF Overflows
<1>7. Fits(a.free[k], size, align)
  <2>0. k \in Nat /\ k <= k
    BY <1>1
  <2>1. PICK x \in Nat, y \in Nat, v \in Nat :
          x = a.free[k][1] /\ y = a.free[k][2] /\ v = align_up(x, align) /\ x <= v /\ v <= o
    BY <1>5, <2>0
  <2>2. Padding(a.free[k], align) = v - x /\ o + size <= x + y
    BY <1>4, <2>1 DEF Padding, End
  <2>3. (v - x) + size <= y
    BY <2>1, <2>2
  <2> QED BY <2>1, <2>2, <2>3 DEF Fits
<1> DEFINE Test(b) == Overflows(b, size, align) \/ Fits(b, size, align)
           I == {i \in 1..Len(a.free) : Test(a.free[i])}
           s == SelectInSeq(a.free, LAMBDA b : Overflows(b, size, align) \/ Fits(b, size, align))
<1>8. s = IF I # {} THEN Min(I) ELSE 0
  BY DEF SelectInSeq
<1>9. k \in I /\ I \in SUBSET Nat /\ DOMAIN a.free = 1..Len(a.free) /\ I \subseteq DOMAIN a.free
  BY <1>1, <1>7
<1>10. PICK i \in DOMAIN a.free : i = s /\ i \in I /\ i <= k /\ i # 0 /\ i \in Nat
  <2>1. Min(I) \in I /\ \A y \in I : Min(I) <= y
    <3> HIDE DEF I
    <3> QED BY <1>9, MinProperties
  <2>2. s = Min(I) /\ s \in DOMAIN a.free /\ s \in I /\ s <= k /\ s # 0 /\ s \in Nat
    <3>1. s = Min(I)
      <4> HIDE DEF I, s
      <4> QED BY <1>8, <1>9
    <3>2. \A y \in I : y \in Nat /\ y # 0
      OBVIOUS
    <3> HIDE DEF I, s
    <3> QED BY <1>9, <2>1, <3>1, <3>2
  <2> HIDE DEF I, s
  <2> QED BY <2>2
<1>11. ~Overflows(a.free[i], size, align)
  BY <1>6, <1>10
<1>12. FreelistAlloc(a, size, align).offset = a.free[i][1] + Padding(a.free[i], align)
  BY <1>10, <1>11 DEF FreelistAlloc
<1>13. PICK x \in Nat, v \in Nat : x = a.free[i][1] /\ v = align_up(x, align) /\ x <= v
  BY <1>5, <1>10
<1>14. Padding(a.free[i], align) = v - x
  BY <1>13 DEF Padding
<1> QED BY <1>12, <1>13, <1>14 DEF NoOffset

-----------------------------------------------------------------------------
(* Slabs *)

(* The offsets of the slots.                                               *)
Slots(a) == {x \in Nat : x < a.n_slots * a.class_size /\ x % a.class_size = 0}

(* A slab's slots are in its C bytes, and its stack lists each free slot   *)
(* once.                                                                   *)
Racked(a, C) ==
  /\ a \in [kind : {"Slab"}, class_size : Nat, n_slots : Nat, used : Int, free_slots : Seq(Nat)]
  /\ a.n_slots * a.class_size <= C
  /\ IsInjective(a.free_slots)
  /\ a.class_size # 0 => Range(a.free_slots) \subseteq Slots(a)

(* A new slab has all its slots on the stack.                              *)
LEMMA SlabNewRacked ==
  ASSUME NEW C \in Nat, NEW c \in Nat
  PROVE  /\ Racked(SlabNew(C, c), C)
         /\ SlabNew(C, c).class_size = c
         /\ c # 0 => Range(SlabNew(C, c).free_slots) = Slots(SlabNew(C, c))
<1>1. PICK n \in Nat : n = IF c = 0 THEN 0 ELSE C \div c
  <2>1. c # 0 => C \div c \in Nat
    OBVIOUS
  <2> QED BY <2>1
<1>2. PICK f : f = [i \in 1..n |-> (n - i) * c]
  OBVIOUS
<1>3. \A i \in 1..n : (n - i) \in Nat /\ (n - i) * c \in Nat
  OBVIOUS
<1>4. f \in Seq(Nat) /\ DOMAIN f = 1..n
  BY <1>2, <1>3
<1>5. PICK a : a = SlabNew(C, c)
  OBVIOUS
<1>6. a = [kind |-> "Slab", class_size |-> c, n_slots |-> n, used |-> 0, free_slots |-> f]
  BY <1>1, <1>2, <1>5 DEF SlabNew
<1>7. IsInjective(f)
  <2> SUFFICES ASSUME NEW i \in 1..n, NEW j \in 1..n, f[i] = f[j] PROVE i = j
    BY <1>4 DEF IsInjective
  <2>1. PICK x \in Nat, y \in Nat : x = n - i /\ y = n - j
    BY <1>3
  <2>2. f[i] = c * x /\ f[j] = c * y
    BY <1>2, <2>1
  <2>3. c \in Nat \ {0}
    BY <1>1
  <2>4. PICK u \in Int, v \in Int : u = c * x /\ v = c * y
    <3>1. c * x \in Int /\ c * y \in Int
      OBVIOUS
    <3> QED BY <3>1
  <2>a. u = v
    BY <2>2, <2>4
  <2>5. ~(x > y)
    <3>1. x > y => u >= v + c
      BY <2>3, <2>4, TimesMonotonic
    <3> QED BY <2>3, <2>a, <3>1
  <2>6. ~(y > x)
    <3>1. y > x => v >= u + c
      BY <2>3, <2>4, TimesMonotonic
    <3> QED BY <2>3, <2>a, <3>1
  <2> QED BY <2>1, <2>5, <2>6
<1>8. ASSUME c # 0 PROVE Range(f) = Slots(a)
  <2>0. c \in Nat \ {0}
    BY <1>8
  <2>1. ASSUME NEW i \in 1..n PROVE f[i] \in Slots(a)
    <3>1. PICK x \in Nat : x = n - i
      BY <1>3
    <3>2. c * x \in Int /\ c * n \in Int /\ f[i] = c * x /\ f[i] \in Nat /\ c * n = n * c
      BY <1>2, <1>3, <3>1
    <3>3. c * n >= c * x + c
      <4>1. n > x
        BY <3>1
      <4> QED BY <2>0, <4>1, TimesMonotonic
    <3>4. f[i] < n * c
      BY <2>0, <3>2, <3>3
    <3>5. f[i] % c = 0
      <4>1. f[i] = c * x + 0 /\ 0 \in 0..(c - 1) /\ f[i] \in Int
        BY <2>0, <3>2
      <4> QED BY <2>0, <4>1, RemainderUnique
    <3> QED BY <1>6, <3>2, <3>4, <3>5 DEF Slots
  <2>2. ASSUME NEW x \in Nat, x < n * c, x % c = 0 PROVE x \in Range(f)
    <3>1. PICK q \in Int : x = c * q
      <4>1. x = c * (x \div c) + (x % c) /\ x \div c \in Int
        BY <2>0, Division
      <4>2. c * (x \div c) + 0 = c * (x \div c)
        BY <4>1
      <4> QED BY <2>2, <4>1, <4>2
    <3>2. c * q \in Int /\ c * n \in Int /\ c * n = n * c /\ c * 0 = 0
      OBVIOUS
    <3>3. q < n
      <4>1. CASE q = n
        BY <2>2, <3>1, <3>2, <4>1
      <4>2. CASE q > n
        <5>1. c * q >= c * n + c
          BY <2>0, <4>2, TimesMonotonic
        <5> QED BY <2>0, <2>2, <3>1, <3>2, <5>1
      <4> QED BY <4>1, <4>2
    <3>4. q >= 0
      <4>1. 0 > q => c * 0 >= c * q + c
        BY <2>0, TimesMonotonic
      <4> QED BY <2>0, <3>1, <3>2, <4>1
    <3>5. PICK i \in 1..n : n - i = q
      <4>1. n - q \in 1..n /\ n - (n - q) = q
        BY <3>3, <3>4
      <4> QED BY <4>1
    <3>6. f[i] = x
      BY <1>2, <3>1, <3>5
    <3> QED BY <1>4, <3>6 DEF Range
  <2> QED BY <1>4, <1>6, <2>1, <2>2 DEF Range, Slots
<1>9. n * c <= C
  <2>1. CASE c = 0
    <3>1. n * 0 = 0
      OBVIOUS
    <3> QED BY <2>1, <3>1
  <2>2. CASE c # 0
    <3>1. PICK d \in Nat \ {0} : d = c
      BY <2>2
    <3>2. C % d \in 0..(d - 1) /\ C \div d \in Int /\ C = d * (C \div d) + (C % d)
      BY Division
    <3>3. PICK x \in Int, y \in 0..(d - 1) : x = d * n /\ y = C % d /\ C = x + y
      <4>1. n = C \div d /\ d * n \in Int
        BY <1>1, <3>1
      <4> QED BY <3>2, <4>1
    <3>4. n * c = x
      BY <3>1, <3>3
    <3> QED BY <3>3, <3>4
  <2> QED BY <2>1, <2>2
<1> QED BY <1>4, <1>5, <1>6, <1>7, <1>8, <1>9 DEF Racked

(* Allocating pops a free slot.                                            *)
LEMMA SlabAllocRacked ==
  ASSUME NEW C \in Nat, NEW a, Racked(a, C), NEW size, NEW r, r = SlabAlloc(a, size), r.offset # NoOffset
  PROVE  /\ Racked(r.state, C)
         /\ size = a.class_size /\ a.class_size # 0
         /\ r.state.class_size = a.class_size /\ r.state.n_slots = a.n_slots
         /\ r.offset \in Range(a.free_slots)
         /\ Range(r.state.free_slots) = Range(a.free_slots) \ {r.offset}
<1>1. /\ a \in [kind : {"Slab"}, class_size : Nat, n_slots : Nat, used : Int, free_slots : Seq(Nat)]
      /\ IsInjective(a.free_slots)
      /\ a.n_slots * a.class_size <= C
  BY DEF Racked
<1>2. /\ a.class_size # 0 /\ size = a.class_size /\ a.free_slots # << >>
      /\ r = [offset |-> Last(a.free_slots),
              state |-> [a EXCEPT !.free_slots = Front(@), !.used = @ + a.class_size]]
  BY DEF SlabAlloc
<1>3. PICK s \in Seq(Nat) : s = a.free_slots /\ IsInjective(s) /\ s # << >>
  BY <1>1, <1>2
<1>4. PICK l \in Nat : l = Len(s) /\ l # 0 /\ DOMAIN s = 1..l /\ l - 1 \in 0..l
  BY <1>3
<1>5. PICK t \in Seq(Nat) : t = SubSeq(s, 1, l - 1) /\ IsInjective(t) /\ Range(t) = {s[i] : i \in 1..(l - 1)}
  <2>1. PICK n \in 0..Len(s) : n = l - 1
    BY <1>4
  <2>2. /\ SubSeq(s, 1, n) \in Seq(Nat)
        /\ IsInjective(SubSeq(s, 1, n))
        /\ Range(SubSeq(s, 1, n)) = {s[i] : i \in 1..n}
    BY <1>3, PrefixElements
  <2> QED BY <2>1, <2>2
<1>6. Last(a.free_slots) = s[l] /\ Front(a.free_slots) = t
  BY <1>3, <1>4, <1>5 DEF Last, Front
<1>7. Range(s) = {s[i] : i \in 1..l}
  BY <1>4 DEF Range
<1>8. s[l] \in Range(s) /\ Range(t) = Range(s) \ {s[l]}
  <2>1. \A i \in 1..(l - 1) : i \in 1..l /\ s[i] # s[l]
    <3> SUFFICES ASSUME NEW i \in 1..(l - 1) PROVE i \in 1..l /\ s[i] # s[l]
      OBVIOUS
    <3>1. i \in DOMAIN s /\ l \in DOMAIN s /\ i # l
      BY <1>4
    <3> QED BY <1>3, <1>4, <3>1 DEF IsInjective
  <2>2. \A i \in 1..l : i = l \/ i \in 1..(l - 1)
    BY <1>4
  <2>3. s[l] \in Range(s)
    BY <1>4, <1>7
  <2>4. \A v : v \in Range(t) <=> (v \in Range(s) /\ v # s[l])
    BY <1>5, <1>7, <2>1, <2>2
  <2> QED BY <2>3, <2>4
<1>9. PICK u \in Int : u = a.used + a.class_size
  BY <1>1
<1>10. r.state = [kind |-> "Slab", class_size |-> a.class_size, n_slots |-> a.n_slots,
                  used |-> u, free_slots |-> t]
  <2>1. r.state = [a EXCEPT !.free_slots = t, !.used = u]
    BY <1>1, <1>2, <1>6, <1>9
  <2> QED BY <1>1, <2>1
<1>a. r.offset = s[l]
  BY <1>2, <1>6
<1>11. Slots(r.state) = Slots(a)
  BY <1>10 DEF Slots
<1>12. Racked(r.state, C)
  BY <1>1, <1>3, <1>5, <1>8, <1>10, <1>11 DEF Racked
<1> QED BY <1>2, <1>3, <1>a, <1>8, <1>10, <1>12

(* Freeing pushes a slot that was not free.                                *)
LEMMA SlabDeallocRacked ==
  ASSUME NEW C \in Nat, NEW a, Racked(a, C), NEW o \in Nat, SlabCanFree(a, o)
  PROVE  /\ Racked(SlabDealloc(a, o), C)
         /\ SlabDealloc(a, o).class_size = a.class_size /\ SlabDealloc(a, o).n_slots = a.n_slots
         /\ Range(SlabDealloc(a, o).free_slots) = Range(a.free_slots) \cup {o}
<1>1. /\ a \in [kind : {"Slab"}, class_size : Nat, n_slots : Nat, used : Int, free_slots : Seq(Nat)]
      /\ IsInjective(a.free_slots)
      /\ a.n_slots * a.class_size <= C
  BY DEF Racked
<1>2. PICK s \in Seq(Nat) : s = a.free_slots /\ IsInjective(s)
  BY <1>1
<1>3. PICK t \in Seq(Nat) : t = Append(s, o) /\ Len(t) = Len(s) + 1 /\ t[Len(s) + 1] = o
                            /\ \A i \in 1..Len(s) : t[i] = s[i]
  <2>1. Append(s, o) \in Seq(Nat)
    OBVIOUS
  <2>2. Len(Append(s, o)) = Len(s) + 1 /\ Append(s, o)[Len(s) + 1] = o
        /\ \A i \in 1..Len(s) : Append(s, o)[i] = s[i]
    OBVIOUS
  <2> QED BY <2>1, <2>2
<1>4. PICK l \in Nat : l = Len(s) /\ DOMAIN s = 1..l /\ DOMAIN t = 1..(l + 1)
  BY <1>2, <1>3
<1>5. o \notin Range(s) /\ o \in Slots(a)
  BY <1>2, <1>4 DEF SlabCanFree, Contains, Range, Slots
<1>6. \A i \in DOMAIN t : (i = l + 1 /\ t[i] = o) \/ (i \in DOMAIN s /\ t[i] = s[i])
  BY <1>3, <1>4
<1>7. IsInjective(t)
  <2> SUFFICES ASSUME NEW i \in DOMAIN t, NEW j \in DOMAIN t, t[i] = t[j] PROVE i = j
    BY DEF IsInjective
  <2>1. \A k \in DOMAIN s : s[k] # o
    BY <1>5 DEF Range
  <2> QED BY <1>2, <1>6, <2>1 DEF IsInjective
<1>8. Range(t) = Range(s) \cup {o}
  <2>1. \A i \in DOMAIN s : i \in DOMAIN t /\ t[i] = s[i]
    BY <1>3, <1>4
  <2>2. l + 1 \in DOMAIN t /\ t[l + 1] = o
    BY <1>3, <1>4
  <2> QED BY <1>6, <2>1, <2>2 DEF Range
<1>9. PICK u \in Int : u = a.used - a.class_size
  BY <1>1
<1>10. SlabDealloc(a, o) = [kind |-> "Slab", class_size |-> a.class_size, n_slots |-> a.n_slots,
                            used |-> u, free_slots |-> t]
  <2>1. SlabDealloc(a, o) = [a EXCEPT !.free_slots = t, !.used = u]
    BY <1>1, <1>2, <1>3, <1>9 DEF SlabDealloc
  <2> QED BY <1>1, <2>1
<1>11. Slots([kind |-> "Slab", class_size |-> a.class_size, n_slots |-> a.n_slots,
              used |-> u, free_slots |-> t]) = Slots(a)
  BY DEF Slots
<1>12. Racked([kind |-> "Slab", class_size |-> a.class_size, n_slots |-> a.n_slots,
               used |-> u, free_slots |-> t], C)
  BY <1>1, <1>2, <1>5, <1>7, <1>8, <1>11 DEF Racked
<1> QED BY <1>2, <1>8, <1>10, <1>12

(* Two slots of a slab do not overlap.                                     *)
LEMMA SlotsApart ==
  ASSUME NEW C \in Nat, NEW a, Racked(a, C), a.class_size # 0, NEW o \in Slots(a), NEW q \in Slots(a), o < q
  PROVE  o + a.class_size <= q
<1>1. PICK c \in Nat \ {0} : c = a.class_size
  BY DEF Racked
<1>2. o \in Nat /\ q \in Nat /\ o % c = 0 /\ q % c = 0
  BY <1>1 DEF Slots
<1>3. ASSUME NEW x \in Nat, x % c = 0 PROVE \E p \in Int : x = c * p
  <2>1. x = c * (x \div c) + (x % c) /\ x \div c \in Int
    BY Division
  <2>2. c * (x \div c) + 0 = c * (x \div c)
    BY <2>1
  <2> QED BY <1>3, <2>1, <2>2
<1>4. PICK x, y \in Int : o = c * x /\ q = c * y
  <2>1. PICK x \in Int : o = c * x
    BY <1>2, <1>3
  <2>2. PICK y \in Int : q = c * y
    BY <1>2, <1>3
  <2> QED BY <2>1, <2>2
<1>5. y > x
  <2>1. x > y => c * x >= c * y + c
    BY TimesMonotonic
  <2>2. c * x \in Int /\ c * y \in Int
    OBVIOUS
  <2> QED BY <1>2, <1>4, <2>1, <2>2
<1>6. c * y >= c * x + c
  BY <1>5, TimesMonotonic
<1> QED BY <1>1, <1>2, <1>4, <1>6

(* A slot ends inside the region.                                          *)
LEMMA SlotInside ==
  ASSUME NEW C \in Nat, NEW a, Racked(a, C), a.class_size # 0, NEW o \in Slots(a)
  PROVE  o + a.class_size <= C
<1>1. PICK c \in Nat \ {0}, n \in Nat : c = a.class_size /\ n = a.n_slots /\ n * c <= C
  BY DEF Racked
<1>2. o \in Nat /\ o % c = 0 /\ o < n * c
  BY <1>1 DEF Slots
<1>3. PICK x \in Int : o = c * x
  <2>1. o = c * (o \div c) + (o % c) /\ o \div c \in Int
    BY <1>2, Division
  <2>2. c * (o \div c) + 0 = c * (o \div c)
    BY <2>1
  <2> QED BY <1>2, <2>1, <2>2
<1>4. PICK y \in Int : y = c * n /\ y = n * c
  <2>1. c * n \in Int /\ c * n = n * c
    OBVIOUS
  <2> QED BY <2>1
<1>5. n > x
  <2>1. CASE x = n
    BY <1>2, <1>3, <1>4, <2>1
  <2>2. CASE x > n
    <3>1. c * x >= c * n + c
      BY <2>2, TimesMonotonic
    <3> QED BY <1>2, <1>3, <1>4, <3>1
  <2> QED BY <2>1, <2>2
<1>6. c * n >= c * x + c
  BY <1>5, TimesMonotonic
<1> QED BY <1>1, <1>2, <1>3, <1>4, <1>6
=============================================================================
