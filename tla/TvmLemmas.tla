------------------------------ MODULE TvmLemmas ------------------------------
(***************************************************************************)
(* Facts about numbers, sequences and sums that the proofs of several      *)
(* modules rest on.                                                        *)
(***************************************************************************)
EXTENDS Integers, Sequences, SequencesExt, SequenceTheorems, FiniteSetTheorems,
        WellFoundedInduction, TLAPS

(* A nonempty set of positions has a least element, which Min returns.     *)
LEMMA MinProperties ==
  ASSUME NEW S \in SUBSET Nat, S # {}
  PROVE  Min(S) \in S /\ \A y \in S : Min(S) <= y
<1>1. PICK x \in S : \A y \in S : ~(<<y, x>> \in OpToRel(<, Nat))
  BY NatLessThanWellFounded, WFMin
<1>2. ASSUME NEW y \in S PROVE x <= y
  <2>1. y < x => <<y, x>> \in {ss \in Nat \X Nat : ss[1] < ss[2]}
    OBVIOUS
  <2>2. ~(y < x)
    BY <1>1, <2>1, Zenon DEF OpToRel
  <2> QED BY <2>2
<1> QED BY <1>2 DEF Min

(* A nonempty set of positions below n has a greatest element.             *)
LEMMA MaxProperties ==
  ASSUME NEW n \in Nat, NEW S \in SUBSET (0..n), S # {}
  PROVE  Max(S) \in S /\ \A y \in S : Max(S) >= y
<1> DEFINE T == {n - y : y \in S}
<1>1. T \in SUBSET Nat /\ T # {}
  <2>1. \A y \in S : n - y \in Nat
    OBVIOUS
  <2>2. PICK y \in S : TRUE
    OBVIOUS
  <2> QED BY <2>1, <2>2
<1>2. PICK x \in S : Min(T) = n - x
  BY <1>1, MinProperties
<1>3. \A y \in S : x >= y
  BY <1>1, <1>2, MinProperties
<1> QED BY <1>3 DEF Max

(* A part of a sequence is a sequence over the same set.                   *)
LEMMA SubSeqType ==
  ASSUME NEW S, NEW s \in Seq(S), NEW m \in Nat \ {0}, NEW n \in Nat, n <= Len(s)
  PROVE  SubSeq(s, m, n) \in Seq(S)
<1>1. m \in Int /\ n \in Int
  OBVIOUS
<1>2. ASSUME NEW i \in m..n PROVE s[i] \in S
  <2>1. i \in 1..Len(s)
    BY LenProperties
  <2> QED BY <2>1, ElementOfSeq
<1> QED BY <1>1, <1>2, SubSeqProperties, Zenon

(* The elements of a sequence without its element at position m.           *)
LEMMA RemoveAtElements ==
  ASSUME NEW S, NEW s \in Seq(S), NEW m \in 1..Len(s)
  PROVE  /\ RemoveAt(s, m) \in Seq(S)
         /\ Len(RemoveAt(s, m)) = Len(s) - 1
         /\ \A i \in 1..(Len(s) - 1) : RemoveAt(s, m)[i] = IF i < m THEN s[i] ELSE s[i + 1]
<1> DEFINE a == SubSeq(s, 1, m - 1)
           b == SubSeq(s, m + 1, Len(s))
<1>1. Len(s) \in Nat /\ m \in Nat /\ m - 1 \in Nat /\ m - 1 <= Len(s)
  OBVIOUS
<1>2. a \in Seq(S) /\ b \in Seq(S)
  <2>1. 1 \in Nat \ {0} /\ m + 1 \in Nat \ {0} /\ Len(s) <= Len(s)
    BY <1>1
  <2> QED BY <1>1, <2>1, SubSeqType, Zenon
<1>3. Len(a) = m - 1 /\ \A i \in 1..(m - 1) : a[i] = s[i]
  <2>1. \A i \in 1..(m - 1) : s[i] \in S
    BY <1>1
  <2> QED BY <1>1, <2>1
<1>4. Len(b) = Len(s) - m /\ \A i \in 1..(Len(s) - m) : b[i] = s[m + i]
  <2>1. \A i \in (m + 1)..Len(s) : s[i] \in S
    BY <1>1
  <2> QED BY <1>1, <2>1
<1>5. RemoveAt(s, m) = a \o b
  BY DEF RemoveAt
<1> HIDE DEF a, b
<1>6. /\ a \o b \in Seq(S) /\ Len(a \o b) = Len(a) + Len(b)
      /\ \A i \in 1..(Len(a) + Len(b)) :
           (a \o b)[i] = IF i <= Len(a) THEN a[i] ELSE b[i - Len(a)]
  BY <1>2, ConcatProperties
<1>7. ASSUME NEW i \in 1..(Len(s) - 1)
      PROVE  (a \o b)[i] = IF i < m THEN s[i] ELSE s[i + 1]
  <2>1. CASE i < m
    <3>1. i \in 1..(m - 1) /\ i <= Len(a) /\ i \in 1..(Len(a) + Len(b))
      BY <1>1, <1>3, <1>4, <2>1
    <3> QED BY <1>3, <1>6, <2>1, <3>1
  <2>2. CASE ~(i < m)
    <3>1. /\ ~(i <= Len(a)) /\ i \in 1..(Len(a) + Len(b))
          /\ i - Len(a) \in 1..(Len(s) - m) /\ m + (i - Len(a)) = i + 1
      BY <1>1, <1>3, <1>4, <2>2
    <3> QED BY <1>4, <1>6, <2>2, <3>1
  <2> QED BY <2>1, <2>2
<1> QED BY <1>1, <1>3, <1>4, <1>5, <1>6, <1>7

(* Removing an element from a list without duplicates removes that one and *)
(* no other, and makes no duplicates.                                      *)
LEMMA RemoveFirstElements ==
  ASSUME NEW S, NEW s \in Seq(S), NEW x, IsInjective(s)
  PROVE  /\ RemoveFirst(s, x) \in Seq(S)
         /\ IsInjective(RemoveFirst(s, x))
         /\ Range(RemoveFirst(s, x)) = Range(s) \ {x}
<1>1. CASE ~ \E i \in 1..Len(s) : s[i] = x
  BY <1>1 DEF RemoveFirst, Range
<1>2. CASE \E i \in 1..Len(s) : s[i] = x
  <2> DEFINE I == {i \in 1..Len(s) : s[i] = x}
  <2>1. I \in SUBSET Nat /\ I # {}
    BY <1>2
  <2>2. PICK m \in 1..Len(s) : m = Min(I) /\ s[m] = x
    BY <2>1, MinProperties
  <2>3. RemoveFirst(s, x) = RemoveAt(s, m)
    BY <1>2, <2>1, <2>2 DEF RemoveFirst, SelectInSeq
  <2> HIDE DEF I
  <2>4. PICK q \in Seq(S) : /\ q = RemoveAt(s, m) /\ Len(q) = Len(s) - 1
                            /\ \A i \in 1..(Len(s) - 1) : q[i] = IF i < m THEN s[i] ELSE s[i + 1]
    BY RemoveAtElements
  <2>5. Len(s) \in Nat /\ DOMAIN s = 1..Len(s) /\ DOMAIN q = 1..(Len(s) - 1)
    BY <2>4
  <2>6. ASSUME NEW i \in DOMAIN q, NEW j \in DOMAIN q, q[i] = q[j] PROVE i = j
    <3>1. PICK k \in DOMAIN s : k = (IF i < m THEN i ELSE i + 1) /\ q[i] = s[k]
      BY <2>4, <2>5
    <3>2. PICK l \in DOMAIN s : l = (IF j < m THEN j ELSE j + 1) /\ q[j] = s[l]
      BY <2>4, <2>5
    <3>3. k = l
      BY <2>6, <3>1, <3>2 DEF IsInjective
    <3> QED BY <2>5, <3>1, <3>2, <3>3
  <2>7. ASSUME NEW i \in DOMAIN q PROVE q[i] \in Range(s) /\ q[i] # x
    <3>1. PICK k \in DOMAIN s : k = (IF i < m THEN i ELSE i + 1) /\ q[i] = s[k]
      BY <2>4, <2>5
    <3>2. k # m /\ m \in DOMAIN s
      BY <2>5, <3>1
    <3> QED BY <2>2, <3>1, <3>2 DEF IsInjective, Range
  <2>8. ASSUME NEW k \in DOMAIN s, s[k] # x PROVE s[k] \in Range(q)
    <3>1. PICK i \in DOMAIN q : i = IF k < m THEN k ELSE k - 1
      BY <2>2, <2>5, <2>8
    <3>2. q[i] = s[k]
      BY <2>2, <2>4, <2>5, <2>8, <3>1
    <3> QED BY <3>2 DEF Range
  <2>9. IsInjective(q)
    BY <2>6 DEF IsInjective
  <2>10. Range(q) = Range(s) \ {x}
    <3>1. \A y \in Range(q) : y \in Range(s) \ {x}
      BY <2>7 DEF Range
    <3>2. \A y \in Range(s) \ {x} : y \in Range(q)
      BY <2>8 DEF Range
    <3> QED BY <3>1, <3>2
  <2> QED BY <2>3, <2>4, <2>9, <2>10
<1> QED BY <1>1, <1>2

(* An element put before a list that does not hold it makes no duplicate.  *)
LEMMA PushElements ==
  ASSUME NEW S, NEW s \in Seq(S), NEW x \in S, IsInjective(s), x \notin Range(s)
  PROVE  /\ <<x>> \o s \in Seq(S)
         /\ IsInjective(<<x>> \o s)
         /\ Range(<<x>> \o s) = Range(s) \cup {x}
<1>1. PICK q \in Seq(S) : /\ q = <<x>> \o s /\ Len(q) = Len(s) + 1 /\ q[1] = x
                          /\ \A i \in 1..Len(s) : q[i + 1] = s[i]
  <2>1. PICK o \in Seq(S) : o = <<x>> /\ Len(o) = 1 /\ o[1] = x
    <3>1. <<x>> \in Seq(S)
      OBVIOUS
    <3>2. Len(<<x>>) = 1 /\ <<x>>[1] = x
      OBVIOUS
    <3> QED BY <3>1, <3>2, Zenon
  <2>2. /\ o \o s \in Seq(S) /\ Len(o \o s) = Len(o) + Len(s)
        /\ \A i \in 1..(Len(o) + Len(s)) :
             (o \o s)[i] = IF i <= Len(o) THEN o[i] ELSE s[i - Len(o)]
    BY ConcatProperties
  <2>3. Len(o \o s) = Len(s) + 1 /\ (o \o s)[1] = x /\ Len(s) \in Nat
    BY <2>1, <2>2
  <2>4. ASSUME NEW i \in 1..Len(s) PROVE (o \o s)[i + 1] = s[i]
    <3>1. i + 1 \in 1..(Len(o) + Len(s)) /\ ~(i + 1 <= Len(o)) /\ (i + 1) - Len(o) = i
      BY <2>1
    <3> QED BY <2>2, <3>1
  <2> QED BY <2>1, <2>2, <2>3, <2>4
<1>2. Len(s) \in Nat /\ DOMAIN s = 1..Len(s) /\ DOMAIN q = 1..(Len(s) + 1)
  BY <1>1
<1>3. ASSUME NEW i \in DOMAIN q, i # 1 PROVE i - 1 \in DOMAIN s /\ q[i] = s[i - 1]
  <2>1. i - 1 \in 1..Len(s) /\ (i - 1) + 1 = i
    BY <1>2, <1>3
  <2> QED BY <1>1, <1>2, <2>1
<1>4. IsInjective(q)
  <2> SUFFICES ASSUME NEW i \in DOMAIN q, NEW j \in DOMAIN q, q[i] = q[j] PROVE i = j
    BY DEF IsInjective
  <2>1. i # 1 => q[i] \in Range(s)
    BY <1>3 DEF Range
  <2>2. j # 1 => q[j] \in Range(s)
    BY <1>3 DEF Range
  <2>3. CASE i = 1 \/ j = 1
    BY <1>1, <2>1, <2>2, <2>3
  <2>4. CASE i # 1 /\ j # 1
    <3>1. i - 1 = j - 1
      BY <1>3, <2>4 DEF IsInjective
    <3> QED BY <1>2, <3>1
  <2> QED BY <2>3, <2>4
<1>5. ASSUME NEW y \in Range(s) PROVE y \in Range(q)
  <2>1. PICK i \in DOMAIN s : y = s[i]
    BY <1>5 DEF Range
  <2>2. i + 1 \in DOMAIN q /\ q[i + 1] = y
    BY <1>1, <1>2, <2>1
  <2> QED BY <2>2 DEF Range
<1>6. 1 \in DOMAIN q /\ x \in Range(q)
  BY <1>1, <1>2 DEF Range
<1>7. ASSUME NEW y \in Range(q) PROVE y \in Range(s) \cup {x}
  <2>1. PICK i \in DOMAIN q : y = q[i]
    BY <1>7 DEF Range
  <2> QED BY <1>1, <1>3, <2>1 DEF Range
<1>8. Range(q) = Range(s) \cup {x}
  BY <1>5, <1>6, <1>7
<1> QED BY <1>1, <1>4, <1>8

(* Lists without their first element.                                      *)
LEMMA TailElements ==
  ASSUME NEW S, NEW s \in Seq(S), s # << >>
  PROVE  /\ Tail(s) \in Seq(S) /\ Head(s) \in S /\ Head(s) = s[1] /\ 1 \in DOMAIN s
         /\ \A i \in DOMAIN Tail(s) : i \in Nat \ {0} /\ i + 1 \in DOMAIN s /\ Tail(s)[i] = s[i + 1]
         /\ \A i \in DOMAIN s : i \in Nat /\ (i # 1 => i - 1 \in DOMAIN Tail(s) /\ Tail(s)[i - 1] = s[i])
         /\ ToSet(s) = {Head(s)} \cup ToSet(Tail(s))
<1>1. PICK n \in Nat \ {0} : n = Len(s) /\ DOMAIN s = 1..n
  BY EmptySeq
<1>2. Tail(s) \in Seq(S) /\ DOMAIN Tail(s) = 1..(n - 1) /\ \A i \in 1..(n - 1) : Tail(s)[i] = s[i + 1]
  BY <1>1, HeadTailProperties
<1>3. Head(s) = s[1] /\ 1 \in DOMAIN s /\ s[1] \in S
  BY <1>1
<1>4. \A i \in DOMAIN Tail(s) : i \in Nat \ {0} /\ i + 1 \in DOMAIN s /\ Tail(s)[i] = s[i + 1]
  BY <1>1, <1>2
<1>5. \A i \in DOMAIN s : i \in Nat /\ (i # 1 => i - 1 \in DOMAIN Tail(s) /\ Tail(s)[i - 1] = s[i])
  <2> SUFFICES ASSUME NEW i \in DOMAIN s
               PROVE  i \in Nat /\ (i # 1 => i - 1 \in DOMAIN Tail(s) /\ Tail(s)[i - 1] = s[i])
    OBVIOUS
  <2>1. i \in Nat /\ (i # 1 => i - 1 \in 1..(n - 1) /\ (i - 1) + 1 = i)
    BY <1>1
  <2> QED BY <1>2, <2>1
<1>6. ToSet(s) = {Head(s)} \cup ToSet(Tail(s))
  <2>1. ASSUME NEW x \in ToSet(s) PROVE x = Head(s) \/ x \in ToSet(Tail(s))
    <3>1. PICK i \in DOMAIN s : x = s[i]
      BY <2>1 DEF ToSet
    <3> QED BY <1>3, <1>5, <3>1 DEF ToSet
  <2>2. ASSUME NEW x \in ToSet(Tail(s)) PROVE x \in ToSet(s)
    <3>1. PICK i \in DOMAIN Tail(s) : x = Tail(s)[i]
      BY <2>2 DEF ToSet
    <3> QED BY <1>4, <3>1 DEF ToSet
  <2>3. Head(s) \in ToSet(s)
    BY <1>3 DEF ToSet
  <2> QED BY <2>1, <2>2, <2>3
<1> QED BY <1>2, <1>3, <1>4, <1>5, <1>6

(* Lists with one element more.                                            *)
LEMMA AppendElements ==
  ASSUME NEW S, NEW s \in Seq(S), NEW x \in S
  PROVE  /\ Append(s, x) \in Seq(S)
         /\ \E n \in Nat : /\ DOMAIN s = 1..n /\ DOMAIN Append(s, x) = 1..(n + 1)
                           /\ Append(s, x)[n + 1] = x
                           /\ \A i \in 1..n : Append(s, x)[i] = s[i]
         /\ ToSet(Append(s, x)) = ToSet(s) \cup {x}
<1>1. PICK n \in Nat : n = Len(s) /\ DOMAIN s = 1..n
  OBVIOUS
<1>2. /\ Append(s, x) \in Seq(S) /\ DOMAIN Append(s, x) = 1..(n + 1)
      /\ Append(s, x)[n + 1] = x /\ \A i \in 1..n : Append(s, x)[i] = s[i]
  BY <1>1
<1>3. 1..(n + 1) = 1..n \cup {n + 1}
  OBVIOUS
<1>4. ToSet(Append(s, x)) = ToSet(s) \cup {x}
  BY <1>1, <1>2, <1>3 DEF ToSet
<1> QED BY <1>1, <1>2, <1>4

(* Taking the first element off makes no duplicates.                       *)
LEMMA TailOnce ==
  ASSUME NEW S, NEW s \in Seq(S), s # << >>, IsInjective(s)
  PROVE  IsInjective(Tail(s)) /\ Range(Tail(s)) = Range(s) \ {s[1]} /\ s[1] \in Range(s)
<1>1. /\ Head(s) = s[1] /\ 1 \in DOMAIN s
      /\ \A i \in DOMAIN Tail(s) : i \in Nat \ {0} /\ i + 1 \in DOMAIN s /\ Tail(s)[i] = s[i + 1]
      /\ \A i \in DOMAIN s : i \in Nat /\ (i # 1 => i - 1 \in DOMAIN Tail(s) /\ Tail(s)[i - 1] = s[i])
  BY TailElements
<1>2. ASSUME NEW i \in DOMAIN Tail(s), NEW j \in DOMAIN Tail(s), Tail(s)[i] = Tail(s)[j] PROVE i = j
  <2>1. i + 1 = j + 1
    BY <1>1, <1>2 DEF IsInjective
  <2> QED BY <1>1, <2>1
<1>3. ASSUME NEW i \in DOMAIN Tail(s) PROVE Tail(s)[i] \in Range(s) \ {s[1]}
  <2>1. i + 1 \in DOMAIN s /\ i + 1 # 1 /\ Tail(s)[i] = s[i + 1]
    BY <1>1
  <2> QED BY <1>1, <2>1 DEF IsInjective, Range
<1>4. ASSUME NEW x \in Range(s) \ {s[1]} PROVE x \in Range(Tail(s))
  <2>1. PICK i \in DOMAIN s : x = s[i] /\ i # 1
    BY DEF Range
  <2> QED BY <1>1, <2>1 DEF Range
<1>5. Range(Tail(s)) = Range(s) \ {s[1]}
  <2>1. \A x \in Range(Tail(s)) : x \in Range(s) \ {s[1]}
    BY <1>3 DEF Range
  <2> QED BY <1>4, <2>1
<1> QED BY <1>1, <1>2, <1>5 DEF IsInjective, Range

(* Nor does adding an element that is not there yet.                       *)
LEMMA AppendOnce ==
  ASSUME NEW S, NEW s \in Seq(S), NEW x \in S, IsInjective(s), x \notin Range(s)
  PROVE  IsInjective(Append(s, x)) /\ Range(Append(s, x)) = Range(s) \cup {x}
<1>1. PICK n \in Nat : /\ DOMAIN s = 1..n /\ DOMAIN Append(s, x) = 1..(n + 1)
                      /\ Append(s, x)[n + 1] = x
                      /\ \A i \in 1..n : Append(s, x)[i] = s[i]
  BY AppendElements
<1>2. PICK q : q = Append(s, x)
  OBVIOUS
<1>3. ASSUME NEW i \in 1..(n + 1), i # n + 1
      PROVE  i \in DOMAIN s /\ q[i] = s[i] /\ q[i] \in Range(s)
  <2>1. i \in 1..n
    BY <1>3
  <2> QED BY <1>1, <1>2, <2>1 DEF Range
<1>4. ASSUME NEW i \in DOMAIN q, NEW j \in DOMAIN q, q[i] = q[j] PROVE i = j
  <2>1. i \in 1..(n + 1) /\ j \in 1..(n + 1) /\ q[n + 1] = x
    BY <1>1, <1>2
  <2>2. CASE i = n + 1 \/ j = n + 1
    BY <1>3, <1>4, <2>1, <2>2
  <2>3. CASE i # n + 1 /\ j # n + 1
    BY <1>3, <1>4, <2>1, <2>3 DEF IsInjective
  <2> QED BY <2>2, <2>3
<1>5. Range(q) = Range(s) \cup {x}
  <2>1. ToSet(q) = ToSet(s) \cup {x}
    BY <1>2, AppendElements
  <2> QED BY <2>1 DEF ToSet, Range
<1> QED BY <1>2, <1>4, <1>5 DEF IsInjective

(* Two lists without duplicates and with no common element, one after the  *)
(* other.                                                                  *)
LEMMA ConcatOnce ==
  ASSUME NEW S, NEW s \in Seq(S), NEW t \in Seq(S), IsInjective(s), IsInjective(t),
         Range(s) \cap Range(t) = {}
  PROVE  /\ s \o t \in Seq(S) /\ IsInjective(s \o t) /\ Range(s \o t) = Range(s) \cup Range(t)
         /\ \A i \in DOMAIN (s \o t) :
              \/ (s \o t)[i] \in Range(s) /\ i <= Len(s)
              \/ (s \o t)[i] \in Range(t) /\ i > Len(s)
<1>1. PICK m \in Nat, n \in Nat : m = Len(s) /\ n = Len(t) /\ DOMAIN s = 1..m /\ DOMAIN t = 1..n
  OBVIOUS
<1>2. PICK q : /\ q = s \o t /\ q \in Seq(S) /\ DOMAIN q = 1..(m + n)
               /\ \A i \in 1..(m + n) : q[i] = IF i <= m THEN s[i] ELSE t[i - m]
  <2>1. PICK q \in Seq(S) : /\ q = s \o t /\ Len(q) = Len(s) + Len(t)
                            /\ \A i \in 1..(Len(s) + Len(t)) :
                                 q[i] = IF i <= Len(s) THEN s[i] ELSE t[i - Len(s)]
    <3>1. /\ s \o t \in Seq(S) /\ Len(s \o t) = Len(s) + Len(t)
          /\ \A i \in 1..(Len(s) + Len(t)) :
               (s \o t)[i] = IF i <= Len(s) THEN s[i] ELSE t[i - Len(s)]
      BY ConcatProperties
    <3> QED BY <3>1, Zenon
  <2>2. DOMAIN q = 1..(m + n)
    BY <1>1, <2>1
  <2> QED BY <1>1, <2>1, <2>2
<1>3. ASSUME NEW i \in DOMAIN q, i <= m PROVE i \in DOMAIN s /\ q[i] = s[i] /\ q[i] \in Range(s)
  <2>1. i \in DOMAIN s
    BY <1>1, <1>2, <1>3
  <2> QED BY <1>2, <1>3, <2>1 DEF Range
<1>4. ASSUME NEW i \in DOMAIN q, ~(i <= m)
      PROVE  i - m \in DOMAIN t /\ q[i] = t[i - m] /\ q[i] \in Range(t) /\ i > m
  <2>1. i - m \in DOMAIN t /\ i > m
    BY <1>1, <1>2, <1>4
  <2> QED BY <1>2, <1>4, <2>1 DEF Range
<1>5. ASSUME NEW i \in DOMAIN q, NEW j \in DOMAIN q, q[i] = q[j] PROVE i = j
  <2>1. CASE i <= m /\ j <= m
    BY <1>3, <1>5, <2>1 DEF IsInjective
  <2>2. CASE ~(i <= m) /\ ~(j <= m)
    <3>1. i - m = j - m
      BY <1>4, <1>5, <2>2 DEF IsInjective
    <3> QED BY <1>1, <1>2, <3>1
  <2>3. CASE i <= m <=> ~(j <= m)
    BY <1>3, <1>4, <1>5, <2>3
  <2> QED BY <2>1, <2>2, <2>3
<1>6. ASSUME NEW x \in Range(s) PROVE x \in Range(q)
  <2>1. PICK i \in DOMAIN s : x = s[i]
    BY DEF Range
  <2>2. i \in DOMAIN q /\ q[i] = x
    BY <1>1, <1>2, <2>1
  <2> QED BY <2>2 DEF Range
<1>7. ASSUME NEW x \in Range(t) PROVE x \in Range(q)
  <2>1. PICK i \in DOMAIN t : x = t[i]
    BY DEF Range
  <2>2. m + i \in 1..(m + n) /\ ~(m + i <= m) /\ (m + i) - m = i
    BY <1>1
  <2> QED BY <1>2, <2>1, <2>2 DEF Range
<1>8. Range(q) = Range(s) \cup Range(t)
  <2>1. \A x \in Range(q) : x \in Range(s) \cup Range(t)
    BY <1>3, <1>4 DEF Range
  <2> QED BY <1>6, <1>7, <2>1
<1> QED BY <1>1, <1>2, <1>3, <1>4, <1>5, <1>8 DEF IsInjective

(* The first n elements of a list.                                         *)
LEMMA PrefixElements ==
  ASSUME NEW S, NEW s \in Seq(S), NEW n \in 0..Len(s)
  PROVE  /\ SubSeq(s, 1, n) \in Seq(S)
         /\ IsInjective(s) => IsInjective(SubSeq(s, 1, n))
         /\ Range(SubSeq(s, 1, n)) = {s[i] : i \in 1..n}
<1>1. PICK q \in Seq(S) : /\ q = SubSeq(s, 1, n) /\ Len(q) = n
                          /\ \A i \in 1..n : q[i] = s[i]
  <2>1. 1 \in Nat \ {0} /\ n \in Nat /\ n <= Len(s)
    OBVIOUS
  <2>2. SubSeq(s, 1, n) \in Seq(S)
    BY <2>1, SubSeqType, Zenon
  <2>3. \A i \in 1..n : s[i] \in S
    BY <2>1
  <2>4. Len(SubSeq(s, 1, n)) = n /\ \A i \in 1..n : SubSeq(s, 1, n)[i] = s[i]
    BY <2>1, <2>3
  <2> QED BY <2>2, <2>4
<1>2. DOMAIN q = 1..n /\ DOMAIN s = 1..Len(s) /\ 1..n \subseteq 1..Len(s)
  BY <1>1
<1>3. IsInjective(s) => IsInjective(q)
  BY <1>1, <1>2 DEF IsInjective
<1>4. Range(q) = {s[i] : i \in 1..n}
  BY <1>1, <1>2 DEF Range
<1> QED BY <1>1, <1>3, <1>4

(* The list s with its elements m + 1 .. n - 1 replaced by the list t.      *)
Splice(s, m, t, n) == (SubSeq(s, 1, m) \o t) \o SubSeq(s, n, Len(s))

(* What stands where in a spliced list.                                    *)
LEMMA SpliceElements ==
  ASSUME NEW S, NEW s \in Seq(S), NEW t \in Seq(S),
         NEW n \in 1..(Len(s) + 1), NEW m \in 0..(n - 1)
  PROVE  /\ Splice(s, m, t, n) \in Seq(S)
         /\ Len(Splice(s, m, t, n)) = m + Len(t) + (Len(s) - n + 1)
         /\ \A k \in 1..m : Splice(s, m, t, n)[k] = s[k]
         /\ \A k \in 1..Len(t) : Splice(s, m, t, n)[m + k] = t[k]
         /\ \A k \in n..Len(s) : Splice(s, m, t, n)[m + Len(t) + (k - n + 1)] = s[k]
<1>1. Len(s) \in Nat /\ Len(t) \in Nat /\ m \in Nat /\ n \in Nat \ {0} /\ m <= Len(s)
  OBVIOUS
<1>2. PICK a \in Seq(S) : a = SubSeq(s, 1, m) /\ Len(a) = m /\ \A k \in 1..m : a[k] = s[k]
  <2>1. SubSeq(s, 1, m) \in Seq(S)
    <3>1. 1 \in Nat \ {0}
      OBVIOUS
    <3> QED BY <1>1, <3>1, SubSeqType, Zenon
  <2>2. \A k \in 1..m : s[k] \in S
    BY <1>1
  <2>3. Len(SubSeq(s, 1, m)) = m /\ \A k \in 1..m : SubSeq(s, 1, m)[k] = s[k]
    BY <1>1, <2>2
  <2> QED BY <2>1, <2>3
<1>3. PICK b \in Seq(S) : /\ b = SubSeq(s, n, Len(s)) /\ Len(b) = Len(s) - n + 1
                          /\ \A k \in n..Len(s) : b[k - n + 1] = s[k]
  <2>1. SubSeq(s, n, Len(s)) \in Seq(S)
    <3>1. Len(s) <= Len(s)
      BY <1>1
    <3> QED BY <1>1, <3>1, SubSeqType, Zenon
  <2>2. \A k \in n..Len(s) : s[k] \in S
    BY <1>1
  <2>3. /\ Len(SubSeq(s, n, Len(s))) = Len(s) - n + 1
        /\ \A i \in 1..(Len(s) - n + 1) : SubSeq(s, n, Len(s))[i] = s[n + i - 1]
    BY <1>1, <2>2
  <2>4. ASSUME NEW k \in n..Len(s) PROVE SubSeq(s, n, Len(s))[k - n + 1] = s[k]
    <3>1. k - n + 1 \in 1..(Len(s) - n + 1) /\ n + (k - n + 1) - 1 = k
      BY <1>1
    <3> QED BY <2>3, <3>1
  <2> QED BY <2>1, <2>3, <2>4
<1>4. PICK c \in Seq(S) : /\ c = a \o t /\ Len(c) = m + Len(t)
                          /\ \A i \in 1..(m + Len(t)) : c[i] = IF i <= m THEN a[i] ELSE t[i - m]
  <2>1. /\ a \o t \in Seq(S) /\ Len(a \o t) = Len(a) + Len(t)
        /\ \A i \in 1..(Len(a) + Len(t)) :
             (a \o t)[i] = IF i <= Len(a) THEN a[i] ELSE t[i - Len(a)]
    BY ConcatProperties
  <2>2. PICK c \in Seq(S) : /\ c = a \o t /\ Len(c) = Len(a) + Len(t)
                            /\ \A i \in 1..(Len(a) + Len(t)) :
                                 c[i] = IF i <= Len(a) THEN a[i] ELSE t[i - Len(a)]
    BY <2>1, Zenon
  <2>3. Len(a) = m
    BY <1>2
  <2> QED BY <2>2, <2>3, Zenon
<1>5. PICK q \in Seq(S) : /\ q = c \o b /\ Len(q) = Len(c) + Len(b)
                          /\ \A i \in 1..(Len(c) + Len(b)) :
                               q[i] = IF i <= Len(c) THEN c[i] ELSE b[i - Len(c)]
  <2>1. /\ c \o b \in Seq(S) /\ Len(c \o b) = Len(c) + Len(b)
        /\ \A i \in 1..(Len(c) + Len(b)) :
             (c \o b)[i] = IF i <= Len(c) THEN c[i] ELSE b[i - Len(c)]
    BY ConcatProperties
  <2> QED BY <2>1, Zenon
<1>6. Len(q) = m + Len(t) + (Len(s) - n + 1)
  BY <1>1, <1>3, <1>4, <1>5
<1>7. ASSUME NEW k \in 1..m PROVE q[k] = s[k]
  <2>1. k \in 1..(Len(c) + Len(b)) /\ k <= Len(c) /\ k \in 1..(m + Len(t)) /\ k <= m
    BY <1>1, <1>3, <1>4
  <2> QED BY <1>2, <1>4, <1>5, <2>1
<1>8. ASSUME NEW k \in 1..Len(t) PROVE q[m + k] = t[k]
  <2>1. /\ m + k \in 1..(Len(c) + Len(b)) /\ m + k <= Len(c)
        /\ m + k \in 1..(m + Len(t)) /\ ~(m + k <= m) /\ (m + k) - m = k
    BY <1>1, <1>3, <1>4
  <2> QED BY <1>4, <1>5, <2>1
<1>9. ASSUME NEW k \in n..Len(s) PROVE q[m + Len(t) + (k - n + 1)] = s[k]
  <2>0. m + Len(t) + (k - n + 1) \in Int
    BY <1>1
  <2>1. PICK i \in Int : i = m + Len(t) + (k - n + 1)
    BY <2>0
  <2>2. i \in 1..(Len(c) + Len(b)) /\ ~(i <= Len(c)) /\ i - Len(c) = k - n + 1
    BY <1>1, <1>3, <1>4, <2>1
  <2> QED BY <1>3, <1>5, <2>1, <2>2
<1>10. q = Splice(s, m, t, n)
  BY <1>2, <1>3, <1>4, <1>5 DEF Splice
<1> QED BY <1>6, <1>7, <1>8, <1>9, <1>10, Zenon

-----------------------------------------------------------------------------
(* Remainders, for a divisor that is not a numeral *)

(* A number is the quotient times the divisor, and the remainder.          *)
LEMMA Division ==
  ASSUME NEW n \in Nat \ {0}, NEW a \in Int
  PROVE  /\ a % n \in 0..(n - 1)
         /\ a \div n \in Int
         /\ a = n * (a \div n) + (a % n)
OBVIOUS

(* A larger quotient makes at least one divisor more.                      *)
LEMMA TimesMonotonic ==
  ASSUME NEW n \in Nat \ {0}, NEW p \in Int, NEW q \in Int, p > q
  PROVE  n * p >= n * q + n
OBVIOUS

(* No other number below the divisor is the remainder.                     *)
LEMMA RemainderUnique ==
  ASSUME NEW n \in Nat \ {0}, NEW a \in Int, NEW q \in Int, NEW r \in 0..(n - 1),
         a = n * q + r
  PROVE  a % n = r
<1>1. PICK p \in Int, s \in 0..(n - 1) : a = n * p + s /\ s = a % n
  BY Division
<1>2. n * p \in Int /\ n * q \in Int
  OBVIOUS
<1>3. ~(p > q)
  <2> SUFFICES ASSUME p > q PROVE FALSE
    OBVIOUS
  <2>1. n * p >= n * q + n
    BY TimesMonotonic
  <2> QED BY <1>1, <1>2, <2>1
<1>4. ~(q > p)
  <2> SUFFICES ASSUME q > p PROVE FALSE
    OBVIOUS
  <2>1. n * q >= n * p + n
    BY TimesMonotonic
  <2> QED BY <1>1, <1>2, <2>1
<1>5. p = q
  BY <1>3, <1>4
<1>6. n * p = n * q /\ s \in Int /\ r \in Int
  BY <1>5
<1>7. s = r
  BY <1>1, <1>2, <1>6
<1> QED BY <1>1, <1>7

(* The remainder of the next number.                                       *)
LEMMA RemainderNext ==
  ASSUME NEW n \in Nat \ {0}, NEW a \in Int
  PROVE  (a + 1) % n = IF a % n = n - 1 THEN 0 ELSE (a % n) + 1
<1>1. PICK p \in Int, s \in 0..(n - 1) : a = n * p + s /\ s = a % n
  BY Division
<1>2. CASE s = n - 1
  <2>1. a + 1 = n * (p + 1) + 0 /\ p + 1 \in Int /\ 0 \in 0..(n - 1) /\ a + 1 \in Int
    BY <1>1, <1>2
  <2>2. (a + 1) % n = 0
    BY <2>1, RemainderUnique, Zenon
  <2> QED BY <1>1, <1>2, <2>2
<1>3. CASE s # n - 1
  <2>1. a + 1 = n * p + (s + 1) /\ s + 1 \in 0..(n - 1) /\ a + 1 \in Int
    BY <1>1, <1>3
  <2>2. (a + 1) % n = s + 1
    BY <2>1, RemainderUnique, Zenon
  <2> QED BY <1>1, <1>3, <2>2
<1> QED BY <1>2, <1>3

(* Two numbers have the same remainder when their difference is a multiple *)
(* of the divisor, and only then.                                          *)
LEMMA RemainderEqual ==
  ASSUME NEW n \in Nat \ {0}, NEW a \in Int, NEW b \in Int
  PROVE  (a - b) % n = 0 <=> a % n = b % n
<1>1. PICK p \in Int, s \in 0..(n - 1) : a = n * p + s /\ s = a % n
  BY Division
<1>2. PICK q \in Int, t \in 0..(n - 1) : b = n * q + t /\ t = b % n
  BY Division
<1>3. ASSUME s = t PROVE (a - b) % n = 0
  <2>1. PICK x \in Int, y \in Int, z \in Int :
          x = n * p /\ y = n * q /\ z = n * (p - q) /\ z = x - y
    OBVIOUS
  <2>2. a - b = n * (p - q) + 0
    <3>1. a = x + s /\ b = y + s
      BY <1>1, <1>2, <1>3, <2>1, Zenon
    <3>2. a - b = z + 0
      BY <2>1, <3>1
    <3> QED BY <2>1, <3>2, Zenon
  <2>3. p - q \in Int /\ 0 \in 0..(n - 1) /\ a - b \in Int
    OBVIOUS
  <2> QED BY <2>2, <2>3, RemainderUnique, Zenon
<1>4. ASSUME (a - b) % n = 0 PROVE s = t
  <2>1. PICK k \in Int : a - b = n * k
    <3>1. a - b = n * ((a - b) \div n) + ((a - b) % n) /\ (a - b) \div n \in Int
      BY Division
    <3> QED BY <1>4, <3>1
  <2>2. n * (q + k) = n * q + n * k /\ n * q \in Int /\ n * k \in Int
    OBVIOUS
  <2>3. a = n * (q + k) + t
    BY <1>2, <2>1, <2>2
  <2>4. q + k \in Int
    OBVIOUS
  <2>5. a % n = t
    BY <2>3, <2>4, RemainderUnique, Zenon
  <2> QED BY <1>1, <2>5
<1> QED BY <1>1, <1>2, <1>3, <1>4

(* Two numbers less than the divisor apart have different remainders.      *)
LEMMA RemainderNear ==
  ASSUME NEW n \in Nat \ {0}, NEW a \in Int, NEW b \in Int,
         b <= a, a - b < n, a % n = b % n
  PROVE  a = b
<1>1. PICK d \in 0..(n - 1) : d = a - b
  OBVIOUS
<1>2. (a - b) % n = 0
  BY RemainderEqual, Zenon
<1>3. d = n * 0 + d /\ d \in Int /\ 0 \in Int
  OBVIOUS
<1>4. d % n = d
  BY <1>3, RemainderUnique, Zenon
<1> QED BY <1>1, <1>2, <1>4

(* What a counter shows that starts at 1 and goes from `last` back to 1.   *)
Wrap(n, last) == (n % last) + 1

LEMMA WrapNext ==
  ASSUME NEW last \in Nat \ {0}, NEW n \in Nat
  PROVE  /\ Wrap(n, last) \in Nat \ {0}
         /\ Wrap(n + 1, last) = IF Wrap(n, last) = last THEN 1 ELSE Wrap(n, last) + 1
<1>1. n \in Int
  OBVIOUS
<1>2. (n + 1) % last = IF n % last = last - 1 THEN 0 ELSE (n % last) + 1
  BY <1>1, RemainderNext, Zenon
<1>3. n % last \in 0..(last - 1)
  BY <1>1, Division, Zenon
<1> QED BY <1>2, <1>3 DEF Wrap

LEMMA WrapZero ==
  ASSUME NEW last \in Nat \ {0}
  PROVE  Wrap(0, last) = 1
<1>1. 0 = last * 0 + 0 /\ 0 \in Int /\ 0 \in 0..(last - 1)
  OBVIOUS
<1>2. 0 % last = 0
  BY <1>1, RemainderUnique, Zenon
<1> QED BY <1>2 DEF Wrap

(* It does not come back to what it shows in fewer than `last` steps.      *)
LEMMA WrapNear ==
  ASSUME NEW last \in Nat \ {0}, NEW n \in Nat, NEW k \in Nat, k <= n, n - k < last,
         Wrap(n, last) = Wrap(k, last)
  PROVE  k = n
<1>1. n \in Int /\ k \in Int
  OBVIOUS
<1>2. n % last \in 0..(last - 1) /\ k % last \in 0..(last - 1)
  BY <1>1, Division, Zenon
<1>3. n % last = k % last
  BY <1>2 DEF Wrap
<1> QED BY <1>1, <1>3, RemainderNear, Zenon

-----------------------------------------------------------------------------
(* Induction, stated on sets *)

(* A set that holds 0 and the successor of each number it holds.           *)
LEMMA NaturalsIn ==
  ASSUME NEW A, 0 \in A, \A n \in Nat : n \in A => n + 1 \in A
  PROVE  Nat \subseteq A
<1> SUFFICES ASSUME Nat \ A # {} PROVE FALSE
  OBVIOUS
<1>1. PICK m \in Nat \ A : \A y \in Nat \ A : m <= y
  BY MinProperties
<1>2. m - 1 \in Nat /\ m - 1 \in A
  BY <1>1
<1> QED BY <1>1, <1>2

(* A family that holds the empty set, and each set with all the sets that  *)
(* lack one of its elements, holds every subset of a finite set.           *)
LEMMA SubsetsIn ==
  ASSUME NEW S, IsFiniteSet(S), NEW F, {} \in F,
         \A s \in SUBSET S : s # {} /\ (\A x \in s : s \ {x} \in F) => s \in F
  PROVE  SUBSET S \subseteq F
<1> DEFINE A == {n \in Nat : \A s \in SUBSET S : Cardinality(s) = n => s \in F}
<1>1. \A s \in SUBSET S : IsFiniteSet(s) /\ Cardinality(s) \in Nat
  BY FS_Subset, FS_CardinalityType
<1>2. 0 \in A
  BY <1>1, FS_EmptySet
<1>3. ASSUME NEW n \in Nat, n \in A PROVE n + 1 \in A
  <2>1. ASSUME NEW s \in SUBSET S, Cardinality(s) = n + 1 PROVE s \in F
    <3>1. IsFiniteSet(s) /\ s # {}
      BY <1>1, <2>1, FS_EmptySet
    <3>2. ASSUME NEW x \in s PROVE s \ {x} \in F
      <4>1. Cardinality(s \ {x}) = n
        <5>1. Cardinality(s \ {x}) = Cardinality(s) - 1
          BY <3>1, FS_RemoveElement
        <5> QED BY <2>1, <5>1
      <4> QED BY <1>3, <4>1
    <3> QED BY <3>1, <3>2
  <2> QED BY <2>1
<1> HIDE DEF A
<1>4. Nat \subseteq A
  BY <1>2, <1>3, NaturalsIn
<1> QED BY <1>1, <1>4 DEF A

-----------------------------------------------------------------------------
(* Sums *)

(* The sum of the weights w of the elements of S.                          *)
SumOf(w, S) == MapThenSumSet(LAMBDA o : w[o], S)

Pick(s) == CHOOSE x \in s : TRUE
Iterates(f, w, S) ==
  f = [s \in SUBSET S |-> IF s = {} THEN 0 ELSE w[Pick(s)] + f[s \ {Pick(s)}]]

(* The recursive function behind a sum over a finite set exists.           *)
LEMMA IterExists ==
  ASSUME NEW w, NEW S, IsFiniteSet(S)
  PROVE  \E f : Iterates(f, w, S)
<1> DEFINE D(n) == {s \in SUBSET S : Cardinality(s) <= n}
           G(f, n) == [s \in D(n) |-> IF s = {} THEN 0 ELSE w[Pick(s)] + f[s \ {Pick(s)}]]
           A == {n \in Nat : \E f : f = G(f, n)}
<1>1. \A s \in SUBSET S : IsFiniteSet(s) /\ Cardinality(s) \in Nat /\ Cardinality(s) <= Cardinality(S)
  BY FS_Subset, FS_CardinalityType
<1>2. \A s \in SUBSET S : s # {} => /\ Pick(s) \in s
                                   /\ s \ {Pick(s)} \in SUBSET S
                                   /\ Cardinality(s \ {Pick(s)}) = Cardinality(s) - 1
  <2> TAKE s \in SUBSET S
  <2> HAVE s # {}
  <2>1. Pick(s) \in s
    BY DEF Pick
  <2> QED BY <1>1, <2>1, FS_RemoveElement
<1>3. 0 \in A
  <2>1. D(0) = {{}}
    BY <1>1, FS_EmptySet
  <2>2. [s \in D(0) |-> 0] = G([s \in D(0) |-> 0], 0)
    BY <2>1
  <2> QED BY <2>2
<1>4. ASSUME NEW n \in Nat, n \in A PROVE n + 1 \in A
  <2>1. PICK f : f = G(f, n)
    BY <1>4
  <2>2. PICK g : g = G(f, n + 1)
    OBVIOUS
  <2>3. ASSUME NEW s \in D(n) PROVE s \in D(n + 1) /\ g[s] = f[s]
    <3>1. s \in D(n + 1)
      BY <1>1
    <3> QED BY <2>1, <2>2, <3>1
  <2>4. ASSUME NEW s \in D(n + 1), s # {} PROVE g[s] = w[Pick(s)] + g[s \ {Pick(s)}]
    <3>1. s \ {Pick(s)} \in D(n)
      BY <1>1, <1>2, <2>4
    <3>2. g[s] = w[Pick(s)] + f[s \ {Pick(s)}]
      BY <2>2, <2>4
    <3> QED BY <2>3, <3>1, <3>2
  <2>5. ASSUME NEW s \in D(n + 1), s = {} PROVE g[s] = 0
    BY <2>2, <2>5
  <2>6. g = G(g, n + 1)
    <3>1. g = [s \in D(n + 1) |-> g[s]]
      BY <2>2
    <3> QED BY <2>4, <2>5, <3>1
  <2>7. \E h : h = G(h, n + 1)
    BY <2>6
  <2> HIDE DEF G
  <2> QED BY <2>7
<1> HIDE DEF A
<1>5. Cardinality(S) \in Nat /\ Cardinality(S) \in A
  BY <1>1, <1>3, <1>4, NaturalsIn
<1>6. PICK f : f = G(f, Cardinality(S))
  BY <1>5 DEF A
<1>7. D(Cardinality(S)) = SUBSET S
  BY <1>1
<1> QED BY <1>6, <1>7 DEF Iterates

(* The sum is a value of that function.                                    *)
LEMMA SumIterates ==
  ASSUME NEW w, NEW S, IsFiniteSet(S)
  PROVE  \E f : Iterates(f, w, S) /\ SumOf(w, S) = f[S]
<1> DEFINE f == CHOOSE g : Iterates(g, w, S)
<1>1. Iterates(f, w, S)
  BY IterExists
<1>2. SumOf(w, S) = f[S]
  BY DEF SumOf, MapThenSumSet, MapThenFoldSet, Iterates, Pick
<1> QED BY <1>1, <1>2

(* Two such functions agree where the weights do.                          *)
LEMMA IterAgree ==
  ASSUME NEW w, NEW v, NEW S, NEW T, NEW f, NEW g, Iterates(f, w, S), Iterates(g, v, T),
         NEW s, s \subseteq S, s \subseteq T, IsFiniteSet(s), \A x \in s : w[x] = v[x]
  PROVE  f[s] = g[s]
<1> DEFINE F == {u \in SUBSET s : f[u] = g[u]}
<1>1. \A u \in SUBSET s :
        /\ f[u] = IF u = {} THEN 0 ELSE w[Pick(u)] + f[u \ {Pick(u)}]
        /\ g[u] = IF u = {} THEN 0 ELSE v[Pick(u)] + g[u \ {Pick(u)}]
  <2> TAKE u \in SUBSET s
  <2>1. u \in SUBSET S /\ u \in SUBSET T
    OBVIOUS
  <2> QED BY <2>1 DEF Iterates
<1>2. {} \in F
  BY <1>1
<1>3. ASSUME NEW u \in SUBSET s, u # {}, \A x \in u : u \ {x} \in F PROVE u \in F
  <2>1. Pick(u) \in u
    BY <1>3 DEF Pick
  <2>2. f[u \ {Pick(u)}] = g[u \ {Pick(u)}] /\ w[Pick(u)] = v[Pick(u)]
    BY <1>3, <2>1
  <2> QED BY <1>1, <1>3, <2>2
<1>4. SUBSET s \subseteq F
  <2> HIDE DEF F
  <2> QED BY <1>2, <1>3, SubsetsIn
<1> QED BY <1>4

(* A sum depends only on the weights of the elements it ranges over.       *)
LEMMA SumAgree ==
  ASSUME NEW w, NEW v, NEW S, IsFiniteSet(S), \A x \in S : w[x] = v[x]
  PROVE  SumOf(w, S) = SumOf(v, S)
<1>1. PICK f : Iterates(f, w, S) /\ SumOf(w, S) = f[S]
  BY SumIterates
<1>2. PICK g : Iterates(g, v, S) /\ SumOf(v, S) = g[S]
  BY SumIterates
<1> QED BY <1>1, <1>2, IterAgree

(* One element is taken out of the sum at a time.                          *)
LEMMA SumPick ==
  ASSUME NEW w, NEW S, IsFiniteSet(S)
  PROVE  /\ S = {} => SumOf(w, S) = 0
         /\ S # {} => Pick(S) \in S /\ SumOf(w, S) = w[Pick(S)] + SumOf(w, S \ {Pick(S)})
<1>1. PICK f : Iterates(f, w, S) /\ SumOf(w, S) = f[S]
  BY SumIterates
<1>2. f[S] = IF S = {} THEN 0 ELSE w[Pick(S)] + f[S \ {Pick(S)}]
  BY <1>1 DEF Iterates
<1>3. ASSUME S # {} PROVE Pick(S) \in S /\ f[S \ {Pick(S)}] = SumOf(w, S \ {Pick(S)})
  <2>1. PICK R : R = S \ {Pick(S)}
    OBVIOUS
  <2>2. IsFiniteSet(R) /\ R \subseteq S
    BY <2>1, FS_RemoveElement
  <2>3. PICK g : Iterates(g, w, R) /\ SumOf(w, R) = g[R]
    BY <2>2, SumIterates
  <2>4. f[R] = g[R]
    BY <1>1, <2>2, <2>3, IterAgree
  <2> QED BY <1>3, <2>1, <2>3, <2>4 DEF Pick
<1> QED BY <1>1, <1>2, <1>3

(* Sums of natural numbers are natural numbers.                            *)
LEMMA SumType ==
  ASSUME NEW w, NEW S, IsFiniteSet(S), \A x \in S : w[x] \in Nat
  PROVE  \A s \in SUBSET S : IsFiniteSet(s) /\ SumOf(w, s) \in Nat
<1> DEFINE F == {s \in SUBSET S : SumOf(w, s) \in Nat}
<1>1. \A s \in SUBSET S : IsFiniteSet(s)
  BY FS_Subset
<1>2. {} \in F
  <2>1. SumOf(w, {}) = 0
    BY FS_EmptySet, SumPick
  <2> QED BY <2>1
<1>3. ASSUME NEW s \in SUBSET S, s # {}, \A x \in s : s \ {x} \in F PROVE s \in F
  <2>1. Pick(s) \in s /\ SumOf(w, s) = w[Pick(s)] + SumOf(w, s \ {Pick(s)})
    BY <1>1, <1>3, SumPick
  <2> QED BY <1>3, <2>1
<1>4. SUBSET S \subseteq F
  <2> HIDE DEF F
  <2> QED BY <1>2, <1>3, SubsetsIn
<1> QED BY <1>1, <1>4

(* Elements may be taken out of a sum in any order.                        *)
LEMMA SumRemove ==
  ASSUME NEW w, NEW S, IsFiniteSet(S), \A x \in S : w[x] \in Nat
  PROVE  \A x \in S : SumOf(w, S) = w[x] + SumOf(w, S \ {x})
<1> DEFINE F == {s \in SUBSET S : \A x \in s : SumOf(w, s) = w[x] + SumOf(w, s \ {x})}
<1>1. \A s \in SUBSET S : IsFiniteSet(s) /\ SumOf(w, s) \in Nat
  BY SumType
<1>2. {} \in F
  OBVIOUS
<1>3. ASSUME NEW s \in SUBSET S, s # {}, \A x \in s : s \ {x} \in F PROVE s \in F
  <2>1. PICK p \in s : SumOf(w, s) = w[p] + SumOf(w, s \ {p})
    <3>1. Pick(s) \in s /\ SumOf(w, s) = w[Pick(s)] + SumOf(w, s \ {Pick(s)})
      BY <1>1, <1>3, SumPick
    <3> QED BY <3>1
  <2>2. ASSUME NEW x \in s, x # p PROVE SumOf(w, s) = w[x] + SumOf(w, s \ {x})
    <3>1. PICK R : R = (s \ {p}) \ {x}
      OBVIOUS
    <3>2. R = (s \ {x}) \ {p} /\ R \in SUBSET S
      BY <3>1
    <3>3. SumOf(w, s \ {p}) = w[x] + SumOf(w, R)
      BY <1>3, <2>2, <3>1
    <3>4. SumOf(w, s \ {x}) = w[p] + SumOf(w, R)
      BY <1>3, <2>2, <3>2
    <3>5. w[p] \in Nat /\ w[x] \in Nat /\ SumOf(w, R) \in Nat
      BY <1>1, <3>2
    <3> QED BY <2>1, <3>3, <3>4, <3>5
  <2> QED BY <2>1, <2>2
<1>4. SUBSET S \subseteq F
  <2> HIDE DEF F
  <2> QED BY <1>2, <1>3, SubsetsIn
<1> QED BY <1>4

(* Renaming the elements does not change the sum of their weights.         *)
LEMMA SumReindex ==
  ASSUME NEW w, NEW v, NEW S, IsFiniteSet(S), NEW h,
         \A x, y \in S : h[x] = h[y] => x = y,
         \A x \in S : w[x] \in Nat /\ v[h[x]] = w[x]
  PROVE  SumOf(v, {h[x] : x \in S}) = SumOf(w, S)
<1> DEFINE I(s) == {h[x] : x \in s}
           F == {s \in SUBSET S : IsFiniteSet(I(s)) /\ SumOf(v, I(s)) = SumOf(w, s)}
<1>1. {} \in F
  <2>1. I({}) = {} /\ IsFiniteSet({})
    BY FS_EmptySet
  <2>2. SumOf(v, {}) = 0 /\ SumOf(w, {}) = 0
    BY <2>1, SumPick
  <2> QED BY <2>1, <2>2
<1>2. ASSUME NEW s \in SUBSET S, s # {}, \A x \in s : s \ {x} \in F PROVE s \in F
  <2>1. PICK x \in s : TRUE
    BY <1>2
  <2>2. I(s) = I(s \ {x}) \cup {h[x]}
    OBVIOUS
  <2>3. h[x] \notin I(s \ {x})
    OBVIOUS
  <2>4. IsFiniteSet(I(s \ {x})) /\ SumOf(v, I(s \ {x})) = SumOf(w, s \ {x})
    BY <1>2, <2>1
  <2>5. IsFiniteSet(I(s))
    <3>1. PICK j : j = I(s \ {x}) /\ IsFiniteSet(j)
      BY <2>4
    <3>2. IsFiniteSet(j \cup {h[x]})
      BY <3>1, FS_AddElement
    <3> QED BY <2>2, <3>1, <3>2
  <2>6. \A n \in I(s) : v[n] \in Nat
    OBVIOUS
  <2>7. PICK j : j = I(s) /\ IsFiniteSet(j) /\ (\A n \in j : v[n] \in Nat)
                 /\ h[x] \in j /\ j \ {h[x]} = I(s \ {x})
    BY <2>2, <2>3, <2>5, <2>6
  <2>8. SumOf(v, j) = v[h[x]] + SumOf(v, j \ {h[x]})
    BY <2>7, SumRemove
  <2>9. SumOf(w, s) = w[x] + SumOf(w, s \ {x})
    <3>1. IsFiniteSet(s) /\ \A y \in s : w[y] \in Nat
      BY FS_Subset
    <3> QED BY <3>1, SumRemove
  <2>10. v[h[x]] = w[x]
    OBVIOUS
  <2> QED BY <2>4, <2>5, <2>7, <2>8, <2>9, <2>10
<1>3. SUBSET S \subseteq F
  <2> HIDE DEF F
  <2>1. \A s \in SUBSET S : s # {} /\ (\A x \in s : s \ {x} \in F) => s \in F
    BY <1>2
  <2> QED BY <1>1, <2>1, SubsetsIn
<1> QED BY <1>3

-----------------------------------------------------------------------------
(* Sorted lists of sets *)

(* A list of the elements of a finite set, each once.                      *)
LEMMA SeqsElements ==
  ASSUME NEW S, IsFiniteSet(S), NEW s \in SetToSeqs(S)
  PROVE  s \in Seq(S) /\ IsInjective(s) /\ Range(s) = S
<1>1. PICK n \in Nat : n = Cardinality(S)
  BY FS_CardinalityType
<1>2. s \in [1..n -> S] /\ DOMAIN s = 1..n /\ \A i, j \in 1..n : i # j => s[i] # s[j]
  BY <1>1 DEF SetToSeqs
<1>3. s \in Seq(S) /\ IsInjective(s)
  BY <1>2 DEF IsInjective
<1>4. s \in Injection(1..n, S)
  BY <1>2, <1>3 DEF Injection
<1>5. IsFiniteSet(1..n) /\ Cardinality(1..n) = n
  <2>1. 1 \in Int /\ n \in Int /\ (1 > n => n = 0) /\ n - 1 + 1 = n
    OBVIOUS
  <2> QED BY <2>1, FS_Interval
<1>6. s \in Surjection(1..n, S)
  BY <1>1, <1>4, <1>5, FS_Injection
<1>7. Range(s) = S
  BY <1>2, <1>6 DEF Surjection, Range
<1> QED BY <1>3, <1>7

(* A finite set on which R is total and transitive has an element that all *)
(* the others come before.                                                 *)
LEMMA GreatestExists ==
  ASSUME NEW S, IsFiniteSet(S), S # {}, NEW R,
         \A x, y \in S : x # y => <<x, y>> \in R \/ <<y, x>> \in R,
         \A x, y, z \in S : <<x, y>> \in R /\ <<y, z>> \in R => <<x, z>> \in R
  PROVE  \E m \in S : \A x \in S \ {m} : <<x, m>> \in R
<1> DEFINE F == {s \in SUBSET S : s # {} => \E m \in s : \A x \in s \ {m} : <<x, m>> \in R}
<1>1. {} \in F
  OBVIOUS
<1>2. ASSUME NEW s \in SUBSET S, s # {}, \A x \in s : s \ {x} \in F PROVE s \in F
  <2>1. PICK y \in s : TRUE
    BY <1>2
  <2>2. CASE s \ {y} = {}
    BY <2>2
  <2>3. CASE s \ {y} # {}
    <3>1. PICK m \in s \ {y} : \A x \in (s \ {y}) \ {m} : <<x, m>> \in R
      BY <1>2, <2>3
    <3>2. CASE <<y, m>> \in R
      <4>1. \A x \in s \ {m} : <<x, m>> \in R
        BY <3>1, <3>2
      <4> QED BY <4>1
    <3>3. CASE <<y, m>> \notin R
      <4>1. <<m, y>> \in R
        BY <3>3
      <4>2. ASSUME NEW x \in s \ {y} PROVE <<x, y>> \in R
        <5>1. CASE x = m
          BY <4>1, <5>1
        <5>2. CASE x # m
          BY <3>1, <4>1, <5>2
        <5> QED BY <5>1, <5>2
      <4> QED BY <4>2
    <3> QED BY <3>2, <3>3
  <2> QED BY <2>2, <2>3
<1>3. SUBSET S \subseteq F
  <2> HIDE DEF F
  <2>1. \A s \in SUBSET S : s # {} /\ (\A x \in s : s \ {x} \in F) => s \in F
    BY <1>2
  <2> QED BY <1>1, <2>1, SubsetsIn
<1> QED BY <1>3

(* Such a set can be listed in order.                                      *)
LEMMA OrderedExists ==
  ASSUME NEW S, IsFiniteSet(S), NEW R,
         \A x, y \in S : x # y => <<x, y>> \in R \/ <<y, x>> \in R,
         \A x, y, z \in S : <<x, y>> \in R /\ <<y, z>> \in R => <<x, z>> \in R
  PROVE  \E s \in SetToSeqs(S) : \A i, j \in DOMAIN s : i < j => <<s[i], s[j]>> \in R
<1> DEFINE F == {T \in SUBSET S :
                   \E s \in SetToSeqs(T) : \A i, j \in DOMAIN s : i < j => <<s[i], s[j]>> \in R}
<1>1. {} \in F
  <2>1. << >> \in SetToSeqs({}) /\ DOMAIN << >> = {}
    <3>1. Cardinality({}) = 0 /\ 1..0 = {}
      BY FS_EmptySet
    <3>2. << >> \in [{} -> {}]
      OBVIOUS
    <3> QED BY <3>1, <3>2 DEF SetToSeqs
  <2> QED BY <2>1
<1>2. ASSUME NEW T \in SUBSET S, T # {}, \A x \in T : T \ {x} \in F PROVE T \in F
  <2>1. IsFiniteSet(T)
    BY FS_Subset
  <2>2. PICK m \in T : \A x \in T \ {m} : <<x, m>> \in R
    <3>1. /\ \A x, y \in T : x # y => <<x, y>> \in R \/ <<y, x>> \in R
          /\ \A x, y, z \in T : <<x, y>> \in R /\ <<y, z>> \in R => <<x, z>> \in R
      OBVIOUS
    <3> QED BY <1>2, <2>1, <3>1, GreatestExists
  <2>3. PICK s \in SetToSeqs(T \ {m}) : \A i, j \in DOMAIN s : i < j => <<s[i], s[j]>> \in R
    BY <1>2
  <2>4. PICK n \in Nat : n = Cardinality(T \ {m}) /\ Cardinality(T) = n + 1
    <3>1. IsFiniteSet(T \ {m}) /\ Cardinality(T \ {m}) = Cardinality(T) - 1
      BY <2>1, FS_RemoveElement
    <3>2. Cardinality(T) \in Nat /\ Cardinality(T \ {m}) \in Nat
      BY <2>1, <3>1, FS_CardinalityType
    <3> QED BY <3>1, <3>2
  <2>5. /\ s \in [1..n -> T \ {m}] /\ DOMAIN s = 1..n
        /\ \A i, j \in 1..n : i # j => s[i] # s[j]
    BY <2>3, <2>4 DEF SetToSeqs
  <2>6. PICK q \in [1..(n + 1) -> T] :
          \A i \in 1..(n + 1) : q[i] = IF i = n + 1 THEN m ELSE s[i]
    <3>1. \A i \in 1..(n + 1) : (IF i = n + 1 THEN m ELSE s[i]) \in T
      BY <2>5
    <3>2. [i \in 1..(n + 1) |-> IF i = n + 1 THEN m ELSE s[i]] \in [1..(n + 1) -> T]
      BY <3>1
    <3> QED BY <3>2
  <2>7. ASSUME NEW i \in 1..(n + 1), i # n + 1 PROVE i \in 1..n /\ q[i] = s[i] /\ s[i] \in T \ {m}
    BY <2>5, <2>6, <2>7
  <2>8. \A i, j \in 1..(n + 1) : i # j => q[i] # q[j]
    BY <2>5, <2>6, <2>7
  <2>9. q \in SetToSeqs(T)
    BY <2>4, <2>6, <2>8 DEF SetToSeqs
  <2>10. ASSUME NEW i \in 1..(n + 1), NEW j \in 1..(n + 1), i < j PROVE <<q[i], q[j]>> \in R
    <3>1. i \in 1..n /\ q[i] = s[i] /\ s[i] \in T \ {m}
      BY <2>7, <2>10
    <3>2. CASE j = n + 1
      BY <2>2, <2>6, <3>1, <3>2
    <3>3. CASE j # n + 1
      BY <2>3, <2>5, <2>7, <2>10, <3>1, <3>3
    <3> QED BY <3>2, <3>3
  <2>11. DOMAIN q = 1..(n + 1)
    OBVIOUS
  <2> QED BY <2>9, <2>10, <2>11
<1>3. SUBSET S \subseteq F
  <2> HIDE DEF F
  <2>1. \A s \in SUBSET S : s # {} /\ (\A x \in s : s \ {x} \in F) => s \in F
    BY <1>2
  <2> QED BY <1>1, <2>1, SubsetsIn
<1> QED BY <1>3

=============================================================================
