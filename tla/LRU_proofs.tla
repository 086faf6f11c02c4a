----------------------------- MODULE LRU_proofs -----------------------------
(***************************************************************************)
(* Proofs about LRU<T>: the list and the map agree after any sequence of   *)
(* legal calls, for any set of elements, and the class implements the      *)
(* order of use of LRUOrder.                                               *)
(*                                                                         *)
(* First, what the list operators of LRUList return, element by element,   *)
(* and the fact the users of the list rely on: a list without repetition   *)
(* stays one, and its elements change by exactly the one inserted or       *)
(* removed.                                                                *)
(***************************************************************************)
EXTENDS LRU, SequenceTheorems, TLAPS
-----------------------------------------------------------------------------
(* The list *)

\* Insert puts x in front and moves every other element one place back.
LEMMA PushedPlaces ==
  ASSUME NEW S, NEW l \in Seq(S), NEW x \in S
  PROVE  /\ Pushed(l, x) \in Seq(S)
         /\ Len(Pushed(l, x)) = Len(l) + 1
         /\ Pushed(l, x)[1] = x
         /\ \A i \in 1 .. Len(l) : Pushed(l, x)[i + 1] = l[i]
<1>1. <<x>> \in Seq(S) /\ Len(<<x>>) = 1 /\ <<x>>[1] = x
  OBVIOUS
<1>2. /\ <<x>> \o l \in Seq(S)
      /\ Len(<<x>> \o l) = 1 + Len(l)
      /\ \A i \in 1 .. 1 + Len(l) :
            (<<x>> \o l)[i] = IF i <= 1 THEN <<x>>[i] ELSE l[i - 1]
  BY <1>1, ConcatProperties
<1>3. Len(l) \in Nat
  OBVIOUS
<1> QED BY <1>1, <1>2, <1>3 DEF Pushed, Cons

\* The same, one place at a time.
LEMMA PushedPlace ==
  ASSUME NEW S, NEW l \in Seq(S), NEW x \in S, NEW i \in 1 .. Len(l)
  PROVE  Pushed(l, x)[i + 1] = l[i]
<1>1. Len(l) \in Nat /\ i \in Nat /\ i >= 1 /\ i <= Len(l)
  OBVIOUS
<1>2. i + 1 \in 1 .. Len(l) + 1 /\ i + 1 # 1 /\ (i + 1) - 1 = i
  BY ONLY <1>1
<1> QED BY <1>1, <1>2, PushedPlaces

\* Pop drops the last place and leaves the others.
LEMMA PoppedPlaces ==
  ASSUME NEW S, NEW l \in Seq(S), l # << >>
  PROVE  /\ Len(l) \in Nat \ {0}
         /\ Oldest(l) = l[Len(l)]
         /\ Oldest(l) \in S
         /\ Popped(l) \in Seq(S)
         /\ Len(Popped(l)) = Len(l) - 1
         /\ \A i \in 1 .. Len(l) - 1 : Popped(l)[i] = l[i]
<1> DEFINE f == SubSeq(l, 1, Len(l) - 1)
<1>1. Len(l) \in Nat \ {0} /\ \A i \in 1 .. Len(l) : l[i] \in S
  OBVIOUS
<1>2. \A i \in 1 .. Len(l) - 1 : l[i] \in S
  BY <1>1
<1>3. /\ f \in Seq(S)
      /\ Len(f) = IF 1 <= Len(l) - 1 THEN Len(l) - 1 - 1 + 1 ELSE 0
      /\ \A i \in 1 .. Len(l) - 1 - 1 + 1 : f[i] = l[1 + i - 1]
  BY <1>1, <1>2, SubSeqProperties
<1>4. Popped(l) = f
  BY DEF Popped, Front
<1> HIDE DEF f
<1>5. Len(f) = Len(l) - 1 /\ \A i \in 1 .. Len(l) - 1 : f[i] = l[i]
  <2> DEFINE n == Len(l)
  <2>1. n \in Nat \ {0}
    BY <1>1
  <2>2. Len(f) = IF 1 <= n - 1 THEN n - 1 - 1 + 1 ELSE 0
    BY <1>3
  <2>3. \A i \in 1 .. n - 1 - 1 + 1 : f[i] = l[1 + i - 1]
    BY <1>3
  <2> HIDE DEF n
  <2>4. n - 1 - 1 + 1 = n - 1 /\ (~(1 <= n - 1) => n - 1 = 0)
    BY <2>1
  <2>5. \A i \in 1 .. n - 1 : 1 + i - 1 = i
    BY <2>1
  <2>6. Len(f) = n - 1
    BY <2>2, <2>4
  <2>7. \A i \in 1 .. n - 1 : f[i] = l[i]
    BY <2>3, <2>4, <2>5
  <2> QED BY <2>6, <2>7 DEF n
<1>6. Len(l) \in 1 .. Len(l) /\ l[Len(l)] \in S
  BY <1>1
<1> QED BY <1>1, <1>3, <1>4, <1>5, <1>6 DEF Oldest, Last

\* Erasing place k keeps the places before it and moves up those behind it.
LEMMA RemoveAtPlaces ==
  ASSUME NEW S, NEW l \in Seq(S), NEW k \in 1 .. Len(l)
  PROVE  /\ RemoveAt(l, k) \in Seq(S)
         /\ Len(RemoveAt(l, k)) = Len(l) - 1
         /\ \A i \in 1 .. Len(l) - 1 :
               RemoveAt(l, k)[i] = IF i < k THEN l[i] ELSE l[i + 1]
<1> DEFINE a == SubSeq(l, 1, k - 1)
           b == SubSeq(l, k + 1, Len(l))
<1>1. Len(l) \in Nat /\ k \in Nat \ {0} /\ \A i \in 1 .. Len(l) : l[i] \in S
  OBVIOUS
<1>2. /\ a \in Seq(S)
      /\ Len(a) = k - 1
      /\ \A i \in 1 .. k - 1 : a[i] = l[i]
  <2>1. \A i \in 1 .. k - 1 : l[i] \in S
    BY <1>1
  <2> QED BY <1>1, <2>1, SubSeqProperties
<1>3. /\ b \in Seq(S)
      /\ Len(b) = Len(l) - k
      /\ \A i \in 1 .. Len(l) - k : b[i] = l[k + i]
  <2>1. \A i \in k + 1 .. Len(l) : l[i] \in S
    BY <1>1
  <2>2. \A i \in 1 .. Len(l) - (k + 1) + 1 : b[i] = l[(k + 1) + i - 1]
    BY <1>1, <2>1, SubSeqProperties
  <2>3. \A i \in 1 .. Len(l) - k : b[i] = l[k + i]
    BY <1>1, <2>2
  <2>4. b \in Seq(S) /\ Len(b) = IF k + 1 <= Len(l) THEN Len(l) - (k + 1) + 1 ELSE 0
    BY <1>1, <2>1, SubSeqProperties
  <2> QED BY <1>1, <2>3, <2>4
<1>4. /\ a \o b \in Seq(S)
      /\ Len(a \o b) = Len(l) - 1
      /\ \A i \in 1 .. Len(a) + Len(b) :
            (a \o b)[i] = IF i <= Len(a) THEN a[i] ELSE b[i - Len(a)]
  <2> HIDE DEF a, b
  <2>1. a \in Seq(S) /\ b \in Seq(S)
    BY <1>2, <1>3
  <2>2. /\ a \o b \in Seq(S)
        /\ Len(a \o b) = Len(a) + Len(b)
        /\ \A i \in 1 .. Len(a) + Len(b) :
              (a \o b)[i] = IF i <= Len(a) THEN a[i] ELSE b[i - Len(a)]
    BY ONLY <2>1, ConcatProperties
  <2> QED BY <1>1, <1>2, <1>3, <2>2
<1>5. RemoveAt(l, k) = a \o b
  BY DEF RemoveAt
<1> HIDE DEF a, b
<1>6. ASSUME NEW i \in 1 .. Len(l) - 1
      PROVE  (a \o b)[i] = IF i < k THEN l[i] ELSE l[i + 1]
  <2>1. CASE i < k
    BY <1>1, <1>2, <1>3, <1>4, <2>1
  <2>2. CASE i >= k
    <3>1. i - (k - 1) \in 1 .. Len(l) - k
      BY <1>1, <2>2
    <3>2. (a \o b)[i] = b[i - (k - 1)]
      BY <1>1, <1>2, <1>3, <1>4, <2>2
    <3>3. b[i - (k - 1)] = l[k + (i - (k - 1))]
      BY <1>3, <3>1
    <3>4. k + (i - (k - 1)) = i + 1
      BY <1>1
    <3> QED BY <2>2, <1>1, <3>2, <3>3, <3>4
  <2>3. i < k \/ i >= k
    BY <1>1
  <2> QED BY <2>1, <2>2, <2>3
<1> QED BY <1>4, <1>5, <1>6

\* Insert keeps a list without repetition when x is not in it yet.
LEMMA PushedDistinct ==
  ASSUME NEW S, NEW l \in Seq(S), NEW x \in S, IsInjective(l), x \notin ToSet(l)
  PROVE  /\ IsInjective(Pushed(l, x))
         /\ ToSet(Pushed(l, x)) = ToSet(l) \cup {x}
<1> DEFINE m == Pushed(l, x)
<1>1. /\ m \in Seq(S)
      /\ Len(m) = Len(l) + 1
      /\ m[1] = x
      /\ \A i \in 1 .. Len(l) : m[i + 1] = l[i]
  BY PushedPlaces
<1> HIDE DEF m
<1>2. Len(l) \in Nat /\ DOMAIN l = 1 .. Len(l) /\ DOMAIN m = 1 .. Len(l) + 1
  BY <1>1
<1>3. \A i \in DOMAIN l : l[i] # x
  BY DEF ToSet
<1>4. \A i \in DOMAIN m \ {1} : i - 1 \in DOMAIN l /\ m[i] = l[i - 1]
  <2> TAKE i \in DOMAIN m \ {1}
  <2>1. i - 1 \in 1 .. Len(l) /\ (i - 1) + 1 = i
    BY <1>2
  <2> QED BY <1>1, <1>2, <2>1
<1>5. IsInjective(m)
  <2> SUFFICES ASSUME NEW i \in DOMAIN m, NEW j \in DOMAIN m, m[i] = m[j]
               PROVE  i = j
    BY DEF IsInjective
  <2>1. CASE i = 1 \/ j = 1
    BY <1>1, <1>3, <1>4, <2>1
  <2>2. CASE i # 1 /\ j # 1
    <3>1. i - 1 = j - 1
      BY <1>4, <2>2 DEF IsInjective
    <3> QED BY <1>2, <3>1
  <2> QED BY <2>1, <2>2
<1>6. ToSet(m) = ToSet(l) \cup {x}
  <2>1. \A y \in ToSet(m) : y \in ToSet(l) \cup {x}
    BY <1>1, <1>4 DEF ToSet
  <2>2. x \in ToSet(m)
    <3>1. 1 \in DOMAIN m
      BY <1>2
    <3> QED BY <1>1, <3>1 DEF ToSet
  <2>3. \A i \in DOMAIN l : l[i] \in ToSet(m)
    <3> TAKE i \in DOMAIN l
    <3>1. i + 1 \in DOMAIN m /\ m[i + 1] = l[i]
      BY <1>1, <1>2
    <3> QED BY <3>1 DEF ToSet
  <2> QED BY <2>1, <2>2, <2>3 DEF ToSet
<1> QED BY <1>5, <1>6 DEF m

\* Pop takes exactly the oldest element out of the list.
LEMMA PoppedDistinct ==
  ASSUME NEW S, NEW l \in Seq(S), l # << >>, IsInjective(l)
  PROVE  /\ IsInjective(Popped(l))
         /\ ToSet(Popped(l)) = ToSet(l) \ {Oldest(l)}
         /\ Oldest(l) \in ToSet(l)
<1> DEFINE m == Popped(l)
<1>1. /\ Len(l) \in Nat \ {0}
      /\ Oldest(l) = l[Len(l)]
      /\ m \in Seq(S)
      /\ Len(m) = Len(l) - 1
      /\ \A i \in 1 .. Len(l) - 1 : m[i] = l[i]
  BY PoppedPlaces
<1> HIDE DEF m
<1>2. /\ DOMAIN l = 1 .. Len(l)
      /\ DOMAIN m = DOMAIN l \ {Len(l)}
      /\ Len(l) \in DOMAIN l
      /\ \A i \in DOMAIN m : m[i] = l[i]
  <2>1. DOMAIN l = 1 .. Len(l) /\ DOMAIN m = 1 .. Len(m)
    BY <1>1
  <2>2. 1 .. Len(l) - 1 = (1 .. Len(l)) \ {Len(l)} /\ Len(l) \in 1 .. Len(l)
    BY <1>1
  <2> QED BY <1>1, <2>1, <2>2
<1>3. IsInjective(m)
  BY <1>2 DEF IsInjective
<1>4. ToSet(m) = ToSet(l) \ {Oldest(l)}
  BY <1>1, <1>2 DEF ToSet, IsInjective
<1>5. Oldest(l) \in ToSet(l)
  BY <1>1, <1>2 DEF ToSet
<1> QED BY <1>3, <1>4, <1>5 DEF m

\* Remove takes exactly x out of the list.
LEMMA RemovedDistinct ==
  ASSUME NEW S, NEW l \in Seq(S), NEW x \in ToSet(l), IsInjective(l)
  PROVE  /\ Place(l, x) \in 1 .. Len(l)
         /\ l[Place(l, x)] = x
         /\ Removed(l, x) \in Seq(S)
         /\ Len(Removed(l, x)) = Len(l) - 1
         /\ IsInjective(Removed(l, x))
         /\ ToSet(Removed(l, x)) = ToSet(l) \ {x}
<1> DEFINE k == Place(l, x)
           m == Removed(l, x)
<1>1. DOMAIN l = 1 .. Len(l) /\ Len(l) \in Nat
  OBVIOUS
<1>2. k \in 1 .. Len(l) /\ l[k] = x
  <2>1. \E i \in DOMAIN l : l[i] = x
    BY DEF ToSet
  <2> QED BY <1>1, <2>1 DEF Place
<1>3. m = RemoveAt(l, k)
  BY DEF Removed
<1> HIDE DEF k, m
<1>4. /\ m \in Seq(S)
      /\ Len(m) = Len(l) - 1
      /\ \A i \in 1 .. Len(l) - 1 : m[i] = IF i < k THEN l[i] ELSE l[i + 1]
  BY <1>2, <1>3, RemoveAtPlaces
<1>5. DOMAIN m = 1 .. Len(l) - 1
  BY <1>4
<1> DEFINE from(i) == IF i < k THEN i ELSE i + 1
<1>6. \A i \in DOMAIN m : from(i) \in DOMAIN l \ {k} /\ m[i] = l[from(i)]
  BY <1>1, <1>2, <1>4, <1>5
<1>7. \A i, j \in DOMAIN m : from(i) = from(j) => i = j
  BY <1>1, <1>2, <1>5
<1>8. \A j \in DOMAIN l \ {k} : \E i \in DOMAIN m : m[i] = l[j]
  <2> TAKE j \in DOMAIN l \ {k}
  <2>1. CASE j < k
    <3>1. j \in DOMAIN m
      BY <1>1, <1>2, <1>5, <2>1
    <3> QED BY <1>6, <2>1, <3>1
  <2>2. CASE j > k
    <3>1. j - 1 \in DOMAIN m /\ from(j - 1) = j
      BY <1>1, <1>2, <1>5, <2>2
    <3> QED BY <1>6, <3>1
  <2> QED BY <1>1, <1>2, <2>1, <2>2
<1> HIDE DEF from
<1>9. IsInjective(m)
  BY <1>6, <1>7 DEF IsInjective
<1>10. ToSet(m) = ToSet(l) \ {x}
  <2>1. \A i \in DOMAIN m : m[i] \in ToSet(l) \ {x}
    BY <1>1, <1>2, <1>6 DEF ToSet, IsInjective
  <2>2. \A j \in DOMAIN l : l[j] # x => l[j] \in ToSet(m)
    BY <1>2, <1>8 DEF ToSet
  <2> QED BY <2>1, <2>2 DEF ToSet
<1> QED BY <1>2, <1>4, <1>9, <1>10 DEF k, m

\* Use leaves x in front; apart from that the elements stay what they were.
LEMMA UsedDistinct ==
  ASSUME NEW S, NEW l \in Seq(S), NEW x \in S, IsInjective(l)
  PROVE  /\ Used(l, x) \in Seq(S)
         /\ Used(l, x)[1] = x
         /\ Len(Used(l, x)) = IF x \in ToSet(l) THEN Len(l) ELSE Len(l) + 1
         /\ IsInjective(Used(l, x))
         /\ ToSet(Used(l, x)) = ToSet(l) \cup {x}
<1>1. Contains(l, x) <=> x \in ToSet(l)
  BY DEF Contains, ToSet
<1>2. CASE x \in ToSet(l)
  <2> DEFINE m == Removed(l, x)
  <2>1. /\ m \in Seq(S) /\ Len(m) = Len(l) - 1 /\ IsInjective(m)
        /\ ToSet(m) = ToSet(l) \ {x}
    BY <1>2, RemovedDistinct
  <2>2. Used(l, x) = Pushed(m, x)
    BY <1>1, <1>2 DEF Used
  <2> HIDE DEF m
  <2>3. Pushed(m, x) \in Seq(S) /\ Len(Pushed(m, x)) = Len(l) /\ Pushed(m, x)[1] = x
    BY <2>1, PushedPlaces
  <2>4. IsInjective(Pushed(m, x)) /\ ToSet(Pushed(m, x)) = ToSet(l) \cup {x}
    BY <1>2, <2>1, PushedDistinct
  <2> QED BY <1>2, <2>2, <2>3, <2>4
<1>3. CASE x \notin ToSet(l)
  <2>1. Used(l, x) = Pushed(l, x)
    BY <1>1, <1>3 DEF Used
  <2> QED BY <1>3, <2>1, PushedPlaces, PushedDistinct
<1> QED BY <1>2, <1>3

\* A new first element is younger than all others; nothing else changes.
LEMMA PushedOrder ==
  ASSUME NEW S, NEW x \in S, NEW l \in Seq(S), IsInjective(l), x \notin ToSet(l)
  PROVE  UsedBefore(Pushed(l, x)) = UsedBefore(l) \cup (ToSet(l) \X {x})
<1> DEFINE m == Pushed(l, x)
<1>1. /\ m \in Seq(S) /\ Len(m) = Len(l) + 1 /\ m[1] = x
      /\ \A i \in 1 .. Len(l) : m[i + 1] = l[i]
  BY PushedPlaces
<1> DEFINE before(p) == \E i, j \in DOMAIN l : l[j] = p[1] /\ l[i] = p[2] /\ i < j
           after(p) == \E i, j \in DOMAIN m : m[j] = p[1] /\ m[i] = p[2] /\ i < j
<1>2. UsedBefore(m) = {p \in (ToSet(l) \cup {x}) \X (ToSet(l) \cup {x}) : after(p)}
  BY PushedDistinct DEF UsedBefore
<1> HIDE DEF m
<1>3. Len(l) \in Nat /\ DOMAIN l = 1 .. Len(l) /\ DOMAIN m = 1 .. Len(l) + 1
  BY <1>1
<1>4. \A i \in DOMAIN m : i # 1 => i - 1 \in DOMAIN l /\ m[i] = l[i - 1]
  <2> TAKE i \in DOMAIN m
  <2>1. i # 1 => i - 1 \in 1 .. Len(l) /\ (i - 1) + 1 = i
    BY <1>3
  <2> QED BY <1>1, <1>3, <2>1
<1>5. \A i \in DOMAIN l : i + 1 \in DOMAIN m /\ m[i + 1] = l[i] /\ i + 1 > 1 /\ l[i] # x
  BY <1>1, <1>3 DEF ToSet
<1>6. ASSUME NEW p \in (ToSet(l) \cup {x}) \X (ToSet(l) \cup {x}), after(p)
      PROVE  (p \in ToSet(l) \X ToSet(l) /\ before(p)) \/ p \in ToSet(l) \X {x}
  <2>1. PICK i \in DOMAIN m, j \in DOMAIN m : m[j] = p[1] /\ m[i] = p[2] /\ i < j
    BY <1>6
  <2>2. j # 1
    BY <1>3, <2>1
  <2>3. j - 1 \in DOMAIN l /\ p[1] = l[j - 1] /\ p[1] \in ToSet(l)
    BY <1>4, <2>1, <2>2 DEF ToSet
  <2>4. CASE i = 1
    BY <1>1, <2>1, <2>3, <2>4
  <2>5. CASE i # 1
    <3>1. i - 1 \in DOMAIN l /\ p[2] = l[i - 1] /\ p[2] \in ToSet(l)
      BY <1>4, <2>1, <2>5 DEF ToSet
    <3>2. i - 1 < j - 1
      BY <1>3, <2>1
    <3>3. before(p)
      BY <2>3, <3>1, <3>2
    <3>4. p \in ToSet(l) \X ToSet(l)
      BY <2>3, <3>1
    <3> QED BY <3>3, <3>4
  <2> QED BY <2>4, <2>5
<1>7. ASSUME NEW p \in ToSet(l) \X ToSet(l), before(p)
      PROVE  after(p)
  <2>1. PICK i \in DOMAIN l, j \in DOMAIN l : l[j] = p[1] /\ l[i] = p[2] /\ i < j
    BY <1>7
  <2>2. i + 1 < j + 1
    BY <1>3, <2>1
  <2> QED BY <1>5, <2>1, <2>2
<1>8. ASSUME NEW p \in ToSet(l) \X {x}
      PROVE  after(p)
  <2>1. PICK j \in DOMAIN l : l[j] = p[1]
    BY DEF ToSet
  <2>2. 1 \in DOMAIN m /\ p[2] = m[1] /\ 1 < j + 1
    BY <1>1, <1>3, <1>5
  <2> QED BY <1>5, <2>1, <2>2
<1> HIDE DEF before, after
<1> QED
  <2> DEFINE A == {p \in (ToSet(l) \cup {x}) \X (ToSet(l) \cup {x}) : after(p)}
             B == {p \in ToSet(l) \X ToSet(l) : before(p)} \cup (ToSet(l) \X {x})
  <2>1. \A p \in A : p \in B
    BY <1>6
  <2>2. \A p \in B : p \in A
    BY <1>7, <1>8
  <2>3. A = B
    BY <2>1, <2>2
  <2> QED BY <1>2, <2>3 DEF before, m, UsedBefore

\* Taking x out of the list leaves the order of the others as it was.  k is
\* the place of x; Pop is the case that k is the last place.
LEMMA WithoutPlaceOrder ==
  ASSUME NEW S, NEW l \in Seq(S), IsInjective(l), NEW k \in DOMAIN l,
         NEW m \in Seq(S), IsInjective(m), Len(m) = Len(l) - 1,
         ToSet(m) = ToSet(l) \ {l[k]},
         \A i \in 1 .. Len(l) - 1 : m[i] = IF i < k THEN l[i] ELSE l[i + 1]
  PROVE  UsedBefore(m) = {p \in UsedBefore(l) : p[1] # l[k] /\ p[2] # l[k]}
<1> DEFINE from(i) == IF i < k THEN i ELSE i + 1
           to(i) == IF i < k THEN i ELSE i - 1
           before(p) == \E i, j \in DOMAIN l : l[j] = p[1] /\ l[i] = p[2] /\ i < j
           after(p) == \E i, j \in DOMAIN m : m[j] = p[1] /\ m[i] = p[2] /\ i < j
<1>1. Len(l) \in Nat /\ DOMAIN l = 1 .. Len(l) /\ DOMAIN m = 1 .. Len(l) - 1 /\ k \in 1 .. Len(l)
  OBVIOUS
<1>2. \A i \in DOMAIN m : from(i) \in DOMAIN l /\ m[i] = l[from(i)]
  BY <1>1
<1>3. \A i, j \in DOMAIN m : i < j => from(i) < from(j)
  BY <1>1
<1>4. \A i \in DOMAIN l : i # k => to(i) \in DOMAIN m /\ m[to(i)] = l[i]
  <2> TAKE i \in DOMAIN l
  <2>1. CASE i < k
    BY <1>1, <2>1
  <2>2. CASE i > k
    <3>1. i - 1 \in 1 .. Len(l) - 1 /\ ~(i - 1 < k) /\ (i - 1) + 1 = i
      BY <1>1, <2>2
    <3>2. m[i - 1] = l[(i - 1) + 1]
      BY <3>1
    <3> QED BY <1>1, <2>2, <3>1, <3>2
  <2> QED BY <1>1, <2>1, <2>2
<1>5. \A i, j \in DOMAIN l : i # k /\ j # k /\ i < j => to(i) < to(j)
  BY <1>1
<1> HIDE DEF from, to
<1>6. ASSUME NEW p \in ToSet(m) \X ToSet(m), after(p)
      PROVE  before(p)
  BY <1>2, <1>3, <1>6
<1>7. ASSUME NEW p \in ToSet(l) \X ToSet(l), before(p), p[1] # l[k], p[2] # l[k]
      PROVE  after(p)
  BY <1>4, <1>5, <1>7
<1> HIDE DEF before, after
<1>8. UsedBefore(m) = {p \in ToSet(m) \X ToSet(m) : after(p)}
  BY DEF UsedBefore, after
<1>9. UsedBefore(l) = {p \in ToSet(l) \X ToSet(l) : before(p)}
  BY DEF UsedBefore, before
<1>10. ASSUME NEW p \in ToSet(l) \X ToSet(l)
       PROVE  p \in ToSet(m) \X ToSet(m) <=> p[1] # l[k] /\ p[2] # l[k]
  OBVIOUS
<1>11. ToSet(m) \X ToSet(m) \subseteq ToSet(l) \X ToSet(l)
  OBVIOUS
<1> QED BY <1>6, <1>7, <1>8, <1>9, <1>10, <1>11

\* Remove(x) leaves the order of the other elements as it was.
LEMMA RemovedOrder ==
  ASSUME NEW S, NEW l \in Seq(S), NEW x \in ToSet(l), IsInjective(l)
  PROVE  UsedBefore(Removed(l, x)) = {p \in UsedBefore(l) : p[1] # x /\ p[2] # x}
<1> DEFINE k == Place(l, x)
           m == Removed(l, x)
<1>1. /\ k \in 1 .. Len(l) /\ l[k] = x /\ m \in Seq(S) /\ Len(m) = Len(l) - 1
      /\ IsInjective(m) /\ ToSet(m) = ToSet(l) \ {x}
  BY RemovedDistinct
<1>2. m = RemoveAt(l, k)
  BY DEF Removed
<1> HIDE DEF k, m
<1>3. \A i \in 1 .. Len(l) - 1 : m[i] = IF i < k THEN l[i] ELSE l[i + 1]
  BY <1>1, <1>2, RemoveAtPlaces
<1>4. k \in DOMAIN l
  BY <1>1
<1>5. UsedBefore(m) = {p \in UsedBefore(l) : p[1] # l[k] /\ p[2] # l[k]}
  BY <1>1, <1>3, <1>4, WithoutPlaceOrder
<1> QED BY <1>1, <1>5 DEF m

\* So does Pop.
LEMMA PoppedOrder ==
  ASSUME NEW S, NEW l \in Seq(S), l # << >>, IsInjective(l)
  PROVE  UsedBefore(Popped(l)) = {p \in UsedBefore(l) : p[1] # Oldest(l) /\ p[2] # Oldest(l)}
<1> DEFINE m == Popped(l)
<1>1. /\ Len(l) \in Nat \ {0} /\ Oldest(l) = l[Len(l)] /\ m \in Seq(S)
      /\ Len(m) = Len(l) - 1 /\ \A i \in 1 .. Len(l) - 1 : m[i] = l[i]
  BY PoppedPlaces
<1>2. IsInjective(m) /\ ToSet(m) = ToSet(l) \ {l[Len(l)]}
  BY <1>1, PoppedDistinct
<1> HIDE DEF m
<1>3. \A i \in 1 .. Len(l) - 1 : m[i] = IF i < Len(l) THEN l[i] ELSE l[i + 1]
  BY <1>1
<1>4. Len(l) \in DOMAIN l
  BY <1>1
<1>5. UsedBefore(m) = {p \in UsedBefore(l) : p[1] # l[Len(l)] /\ p[2] # l[Len(l)]}
  BY <1>1, <1>2, <1>3, <1>4, WithoutPlaceOrder
<1> QED BY <1>1, <1>5 DEF m

\* The last element was used before every other one.
LEMMA OldestFirst ==
  ASSUME NEW S, NEW l \in Seq(S), l # << >>, NEW y \in ToSet(l), y # Oldest(l)
  PROVE  <<Oldest(l), y>> \in UsedBefore(l)
<1>1. Len(l) \in Nat \ {0} /\ Oldest(l) = l[Len(l)] /\ DOMAIN l = 1 .. Len(l)
  BY DEF Oldest, Last
<1>2. PICK i \in DOMAIN l : l[i] = y
  BY DEF ToSet
<1>3. i < Len(l) /\ Len(l) \in DOMAIN l
  BY <1>1, <1>2
<1>4. Oldest(l) \in ToSet(l)
  BY <1>1, <1>3 DEF ToSet
<1> QED BY <1>1, <1>2, <1>3, <1>4 DEF UsedBefore
-----------------------------------------------------------------------------
(* The class *)

\* The invariant: types, and the two halves in step.
Inv == TypeOK /\ HalvesAgree

\* What one call does to the list, given that the halves agreed before it.
LEMMA StepKeepsInv ==
  ASSUME Inv, [Next]_vars
  PROVE  Inv'
<1> USE DEF Inv, TypeOK, HalvesAgree
<1>1. ASSUME NEW x \in Element, Insert(x)
      PROVE  Inv'
  BY <1>1, PushedPlaces, PushedDistinct DEF Insert
<1>2. ASSUME NEW x \in Element, RemoveElement(x)
      PROVE  Inv'
  BY <1>2, RemovedDistinct DEF RemoveElement
<1>3. ASSUME NEW x \in Element, Use(x)
      PROVE  Inv'
  <2>1. Contains(lru, x) <=> x \in pos
    BY DEF Contains, ToSet
  <2>2. lru' = Used(lru, x)
    BY <1>3, <2>1 DEF Use, Used
  <2> QED BY <1>3, <2>2, UsedDistinct DEF Use
<1>4. ASSUME Pop
      PROVE  Inv'
  BY <1>4, PoppedPlaces, PoppedDistinct DEF Pop
<1>5. CASE UNCHANGED vars
  BY <1>5 DEF vars
<1> QED BY <1>1, <1>2, <1>3, <1>4, <1>5 DEF Next

\* For any element type, lru_ and pos_ hold the same elements, each once,
\* after any sequence of legal calls (lru.h, the four mutating operations).
THEOREM HalvesAlwaysAgree == Spec => [](TypeOK /\ HalvesAgree)
<1>1. Init => Inv
  BY DEF Init, Inv, TypeOK, HalvesAgree, ToSet, IsInjective
<1>2. Inv /\ [Next]_vars => Inv'
  BY StepKeepsInv
<1> QED BY <1>1, <1>2, PTL DEF Spec, Inv

\* Each call of the class is a step of LRUOrder on the order the list stands for.
LEMMA StepImplements ==
  ASSUME Inv, [Next]_vars
  PROVE  [Order!Next]_(Order!vars)
<1> USE DEF Inv, TypeOK, HalvesAgree
<1>1. ASSUME NEW x \in Element, Insert(x)
      PROVE  Order!Touch(x)
  <2>1. UsedBefore(lru') = UsedBefore(lru) \cup (pos \X {x})
    BY <1>1, PushedOrder DEF Insert
  <2>2. Order!Without(x) = UsedBefore(lru) /\ pos \ {x} = pos
    BY <1>1 DEF Insert, Order!Without, UsedBefore
  <2> QED BY <1>1, <2>1, <2>2 DEF Insert, Order!Touch
<1>2. ASSUME NEW x \in Element, RemoveElement(x)
      PROVE  Order!Drop(x)
  <2>1. UsedBefore(lru') = Order!Without(x)
    BY <1>2, RemovedOrder DEF RemoveElement, Order!Without
  <2> QED BY <1>2, <2>1 DEF RemoveElement, Order!Drop
<1>3. ASSUME NEW x \in Element, Use(x)
      PROVE  Order!Touch(x)
  <2>1. CASE x \in pos
    <3> DEFINE m == Removed(lru, x)
    <3>1. m \in Seq(Element) /\ IsInjective(m) /\ ToSet(m) = pos \ {x}
      BY <2>1, RemovedDistinct
    <3>2. UsedBefore(m) = Order!Without(x)
      BY <2>1, RemovedOrder DEF Order!Without
    <3>3. lru' = Pushed(m, x)
      BY <1>3, <2>1 DEF Use
    <3> HIDE DEF m
    <3>4. UsedBefore(Pushed(m, x)) = Order!Without(x) \cup ((pos \ {x}) \X {x})
      BY <3>1, <3>2, PushedOrder
    <3> QED BY <1>3, <3>3, <3>4 DEF Use, Order!Touch
  <2>2. CASE x \notin pos
    <3>1. UsedBefore(lru') = UsedBefore(lru) \cup (pos \X {x})
      BY <1>3, <2>2, PushedOrder DEF Use
    <3>2. Order!Without(x) = UsedBefore(lru) /\ pos \ {x} = pos
      BY <2>2 DEF Order!Without, UsedBefore
    <3> QED BY <1>3, <3>1, <3>2 DEF Use, Order!Touch
  <2> QED BY <2>1, <2>2
<1>4. ASSUME Pop
      PROVE  Order!Pop
  <2> DEFINE x == Oldest(lru)
  <2>1. x \in pos /\ x \in Element
    BY <1>4, PoppedPlaces, PoppedDistinct DEF Pop
  <2>2. UsedBefore(lru') = Order!Without(x)
    BY <1>4, PoppedOrder DEF Pop, Order!Without
  <2>3. \A y \in pos \ {x} : <<x, y>> \in UsedBefore(lru)
    BY <1>4, OldestFirst DEF Pop
  <2> HIDE DEF x
  <2> QED BY <1>4, <2>1, <2>2, <2>3 DEF Pop, Order!Pop, x
<1>5. ASSUME UNCHANGED vars
      PROVE  UNCHANGED Order!vars
  BY <1>5 DEF vars, Order!vars
<1> QED BY <1>1, <1>2, <1>3, <1>4, <1>5 DEF Next, Order!Next

\* The class implements the order of use it documents: whatever was called
\* before, Pop returns and removes the element used longest ago (lru.h:61).
THEOREM LRUImplementsOrder == Spec => ImplementsLRUOrder
<1>1. Init => Order!Init
  BY DEF Init, Order!Init, UsedBefore, ToSet
<1>2. Inv /\ [Next]_vars => [Order!Next]_(Order!vars)
  BY StepImplements
<1>3. Spec => []Inv
  BY HalvesAlwaysAgree DEF Inv
<1> QED BY <1>1, <1>2, <1>3, PTL DEF Spec, Order!Spec, ImplementsLRUOrder
=============================================================================
