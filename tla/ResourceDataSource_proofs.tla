---------------------- MODULE ResourceDataSource_proofs ----------------------
(****************************************************************************)
(* Proofs about ResourceMultiBuffer, about ResourceDataSource on top of it, *)
(* and about its loops in BlockCacheLoops, for every length, block size,    *)
(* cache size, chunk size and set of response codes.                        *)
(****************************************************************************)
EXTENDS ResourceDataSource, BlockCacheLoops, SequenceTheorems, FiniteSetTheorems, TLAPS

\* lru_ is the list of an LRU: what is proved of the one holds of the other.
Recency == INSTANCE LRU_proofs
             WITH Element <- Nat, pos <- ToSet(lru), touched <- {}, returned <- {}

LEMMA SameOperators ==
  /\ \A l : Recency!ToSet(l) = ToSet(l)
  /\ \A l : Recency!IsInjective(l) <=> IsInjective(l)
  /\ \A l, x : Recency!Pushed(l, x) = Pushed(l, x)
  /\ \A l, x : Recency!Used(l, x) = Used(l, x)
<1>1. \A l : Recency!ToSet(l) = ToSet(l)
  BY DEF Recency!ToSet, ToSet
<1>2. \A l : Recency!IsInjective(l) <=> IsInjective(l)
  BY DEF Recency!IsInjective, IsInjective
<1>3. \A l, x : Recency!Pushed(l, x) = Pushed(l, x)
  BY DEF Recency!Pushed, Pushed, Recency!Cons, Cons
<1>4. \A l, x : Recency!Used(l, x) = Used(l, x)
  BY <1>3 DEF Recency!Used, Used, Recency!Contains, Contains, Recency!Removed, Removed,
              Recency!RemoveAt, RemoveAt, Recency!Place, Place
<1> QED BY <1>1, <1>2, <1>3, <1>4

\* Insert puts x in front and moves every other element one place back.
LEMMA PushedPlaces ==
  ASSUME NEW S, NEW l \in Seq(S), NEW x \in S
  PROVE  /\ Pushed(l, x) \in Seq(S)
         /\ Len(Pushed(l, x)) = Len(l) + 1
         /\ Pushed(l, x)[1] = x
         /\ \A i \in 1 .. Len(l) : Pushed(l, x)[i + 1] = l[i]
<1>1. Pushed(l, x) = Recency!Pushed(l, x)
  BY SameOperators
<1>2. Recency!Pushed(l, x) \in Seq(S) /\ Len(Recency!Pushed(l, x)) = Len(l) + 1
  BY ONLY Recency!PushedPlaces
<1>3. Recency!Pushed(l, x)[1] = x
  BY ONLY Recency!PushedPlaces
<1>4. ASSUME NEW i \in 1 .. Len(l) PROVE Recency!Pushed(l, x)[i + 1] = l[i]
  BY ONLY Recency!PushedPlace
<1> QED BY <1>1, <1>2, <1>3, <1>4

\* The same, one place at a time.
LEMMA PushedPlace ==
  ASSUME NEW S, NEW l \in Seq(S), NEW x \in S, NEW i \in 1 .. Len(l)
  PROVE  Pushed(l, x)[i + 1] = l[i]
<1>1. Recency!Pushed(l, x)[i + 1] = l[i]
  BY Recency!PushedPlace
<1> QED BY <1>1, SameOperators

\* Insert keeps a list without repetition when x is not in it yet.
LEMMA PushedDistinct ==
  ASSUME NEW S, NEW l \in Seq(S), NEW x \in S, IsInjective(l), x \notin ToSet(l)
  PROVE  /\ IsInjective(Pushed(l, x))
         /\ ToSet(Pushed(l, x)) = ToSet(l) \cup {x}
<1>1. Recency!IsInjective(l) /\ x \notin Recency!ToSet(l)
  BY SameOperators
<1>2. /\ Recency!IsInjective(Recency!Pushed(l, x))
      /\ Recency!ToSet(Recency!Pushed(l, x)) = Recency!ToSet(l) \cup {x}
  BY <1>1, Recency!PushedDistinct
<1> QED BY <1>2, SameOperators

\* Use leaves x in front; apart from that the elements stay what they were.
LEMMA UsedDistinct ==
  ASSUME NEW S, NEW l \in Seq(S), NEW x \in S, IsInjective(l)
  PROVE  /\ Used(l, x) \in Seq(S)
         /\ Used(l, x)[1] = x
         /\ Len(Used(l, x)) = IF x \in ToSet(l) THEN Len(l) ELSE Len(l) + 1
         /\ IsInjective(Used(l, x))
         /\ ToSet(Used(l, x)) = ToSet(l) \cup {x}
<1>1. Recency!IsInjective(l)
  BY SameOperators
<1>2. /\ Recency!Used(l, x) \in Seq(S)
      /\ Recency!Used(l, x)[1] = x
      /\ Len(Recency!Used(l, x)) = IF x \in Recency!ToSet(l) THEN Len(l) ELSE Len(l) + 1
      /\ Recency!IsInjective(Recency!Used(l, x))
      /\ Recency!ToSet(Recency!Used(l, x)) = Recency!ToSet(l) \cup {x}
  BY <1>1, Recency!UsedDistinct
<1>3. Recency!Used(l, x) = Used(l, x)
  BY SameOperators
<1> QED BY <1>2, <1>3, SameOperators
-----------------------------------------------------------------------------
(* The operators of BlockCache: the arithmetic of blocks, and what one purge  *)
(* does to a list.                                                            *)

\* A position is the start of its block plus its offset in the block.
LEMMA BlockArithmetic ==
  ASSUME NEW position \in Nat
  PROVE  /\ ToBlockId(position) \in Nat
         /\ Offset(position) \in 0 .. BlockSize - 1
         /\ position = BlockStart(ToBlockId(position)) + Offset(position)
BY BlockSizeAssumption DEF ToBlockId, Offset, BlockStart

\* The block and the offset are the only ones of which this is true.
LEMMA BlockUnique ==
  ASSUME NEW id \in Nat, NEW at \in 0 .. BlockSize - 1
  PROVE  /\ BlockStart(id) \in Nat
         /\ ToBlockId(BlockStart(id) + at) = id
         /\ Offset(BlockStart(id) + at) = at
BY BlockSizeAssumption DEF ToBlockId, Offset, BlockStart

\* The position after the last byte of a block starts the next block.
LEMMA NextBlock ==
  ASSUME NEW id \in Nat
  PROVE  BlockStart(id) + BlockSize = BlockStart(id + 1)
BY BlockSizeAssumption DEF BlockStart

\* A non-empty set of numbers up to n has a largest one.
LEMMA LastPlace ==
  ASSUME NEW n \in Nat, NEW T \in SUBSET (0 .. n), T # {}
  PROVE  \E i \in T : \A j \in T : j <= i
<1> DEFINE D == {n - i : i \in T}
<1>1. D \subseteq Nat /\ D # {}
  <2>1. \A i \in T : n - i \in Nat
    OBVIOUS
  <2> QED BY <2>1
<1>2. PICK d \in D : \A e \in D : ~(<<e, d>> \in OpToRel(<, Nat))
  <2> HIDE DEF D
  <2> QED BY <1>1, NatLessThanWellFounded, WFMin
<1>3. \A e \in D : ~(e < d)
  BY <1>1, <1>2 DEF OpToRel
<1>4. PICK i \in T : d = n - i
  OBVIOUS
<1>5. \A j \in T : j <= i
  <2> TAKE j \in T
  <2>1. n - j \in D
    OBVIOUS
  <2>2. ~(n - j < n - i)
    BY <1>3, <1>4, <2>1
  <2> QED BY <2>2
<1> QED BY <1>5

\* If some block is not pinned, PurgeIfNecessary finds the last such block.
LEMMA VictimExists ==
  ASSUME NEW l \in Seq(Nat), NEW range, CanPurge(l, range)
  PROVE  /\ VictimPlace(l, range) \in DOMAIN l
         /\ ~Pinned(range, Victim(l, range))
         /\ \A j \in VictimPlace(l, range) + 1 .. Len(l) : Pinned(range, l[j])
<1> DEFINE T == {i \in 1 .. Len(l) : ~Pinned(range, l[i])}
<1>1. Len(l) \in Nat /\ DOMAIN l = 1 .. Len(l)
  OBVIOUS
<1>2. T # {} /\ T \in SUBSET (0 .. Len(l))
  BY <1>1 DEF CanPurge
<1>3. PICK i \in T : \A j \in T : j <= i
  BY <1>1, <1>2, LastPlace
<1>4. i \in DOMAIN l /\ ~Pinned(range, l[i])
  BY <1>1
<1>5. \A j \in i + 1 .. Len(l) : Pinned(range, l[j])
  BY <1>1, <1>3
<1> HIDE DEF T
<1> QED BY <1>4, <1>5 DEF VictimPlace, Victim

\* The end of a list put in front of a beginning of it, place by place.
LEMMA SplicedPlaces ==
  ASSUME NEW l \in Seq(Nat), NEW k \in 0 .. Len(l), NEW j \in 0 .. Len(l)
  PROVE  LET m == SubSeq(l, k + 1, Len(l)) \o SubSeq(l, 1, j)
         IN  /\ m \in Seq(Nat) /\ Len(m) = Len(l) - k + j
             /\ \A i \in 1 .. Len(l) - k + j :
                  m[i] = IF i <= Len(l) - k THEN l[k + i] ELSE l[i - (Len(l) - k)]
<1> DEFINE n == Len(l)
           a == SubSeq(l, k + 1, n)
           b == SubSeq(l, 1, j)
           m == a \o b
<1>1. n \in Nat /\ DOMAIN l = 1 .. n /\ \A i \in 1 .. n : l[i] \in Nat
  OBVIOUS
<1>4. /\ a \in Seq(Nat) /\ Len(a) = n - k
      /\ \A i \in 1 .. n - k : a[i] = l[k + i]
  <2>1. \A i \in k + 1 .. n : l[i] \in Nat
    BY <1>1
  <2>2. /\ a \in Seq(Nat)
        /\ Len(a) = IF k + 1 <= n THEN n - (k + 1) + 1 ELSE 0
        /\ \A i \in 1 .. n - (k + 1) + 1 : a[i] = l[(k + 1) + i - 1]
    BY <1>1, <2>1, SubSeqProperties
  <2> HIDE DEF n, a
  <2>3. Len(a) = n - k
    BY <1>1, <2>2
  <2>4. \A i \in 1 .. n - k : i \in 1 .. n - (k + 1) + 1 /\ (k + 1) + i - 1 = k + i
    BY <1>1
  <2> QED BY <2>2, <2>3, <2>4
<1>5. /\ b \in Seq(Nat) /\ Len(b) = j
      /\ \A i \in 1 .. j : b[i] = l[i]
  <2>1. \A i \in 1 .. j : l[i] \in Nat
    BY <1>1
  <2>2. /\ b \in Seq(Nat)
        /\ Len(b) = IF 1 <= j THEN j - 1 + 1 ELSE 0
        /\ \A i \in 1 .. j - 1 + 1 : b[i] = l[1 + i - 1]
    BY <1>1, <2>1, SubSeqProperties
  <2> HIDE DEF n, b
  <2>3. Len(b) = j
    BY <1>1, <2>2
  <2>4. \A i \in 1 .. j : i \in 1 .. j - 1 + 1 /\ 1 + i - 1 = i
    BY <1>1
  <2> QED BY <2>2, <2>3, <2>4
<1> HIDE DEF a, b
<1>6. /\ m \in Seq(Nat) /\ Len(m) = n - k + j
      /\ \A i \in 1 .. n - k + j :
           m[i] = IF i <= n - k THEN l[k + i] ELSE l[i - (n - k)]
  <2>1. /\ m \in Seq(Nat)
        /\ Len(m) = Len(a) + Len(b)
        /\ \A i \in 1 .. Len(a) + Len(b) : m[i] = IF i <= Len(a) THEN a[i] ELSE b[i - Len(a)]
    BY ONLY <1>4, <1>5, ConcatProperties
  <2> HIDE DEF m, n
  <2>2. Len(m) = n - k + j
    BY <1>1, <1>4, <1>5, <2>1
  <2>3. ASSUME NEW i \in 1 .. n - k + j
        PROVE  m[i] = IF i <= n - k THEN l[k + i] ELSE l[i - (n - k)]
    <3>1. m[i] = IF i <= n - k THEN a[i] ELSE b[i - (n - k)]
      BY <1>1, <1>4, <1>5, <2>1
    <3>2. CASE i <= n - k
      BY <1>4, <3>1, <3>2
    <3>3. CASE ~(i <= n - k)
      <4>1. i - (n - k) \in 1 .. j
        BY <1>1, <3>3
      <4> QED BY <1>5, <3>1, <3>3, <4>1
    <3> QED BY <3>2, <3>3
  <2> QED BY <2>1, <2>2, <2>3
<1> QED BY <1>6 DEF a, b

\* A purge takes exactly the victim out of the list.
LEMMA PurgedDistinct ==
  ASSUME NEW l \in Seq(Nat), NEW range, CanPurge(l, range), IsInjective(l)
  PROVE  /\ Purged(l, range) \in Seq(Nat)
         /\ Len(Purged(l, range)) = Len(l) - 1
         /\ IsInjective(Purged(l, range))
         /\ ToSet(Purged(l, range)) = ToSet(l) \ {Victim(l, range)}
         /\ Victim(l, range) \in ToSet(l)
<1> DEFINE k == VictimPlace(l, range)
           n == Len(l)
           m == Purged(l, range)
<1>1. n \in Nat /\ DOMAIN l = 1 .. n /\ k \in 1 .. n /\ \A i \in 1 .. n : l[i] \in Nat
  BY VictimExists
<1>2. Victim(l, range) = l[k]
  BY DEF Victim
<1>3. m = SubSeq(l, k + 1, n) \o SubSeq(l, 1, k - 1)
  BY DEF Purged
<1> HIDE DEF k, m
<1>4. k \in 0 .. n /\ k - 1 \in 0 .. n /\ n - k + (k - 1) = n - 1
  BY <1>1
<1>6. /\ m \in Seq(Nat) /\ Len(m) = n - 1
      /\ \A i \in 1 .. n - 1 : m[i] = IF i <= n - k THEN l[k + i] ELSE l[i - (n - k)]
  <2> DEFINE j == k - 1
             w == SubSeq(l, k + 1, n) \o SubSeq(l, 1, j)
  <2>1. k \in 0 .. n /\ j \in 0 .. n
    BY <1>4
  <2>2. m = w /\ n - k + j = n - 1
    BY <1>3, <1>4
  <2> HIDE DEF j
  <2>3. /\ w \in Seq(Nat) /\ Len(w) = n - k + j
        /\ \A i \in 1 .. n - k + j : w[i] = IF i <= n - k THEN l[k + i] ELSE l[i - (n - k)]
    BY <2>1, SplicedPlaces
  <2> HIDE DEF w, n
  <2> QED BY <2>2, <2>3
<1> HIDE DEF n
<1> DEFINE from(i) == IF i <= n - k THEN k + i ELSE i - (n - k)
<1>7. DOMAIN m = 1 .. n - 1
  BY <1>6
<1>8. \A i \in 1 .. n - 1 : from(i) \in (1 .. n) \ {k} /\ m[i] = l[from(i)]
  <2> TAKE i \in 1 .. n - 1
  <2>1. CASE i <= n - k
    <3>1. i \in 1 .. n - k /\ k + i \in (1 .. n) \ {k}
      BY <1>1, <2>1
    <3>2. m[i] = l[k + i]
      BY <1>6, <2>1
    <3> QED BY <2>1, <3>1, <3>2
  <2>2. CASE ~(i <= n - k)
    <3>1. i - (n - k) \in 1 .. k - 1 /\ i - (n - k) \in (1 .. n) \ {k}
      BY <1>1, <2>2
    <3>2. m[i] = l[i - (n - k)]
      BY <1>6, <2>2
    <3> QED BY <2>2, <3>1, <3>2
  <2> QED BY <2>1, <2>2
<1>9. \A i, j \in 1 .. n - 1 : from(i) = from(j) => i = j
  BY <1>1
<1>10. \A j \in (1 .. n) \ {k} : \E i \in 1 .. n - 1 : from(i) = j
  <2> TAKE j \in (1 .. n) \ {k}
  <2>1. CASE j > k
    <3>1. j - k \in 1 .. n - 1 /\ from(j - k) = j
      BY <1>1, <2>1
    <3> QED BY <3>1
  <2>2. CASE j < k
    <3>1. j + (n - k) \in 1 .. n - 1 /\ from(j + (n - k)) = j
      BY <1>1, <2>2
    <3> QED BY <3>1
  <2> QED BY <1>1, <2>1, <2>2
<1> HIDE DEF from
<1>11. IsInjective(m)
  BY <1>1, <1>7, <1>8, <1>9 DEF IsInjective
<1>12. ToSet(m) = ToSet(l) \ {l[k]}
  <2>1. \A i \in 1 .. n - 1 : m[i] \in ToSet(l) \ {l[k]}
    BY <1>1, <1>8 DEF ToSet, IsInjective
  <2>2. \A j \in 1 .. n : l[j] # l[k] => l[j] \in ToSet(m)
    BY <1>7, <1>8, <1>10 DEF ToSet
  <2> QED BY <1>1, <1>7, <2>1, <2>2 DEF ToSet
<1>13. l[k] \in ToSet(l)
  BY <1>1 DEF ToSet
<1> QED BY <1>2, <1>6, <1>11, <1>12, <1>13 DEF m, n

\* A list of more different blocks than the pinned range has ids holds one that
\* is not pinned.
LEMMA SomeBlockUnpinned ==
  ASSUME NEW l \in Seq(Nat), IsInjective(l),
         NEW range \in [first : Nat, second : Nat], range.first <= range.second,
         Len(l) > range.second - range.first + 1
  PROVE  CanPurge(l, range)
<1> SUFFICES ASSUME \A i \in DOMAIN l : l[i] \in range.first .. range.second
             PROVE  FALSE
  BY DEF CanPurge, Pinned
<1> DEFINE S == 1 .. Len(l)
           T == range.first .. range.second
<1>1. DOMAIN l = S /\ Len(l) \in Nat /\ l \in [S -> T]
  OBVIOUS
<1>2. IsFiniteSet(S) /\ Cardinality(S) = Len(l)
  <2> DEFINE n == Len(l)
  <2>1. n \in Nat /\ n \in Int /\ 1 \in Int
    BY <1>1
  <2> HIDE DEF n
  <2>2. IsFiniteSet(1 .. n) /\ Cardinality(1 .. n) = IF 1 > n THEN 0 ELSE n - 1 + 1
    BY ONLY <2>1, FS_Interval, Zenon
  <2>3. Cardinality(1 .. n) = n
    BY <2>1, <2>2
  <2> QED BY <2>2, <2>3 DEF n
<1>3. IsFiniteSet(T) /\ Cardinality(T) = range.second - range.first + 1
  BY FS_Interval
<1>4. Cardinality(T) < Cardinality(S)
  BY <1>1, <1>2, <1>3
<1> HIDE DEF S, T
<1>5. \E x, y \in S : x # y /\ l[x] = l[y]
  BY <1>1, <1>2, <1>3, <1>4, FS_PigeonHole
<1> QED BY <1>1, <1>5 DEF IsInjective
-----------------------------------------------------------------------------
(* The inductive invariant *)

\* The range that is pinned is never wider than the two constants allow.
PinnedNarrow ==
  /\ pinned_range.first <= pinned_range.second
  /\ pinned_range.second - pinned_range.first <= MaxLookAheadIndex + MaxLookBehindIndex

\* Only a fetcher that is delivering a 2xx body holds the lock.
WriterOpen == writing > 0 => fetcher.state = "open" /\ fetcher.code \in {200, 206}

FetcherStates == fetcher.state = "created" => fetcher.code = 0

IInv ==
  /\ BufferTypeOK
  /\ PinnedNarrow
  /\ WriterOpen
  /\ FetcherStates
  /\ CacheMirrorsLru
  /\ NoHoleInBlock
  /\ FetchTracksWriter
  /\ ContentRight

\* The assumptions on the constants, one by one.
LEMMA ConstantTypes ==
  /\ Length \in Nat \ {0} /\ MaxChunk \in Nat \ {0} /\ BlockSize \in Nat \ {0}
  /\ MaxWaitForReaderOffset \in Nat /\ MaxTasks \in Nat /\ MaxPosition \in Nat
  /\ MaxLookAheadIndex \in Nat /\ MaxLookBehindIndex \in Nat /\ MaxCacheSize \in Nat
  /\ MaxCacheSize > MaxLookAheadIndex + 1 + MaxLookBehindIndex
  /\ ResponseCodes \subseteq {200, 206, 404} /\ FetchMayFail \in BOOLEAN
BY SizeAssumption, CacheAssumption, BlockSizeAssumption

LEMMA InitIInv == BufferInit => IInv
<1> SUFFICES ASSUME BufferInit PROVE IInv
  OBVIOUS
<1> USE DEF BufferInit
<1>1. BufferTypeOK
  <2>1. cache \in [DOMAIN cache -> Seq(Nat \cup {Garbage})]
    OBVIOUS
  <2>2. pinned_range \in [first : Nat, second : Nat] /\ lru \in Seq(Nat) /\ io_tasks \in Seq(Nat)
    OBVIOUS
  <2>3. fetcher \in [state : {"none", "created", "open", "done"},
                    code : Codes, next : Nat]
    BY DEF NoFetcher, Fetcher, Codes
  <2> QED BY <2>1, <2>2, <2>3 DEF BufferTypeOK
<1>2. PinnedNarrow /\ WriterOpen /\ FetcherStates
  BY SizeAssumption DEF PinnedNarrow, WriterOpen, FetcherStates, NoFetcher, Fetcher
<1>3. CacheMirrorsLru
  BY CacheAssumption DEF CacheMirrorsLru, ToSet, IsInjective
<1>4. Offset(WritePos) = 0
  BY BlockSizeAssumption DEF WritePos, Offset
<1>5. NoHoleInBlock
  BY <1>4 DEF NoHoleInBlock
<1>6. FetchTracksWriter /\ ContentRight
  BY DEF FetchTracksWriter, ContentRight, NoFetcher, Fetcher
<1> QED BY <1>1, <1>2, <1>3, <1>5, <1>6 DEF IInv

\* When the cache is full, one of its blocks is not pinned.
LEMMA FullCacheCanPurge ==
  ASSUME BufferTypeOK, CacheMirrorsLru, PinnedNarrow
  PROVE  PurgeTerminates
<1> SUFFICES ASSUME Len(lru) = MaxCacheSize PROVE CanPurge(lru, pinned_range)
  BY DEF PurgeTerminates
<1>1. /\ lru \in Seq(Nat) /\ IsInjective(lru)
      /\ pinned_range \in [first : Nat, second : Nat]
      /\ pinned_range.first <= pinned_range.second
  BY DEF BufferTypeOK, CacheMirrorsLru, PinnedNarrow
<1>2. Len(lru) > pinned_range.second - pinned_range.first + 1
  <2>1. pinned_range.first \in Nat /\ pinned_range.second \in Nat
    BY <1>1
  <2> QED BY <2>1, SizeAssumption, CacheAssumption DEF PinnedNarrow
<1> QED BY <1>1, <1>2, SomeBlockUnpinned

\* Actions that leave the cache alone.
LEMMA StartIInv == ASSUME IInv, Start PROVE IInv'
<1> USE DEF Start, Unlocked
<1>1. BufferTypeOK'
  BY DEF IInv, BufferTypeOK
<1>2. PinnedNarrow' /\ WriterOpen' /\ FetcherStates' /\ CacheMirrorsLru'
  BY DEF IInv, PinnedNarrow, WriterOpen, FetcherStates, CacheMirrorsLru
<1>3. Offset(WritePos)' = 0
  BY BlockSizeAssumption DEF WritePos, Offset
<1>4. NoHoleInBlock'
  BY <1>3 DEF IInv, NoHoleInBlock
<1>5. FetchTracksWriter'
  BY DEF IInv, FetchTracksWriter, Last
<1>6. ContentRight'
  BY DEF IInv, ContentRight, RightBlock
<1> QED BY <1>1, <1>2, <1>4, <1>5, <1>6 DEF IInv

LEMMA SeekIInv == ASSUME IInv, NEW position \in ReadPositions, Seek(position) PROVE IInv'
<1> USE DEF Seek, Unlocked
<1> DEFINE id == ToBlockId(position)
<1>1. position \in Nat /\ id \in Nat /\ BlockStart(id) \in Nat
  <2>1. position \in Nat
    BY ConstantTypes DEF ReadPositions
  <2>2. id \in Nat
    BY <2>1, BlockArithmetic
  <2>3. BlockStart(id) \in Nat
    <3> HIDE DEF id
    <3> QED BY <2>2, ConstantTypes DEF BlockStart
  <2> QED BY <2>1, <2>2, <2>3
<1>2. FetchStart(position) \in Nat /\ \E b \in Nat : FetchStart(position) = BlockStart(b)
  <2>1. CASE id > 0
    <3>1. id - 1 \in Nat
      BY <1>1, <2>1
    <3>2. BlockStart(id - 1) \in Nat
      BY <3>1, BlockSizeAssumption DEF BlockStart
    <3> QED BY <2>1, <3>1, <3>2 DEF FetchStart
  <2>2. CASE ~(id > 0)
    <3>1. BlockStart(0) = 0
      BY BlockSizeAssumption DEF BlockStart
    <3> QED BY <2>2, <3>1 DEF FetchStart
  <2> QED BY <2>1, <2>2
<1>3. PinnedAround(id) \in [first : Nat, second : Nat]
  BY <1>1, SizeAssumption DEF PinnedAround
<1> HIDE DEF id
<1>4. BufferTypeOK'
  <2>1. /\ write_start_pos' \in Nat /\ write_offset' \in Nat
        /\ io_tasks' \in Seq(Nat)
    <3>1. write_start_pos \in Nat /\ write_offset \in Nat /\ io_tasks \in Seq(Nat)
      BY DEF IInv, BufferTypeOK
    <3>2. Append(io_tasks, FetchStart(position)) \in Seq(Nat)
      BY <1>2, <3>1
    <3>3. \/ UNCHANGED <<write_start_pos, write_offset, io_tasks>>
          \/ Refetch(position)
      OBVIOUS
    <3> HIDE DEF Seek
    <3>4. CASE UNCHANGED <<write_start_pos, write_offset, io_tasks>>
      BY <3>1, <3>4
    <3>5. CASE Refetch(position)
      BY <1>2, <3>2, <3>5 DEF Refetch
    <3> QED BY <3>3, <3>4, <3>5
  <2>2. pinned_range' \in [first : Nat, second : Nat]
    BY <1>3 DEF id
  <2>3. UNCHANGED <<total_bytes, cache, lru, fetcher, writing, stale>>
    OBVIOUS
  <2> HIDE DEF Seek
  <2> QED BY <2>1, <2>2, <2>3 DEF IInv, BufferTypeOK
<1>5. PinnedNarrow'
  <2>1. id > MaxLookAheadIndex \/ ~(id > MaxLookAheadIndex)
    OBVIOUS
  <2>2. {MaxLookAheadIndex, MaxLookBehindIndex} \subseteq Nat
    BY SizeAssumption
  <2>3. pinned_range' = PinnedAround(id)
    BY DEF id
  <2> QED BY <1>1, <2>1, <2>2, <2>3 DEF PinnedNarrow, PinnedAround
<1>6. WriterOpen' /\ FetcherStates' /\ CacheMirrorsLru'
  BY DEF IInv, WriterOpen, FetcherStates, CacheMirrorsLru
<1>7. NoHoleInBlock'
  <2>1. CASE UNCHANGED <<write_start_pos, write_offset>>
    BY <2>1 DEF IInv, NoHoleInBlock, WritePos
  <2>2. CASE Refetch(position)
    <3>1. PICK b \in Nat : WritePos' = BlockStart(b) + 0
      BY <1>2, <2>2 DEF Refetch, WritePos
    <3>2. Offset(BlockStart(b) + 0) = 0
      BY BlockUnique, BlockSizeAssumption
    <3> QED BY <3>1, <3>2 DEF IInv, NoHoleInBlock
  <2> QED BY <2>1, <2>2
<1>8. FetchTracksWriter'
  <2>1. CASE UNCHANGED <<write_start_pos, write_offset, io_tasks>>
    BY <2>1 DEF IInv, FetchTracksWriter, WritePos
  <2>2. CASE Refetch(position)
    <3>1. io_tasks \in Seq(Nat)
      BY DEF IInv, BufferTypeOK
    <3>2. /\ Append(io_tasks, FetchStart(position)) # << >>
          /\ Last(Append(io_tasks, FetchStart(position))) = FetchStart(position)
      BY <1>2, <3>1, AppendProperties DEF Last
    <3> QED BY <2>2, <3>2 DEF FetchTracksWriter, Refetch
  <2> QED BY <2>1, <2>2
<1>9. ContentRight'
  BY DEF IInv, ContentRight, RightBlock
<1> QED BY <1>4, <1>5, <1>6, <1>7, <1>8, <1>9 DEF IInv

LEMMA CreateIInv == ASSUME IInv, CreateFetcherFrom PROVE IInv'
<1> USE DEF CreateFetcherFrom, Unlocked
<1>1. /\ io_tasks \in Seq(Nat) /\ io_tasks # << >>
      /\ Head(io_tasks) \in Nat /\ Tail(io_tasks) \in Seq(Nat)
      /\ Len(Tail(io_tasks)) = Len(io_tasks) - 1
      /\ Len(io_tasks) \in Nat \ {0}
  BY HeadTailProperties DEF IInv, BufferTypeOK
<1>2. /\ Tail(io_tasks) = << >> => Last(io_tasks) = Head(io_tasks)
      /\ Tail(io_tasks) # << >> => Last(Tail(io_tasks)) = Last(io_tasks)
  <2>1. \A i \in 1 .. Len(Tail(io_tasks)) : Tail(io_tasks)[i] = io_tasks[i + 1]
    BY <1>1
  <2>2. CASE Tail(io_tasks) = << >>
    BY <1>1, <2>2 DEF Last
  <2>3. CASE Tail(io_tasks) # << >>
    <3>1. Len(Tail(io_tasks)) \in 1 .. Len(Tail(io_tasks))
      BY <1>1, <2>3
    <3> QED BY <1>1, <2>1, <2>3, <3>1 DEF Last
  <2> QED BY <2>2, <2>3
<1>3. BufferTypeOK'
  <2>1. 0 \in Codes
    BY DEF Codes
  <2> QED BY <1>1, <2>1 DEF IInv, BufferTypeOK, Fetcher
<1>4. PinnedNarrow' /\ WriterOpen' /\ FetcherStates' /\ CacheMirrorsLru'
  BY DEF IInv, PinnedNarrow, WriterOpen, FetcherStates, CacheMirrorsLru, Fetcher
<1>5. NoHoleInBlock' /\ ContentRight'
  BY DEF IInv, NoHoleInBlock, WritePos, ContentRight, RightBlock
<1>6. FetchTracksWriter'
  <2> SUFFICES ASSUME ~stale
               PROVE  /\ Tail(io_tasks) # << >> =>
                           write_offset = 0 /\ writing = 0
                           /\ Last(Tail(io_tasks)) = write_start_pos
                      /\ Tail(io_tasks) = << >> => Head(io_tasks) = WritePos
    BY DEF FetchTracksWriter, Fetcher, WritePos
  <2>1. write_offset = 0 /\ writing = 0 /\ Last(io_tasks) = write_start_pos
    BY <1>1 DEF IInv, FetchTracksWriter
  <2>2. WritePos = write_start_pos
    BY <2>1 DEF IInv, BufferTypeOK, WritePos
  <2> QED BY <1>2, <2>1, <2>2
<1> QED BY <1>3, <1>4, <1>5, <1>6 DEF IInv

LEMMA DidInitializeIInv == ASSUME IInv, DidInitialize PROVE IInv'
<1> USE DEF DidInitialize, Unlocked, Fetcher
<1>1. PICK code \in Answers :
        /\ fetcher' = [state |-> "open", code |-> code,
                       next |-> IF code = 206 THEN fetcher.next ELSE 0]
        /\ stale' = (stale \/ (code = 200 /\ fetcher.next # 0))
  OBVIOUS
<1>2. fetcher.next \in Nat /\ code \in Codes /\ code \in {200, 206, 404}
  BY <1>1, SizeAssumption DEF IInv, BufferTypeOK, Answers, Codes
<1>3. BufferTypeOK'
  BY <1>1, <1>2 DEF IInv, BufferTypeOK
<1>4. PinnedNarrow' /\ WriterOpen' /\ FetcherStates' /\ CacheMirrorsLru'
  BY <1>1 DEF IInv, PinnedNarrow, WriterOpen, FetcherStates, CacheMirrorsLru
<1>5. NoHoleInBlock' /\ ContentRight'
  <2>1. NoHoleInBlock'
    BY DEF IInv, NoHoleInBlock, WritePos
  <2>2. (\A b \in DOMAIN cache' : RightBlock(b)') <=> (\A b \in DOMAIN cache : RightBlock(b))
    BY DEF RightBlock
  <2>3. ~stale' => ~stale
    <3>1. stale' = (stale \/ (code = 200 /\ fetcher.next # 0)) /\ stale \in BOOLEAN
      BY <1>1 DEF IInv, BufferTypeOK
    <3> QED BY <3>1
  <2> QED BY <2>1, <2>2, <2>3 DEF IInv, ContentRight
<1>6. FetchTracksWriter'
  <2>1. /\ stale' = (stale \/ (code = 200 /\ fetcher.next # 0))
        /\ stale \in BOOLEAN /\ fetcher.state = "created"
    BY <1>1 DEF IInv, BufferTypeOK
  <2>2. ~stale' => ~stale /\ (code = 200 => fetcher.next = 0)
    BY <2>1
  <2>3. fetcher.code = 0
    BY <2>1 DEF IInv, FetcherStates
  <2>4. fetcher'.code = code /\ (code # 404 /\ ~stale' => fetcher'.next = fetcher.next)
    BY <1>1, <1>2, <2>2
  <2>5. FetchTracksWriter
    BY DEF IInv
  <2> QED BY <1>1, <2>1, <2>2, <2>3, <2>4, <2>5 DEF FetchTracksWriter, WritePos
<1> QED BY <1>3, <1>4, <1>5, <1>6 DEF IInv

LEMMA OnWriteIInv == ASSUME IInv, OnWrite PROVE IInv'
<1>1. PICK n \in 1 .. MaxChunk :
        /\ fetcher.next + n <= Length
        /\ \/ /\ fetcher.code \in {200, 206}
              /\ total_bytes' \in ReportedSizes(n)
              /\ writing' = n
              /\ stale' = (stale \/ io_tasks # << >>)
              /\ UNCHANGED fetcher
           \/ /\ fetcher.code = 404
              /\ fetcher' = [fetcher EXCEPT !.next = @ + n]
              /\ UNCHANGED <<total_bytes, writing, stale>>
  BY DEF OnWrite
<1>2. /\ writing = 0 /\ fetcher.state = "open"
      /\ UNCHANGED <<write_start_pos, write_offset, cache, lru, pinned_range, io_tasks>>
  BY DEF OnWrite, Unlocked
<1>3. /\ fetcher \in [state : {"none", "created", "open", "done"},
                     code : Codes, next : Nat]
      /\ total_bytes \in Nat \cup {-1} /\ stale \in BOOLEAN
  BY DEF IInv, BufferTypeOK
<1>4. n \in Nat \ {0} /\ fetcher.next + n \in Nat /\ Length \in Nat
  BY <1>1, <1>3, ConstantTypes
<1>5. CASE fetcher.code \in {200, 206}
  <2>1. /\ total_bytes' \in ReportedSizes(n) /\ writing' = n
        /\ stale' = (stale \/ io_tasks # << >>) /\ UNCHANGED fetcher
    BY <1>1, <1>5
  <2>2. total_bytes' \in Nat \cup {-1} /\ stale' \in BOOLEAN
    BY <1>3, <1>4, <2>1 DEF ReportedSizes
  <2>3. BufferTypeOK'
    BY <1>2, <1>4, <2>1, <2>2 DEF IInv, BufferTypeOK
  <2>4. PinnedNarrow' /\ WriterOpen' /\ FetcherStates' /\ CacheMirrorsLru'
    BY <1>2, <1>5, <2>1 DEF IInv, PinnedNarrow, WriterOpen, FetcherStates, CacheMirrorsLru
  <2>5. NoHoleInBlock' /\ FetchTracksWriter' /\ ContentRight'
    BY <1>2, <2>1 DEF IInv, NoHoleInBlock, FetchTracksWriter, ContentRight, RightBlock, WritePos
  <2> QED BY <2>3, <2>4, <2>5 DEF IInv
<1>6. CASE fetcher.code = 404
  <2>1. /\ fetcher' = [fetcher EXCEPT !.next = fetcher.next + n]
        /\ UNCHANGED <<total_bytes, writing, stale>>
    BY <1>1, <1>6
  <2>2. /\ fetcher' \in [state : {"none", "created", "open", "done"},
                        code : Codes, next : Nat]
        /\ fetcher'.state = "open" /\ fetcher'.code = 404
    BY <1>2, <1>3, <1>4, <1>6, <2>1
  <2>3. BufferTypeOK'
    BY <1>2, <2>1, <2>2 DEF IInv, BufferTypeOK
  <2>4. PinnedNarrow' /\ WriterOpen' /\ FetcherStates' /\ CacheMirrorsLru'
    BY <1>2, <2>1, <2>2 DEF IInv, PinnedNarrow, WriterOpen, FetcherStates, CacheMirrorsLru
  <2>5. NoHoleInBlock' /\ FetchTracksWriter' /\ ContentRight'
    BY <1>2, <2>1, <2>2 DEF IInv, NoHoleInBlock, FetchTracksWriter, ContentRight, RightBlock, WritePos
  <2> QED BY <2>3, <2>4, <2>5 DEF IInv
<1> QED BY <1>1, <1>5, <1>6

LEMMA OnFinishIInv == ASSUME IInv, OnFinish PROVE IInv'
<1> USE DEF OnFinish, Unlocked
<1>1. BufferTypeOK'
  BY DEF IInv, BufferTypeOK
<1>2. PinnedNarrow' /\ WriterOpen' /\ FetcherStates' /\ CacheMirrorsLru'
  BY DEF IInv, BufferTypeOK, PinnedNarrow, WriterOpen, FetcherStates, CacheMirrorsLru
<1>3. NoHoleInBlock' /\ ContentRight'
  BY DEF IInv, NoHoleInBlock, WritePos, ContentRight, RightBlock
<1>4. FetchTracksWriter'
  BY DEF IInv, BufferTypeOK, FetchTracksWriter, WritePos
<1> QED BY <1>1, <1>2, <1>3, <1>4 DEF IInv

\* The facts about one turn of OnWrite's loop that its preservation proofs share.
\* The names stand for the LET definitions of WriteBlock.
LEMMA WriteBlockFacts ==
  ASSUME IInv, WriteBlock,
         NEW id, id = ToBlockId(WritePos),
         NEW at, at = Offset(WritePos),
         NEW n, n = IF writing < BlockSize - at THEN writing ELSE BlockSize - at,
         NEW entry, entry = IF id \in DOMAIN cache THEN cache[id] ELSE << >>
  PROVE  /\ id \in Nat /\ at \in 0 .. BlockSize - 1 /\ WritePos = BlockStart(id) + at
         /\ BlockStart(id) \in Nat
         /\ n \in 1 .. BlockSize - at /\ n <= writing
         /\ entry \in Seq(Nat \cup {Garbage})
         /\ at > 0 => id \in DOMAIN cache /\ Len(entry) = at
         /\ id \in DOMAIN cache'
         /\ DOMAIN cache' \subseteq DOMAIN cache \cup {id}
         /\ cache' = [b \in DOMAIN cache' |-> IF b = id THEN Written(entry, at, n) ELSE cache[b]]
         /\ \A b \in DOMAIN cache \ DOMAIN cache' : ~Pinned(pinned_range, b)
         /\ lru' \in Seq(Nat) /\ CacheMirrorsLru'
         /\ write_offset' = write_offset + n
         /\ fetcher' = [fetcher EXCEPT !.next = fetcher.next + n]
         /\ writing' = writing - n
         /\ UNCHANGED <<write_start_pos, total_bytes, pinned_range, io_tasks, stale>>
<1> DEFINE listed == IF id \in DOMAIN cache THEN Used(lru, id) ELSE Pushed(lru, id)
           purge == id \notin DOMAIN cache /\ Len(listed) > MaxCacheSize
           kept == (DOMAIN cache \cup {id}) \
                   (IF purge THEN {Victim(listed, pinned_range)} ELSE {})
<1>1. /\ write_start_pos \in Nat /\ write_offset \in Nat /\ writing \in Nat /\ lru \in Seq(Nat)
      /\ cache \in [DOMAIN cache -> Seq(Nat \cup {Garbage})]
      /\ DOMAIN cache = ToSet(lru) /\ IsInjective(lru) /\ Len(lru) <= MaxCacheSize
      /\ Len(lru) \in Nat /\ PurgeTerminates
  BY FullCacheCanPurge DEF IInv, BufferTypeOK, CacheMirrorsLru
<1>2. WritePos \in Nat
  BY <1>1 DEF WritePos
<1>3. /\ id \in Nat /\ at \in 0 .. BlockSize - 1 /\ WritePos = BlockStart(id) + at
  BY <1>2, BlockArithmetic
<1>4. BlockStart(id) \in Nat
  BY <1>3, ConstantTypes, BlockUnique
<1>5. writing # 0 /\ n \in 1 .. BlockSize - at /\ n <= writing
  <2>1. writing # 0
    BY DEF WriteBlock, Unlocked
  <2>2. writing \in Nat \ {0} /\ BlockSize - at \in Nat \ {0}
    <3>1. writing \in Nat /\ at \in 0 .. BlockSize - 1
      BY <1>1, <1>3
    <3>2. BlockSize \in Nat \ {0}
      BY ConstantTypes
    <3> QED BY ONLY <2>1, <3>1, <3>2
  <2>3. n \in Nat \ {0} /\ n <= BlockSize - at /\ n <= writing
    BY <2>2
  <2> HIDE DEF listed
  <2> QED BY <2>1, <2>2, <2>3
<1>6. /\ purge => CanPurge(listed, pinned_range)
      /\ lru' = IF purge THEN Purged(listed, pinned_range) ELSE listed
      /\ cache' = [b \in kept |-> IF b = id THEN Written(entry, at, n) ELSE cache[b]]
  BY DEF WriteBlock
<1>7. /\ write_offset' = write_offset + n
      /\ fetcher' = [fetcher EXCEPT !.next = fetcher.next + n]
      /\ writing' = writing - n
      /\ UNCHANGED <<write_start_pos, total_bytes, pinned_range, io_tasks, stale>>
  BY DEF WriteBlock
<1>8. entry \in Seq(Nat \cup {Garbage}) /\ (at > 0 => id \in DOMAIN cache /\ Len(entry) = at)
  BY <1>1 DEF IInv, NoHoleInBlock
<1>9. /\ listed \in Seq(Nat) /\ IsInjective(listed) /\ ToSet(listed) = DOMAIN cache \cup {id}
      /\ id \in DOMAIN cache => Len(listed) = Len(lru)
      /\ id \notin DOMAIN cache => Len(listed) = Len(lru) + 1
  <2>1. CASE id \in DOMAIN cache
    BY <1>1, <1>3, <2>1, UsedDistinct
  <2>2. CASE id \notin DOMAIN cache
    <3>1. lru \in Seq(Nat) /\ id \in Nat /\ IsInjective(lru) /\ id \notin ToSet(lru)
      BY <1>1, <1>3, <2>2
    <3>2. Pushed(lru, id) \in Seq(Nat) /\ Len(Pushed(lru, id)) = Len(lru) + 1
      BY ONLY <3>1, PushedPlaces
    <3>3. IsInjective(Pushed(lru, id)) /\ ToSet(Pushed(lru, id)) = ToSet(lru) \cup {id}
      BY ONLY <3>1, PushedDistinct
    <3>4. listed = Pushed(lru, id)
      BY <2>2
    <3> HIDE DEF listed
    <3> QED BY <1>1, <2>2, <3>2, <3>3, <3>4
  <2> QED BY <2>1, <2>2
<1>10. CASE ~purge
  <2>1. lru' = listed /\ kept = DOMAIN cache \cup {id}
    BY <1>6, <1>10
  <2>2. Len(listed) <= MaxCacheSize
    BY <1>1, <1>9, <1>10, ConstantTypes
  <2>3. DOMAIN cache' = DOMAIN cache \cup {id}
    BY <1>6, <2>1
  <2> HIDE DEF listed, purge, kept
  <2>4. CacheMirrorsLru'
    BY <1>9, <2>1, <2>2, <2>3 DEF CacheMirrorsLru
  <2> QED BY <1>3, <1>4, <1>5, <1>6, <1>7, <1>8, <1>9, <2>1, <2>3, <2>4
<1>11. CASE purge
  <2> DEFINE victim == Victim(listed, pinned_range)
  <2>1. Len(lru) = MaxCacheSize /\ Len(listed) = MaxCacheSize + 1
    <3>1. Len(listed) > MaxCacheSize /\ id \notin DOMAIN cache
      BY <1>11
    <3> HIDE DEF listed, purge, kept
    <3>2. Len(listed) = Len(lru) + 1
      BY <1>9, <3>1
    <3>3. Len(lru) \in Nat /\ Len(lru) <= MaxCacheSize /\ MaxCacheSize \in Nat
      BY <1>1, ConstantTypes
    <3> QED BY ONLY <3>1, <3>2, <3>3
  <2>2. CanPurge(lru, pinned_range) /\ CanPurge(listed, pinned_range)
    BY <1>1, <1>6, <1>11, <2>1 DEF PurgeTerminates
  <2>3. /\ lru' = Purged(listed, pinned_range) /\ kept = (DOMAIN cache \cup {id}) \ {victim}
    BY <1>6, <1>11
  <2>4. listed = Pushed(lru, id)
    BY <1>11
  <2> HIDE DEF listed, purge, kept
  <2>5. /\ lru' \in Seq(Nat) /\ Len(lru') = Len(listed) - 1 /\ IsInjective(lru')
        /\ ToSet(lru') = ToSet(listed) \ {victim}
    BY <1>9, <2>2, <2>3, PurgedDistinct
  <2>6. ~Pinned(pinned_range, victim)
    BY <1>9, <2>2, VictimExists
  <2>7. victim # id
    <3> DEFINE k == VictimPlace(listed, pinned_range)
    <3>1. /\ k \in 1 .. Len(listed) /\ victim = listed[k]
          /\ \A j \in k + 1 .. Len(listed) : Pinned(pinned_range, listed[j])
      <4>1. DOMAIN listed = 1 .. Len(listed)
        BY <1>9
      <4> QED BY <1>9, <2>2, <4>1, VictimExists DEF Victim
    <3> HIDE DEF k, victim
    <3>2. PICK i \in 1 .. Len(lru) : ~Pinned(pinned_range, lru[i])
      <4>1. DOMAIN lru = 1 .. Len(lru)
        BY <1>1
      <4> QED BY <2>2, <4>1 DEF CanPurge
    <3>3. listed[1] = id /\ listed[i + 1] = lru[i] /\ i + 1 \in 2 .. Len(listed)
      <4>1. Pushed(lru, id)[1] = id /\ Pushed(lru, id)[i + 1] = lru[i]
        <5>1. lru \in Seq(Nat) /\ id \in Nat
          BY <1>1, <1>3
        <5>2. Pushed(lru, id)[1] = id
          BY ONLY <5>1, PushedPlaces
        <5>3. i \in 1 .. Len(lru)
          OBVIOUS
        <5>4. Pushed(lru, id)[i + 1] = lru[i]
          BY ONLY <5>1, <5>3, PushedPlace
        <5> QED BY <5>2, <5>4
      <4>2. i + 1 \in 2 .. Len(listed)
        <5>1. Len(lru) \in Nat /\ Len(listed) = Len(lru) + 1
          BY <1>1, <2>1
        <5> QED BY ONLY <3>2, <5>1
      <4> QED BY <2>4, <3>2, <4>1, <4>2
    <3>4. ~(i + 1 \in k + 1 .. Len(listed))
      BY <3>1, <3>2, <3>3
    <3>5. k # 1
      BY <1>1, <2>1, <3>1, <3>3, <3>4, ConstantTypes
    <3>6. 1 \in DOMAIN listed /\ k \in DOMAIN listed
      BY <1>9, <2>1, <3>1, ConstantTypes
    <3> QED BY <1>9, <3>1, <3>3, <3>5, <3>6 DEF IsInjective
  <2> HIDE DEF victim
  <2>8. DOMAIN cache' = (DOMAIN cache \cup {id}) \ {victim}
    BY <1>6, <2>3
  <2>9. CacheMirrorsLru'
    BY <1>9, <2>1, <2>5, <2>8, ConstantTypes DEF CacheMirrorsLru
  <2>10. \A b \in DOMAIN cache \ DOMAIN cache' : ~Pinned(pinned_range, b)
    BY <2>6, <2>8
  <2> QED BY <1>3, <1>4, <1>5, <1>6, <1>7, <1>8, <2>3, <2>5, <2>7, <2>8, <2>9, <2>10
<1> HIDE DEF listed, purge, kept
<1> QED BY <1>10, <1>11

LEMMA WriteBlockIInv == ASSUME IInv, WriteBlock PROVE IInv'
<1> DEFINE id == ToBlockId(WritePos)
           at == Offset(WritePos)
           n == IF writing < BlockSize - at THEN writing ELSE BlockSize - at
           entry == IF id \in DOMAIN cache THEN cache[id] ELSE << >>
<1>1. /\ id \in Nat /\ at \in 0 .. BlockSize - 1 /\ WritePos = BlockStart(id) + at
      /\ BlockStart(id) \in Nat
      /\ n \in 1 .. BlockSize - at /\ n <= writing
      /\ entry \in Seq(Nat \cup {Garbage})
      /\ at > 0 => id \in DOMAIN cache /\ Len(entry) = at
      /\ id \in DOMAIN cache'
      /\ DOMAIN cache' \subseteq DOMAIN cache \cup {id}
      /\ cache' = [b \in DOMAIN cache' |-> IF b = id THEN Written(entry, at, n) ELSE cache[b]]
      /\ lru' \in Seq(Nat) /\ CacheMirrorsLru'
      /\ write_offset' = write_offset + n
      /\ fetcher' = [fetcher EXCEPT !.next = fetcher.next + n]
      /\ writing' = writing - n
      /\ UNCHANGED <<write_start_pos, total_bytes, pinned_range, io_tasks, stale>>
  <2>1. id = ToBlockId(WritePos) /\ at = Offset(WritePos)
        /\ n = (IF writing < BlockSize - at THEN writing ELSE BlockSize - at)
        /\ entry = (IF id \in DOMAIN cache THEN cache[id] ELSE << >>)
    OBVIOUS
  <2> HIDE DEF id, at, n, entry
  <2> QED BY <2>1, WriteBlockFacts
<1>2. /\ write_start_pos \in Nat /\ write_offset \in Nat /\ writing \in Nat
      /\ fetcher \in [state : {"none", "created", "open", "done"},
                      code : Codes, next : Nat]
      /\ cache \in [DOMAIN cache -> Seq(Nat \cup {Garbage})]
      /\ DOMAIN cache = ToSet(lru) /\ lru \in Seq(Nat)
  BY DEF IInv, BufferTypeOK, CacheMirrorsLru
<1>3. at > 0 => entry = cache[id]
  BY <1>1
<1>4. fetcher.state = "open" /\ fetcher.code \in {200, 206} /\ writing # 0
  BY <1>2 DEF IInv, WriterOpen, WriteBlock, Unlocked
<1> HIDE DEF id, n, entry, at
<1>5. n \in Nat \ {0} /\ at \in Nat /\ fetcher.next + n \in Nat /\ at + n <= BlockSize
  <2>1. n \in 1 .. BlockSize - at /\ at \in 0 .. BlockSize - 1
    BY <1>1
  <2>2. BlockSize \in Nat /\ fetcher.next \in Nat
    BY <1>2, ConstantTypes
  <2> QED BY ONLY <2>1, <2>2
<1>6. /\ fetcher'.next = fetcher.next + n /\ fetcher'.state = fetcher.state
      /\ fetcher'.code = fetcher.code
      /\ fetcher' \in [state : {"none", "created", "open", "done"},
                      code : Codes, next : Nat]
  BY <1>1, <1>2, <1>5
<1>7. /\ Written(entry, at, n) \in Seq(Nat)
      /\ Len(Written(entry, at, n)) = at + n
      /\ \A i \in 1 .. at + n : Written(entry, at, n)[i] =
            IF i > at THEN fetcher.next + (i - at) - 1 ELSE cache[id][i]
  <2> DEFINE w(i) == IF i > at THEN fetcher.next + (i - at) - 1
                     ELSE IF i <= Len(entry) THEN entry[i] ELSE Garbage
  <2>1. at + n \in Nat /\ fetcher.next \in Nat
    BY <1>2, <1>5
  <2>2. ASSUME NEW i \in 1 .. at + n
        PROVE  w(i) = (IF i > at THEN fetcher.next + (i - at) - 1 ELSE cache[id][i]) /\ w(i) \in Nat
    <3>1. CASE i > at
      BY <1>5, <2>1, <3>1
    <3>2. CASE ~(i > at)
      <4>1. at > 0 /\ i \in 1 .. at
        BY <1>5, <3>2
      <4>2. id \in DOMAIN cache /\ Len(entry) = at /\ entry = cache[id]
        BY <1>1, <1>3, <4>1
      <4>3. w(i) = cache[id][i] /\ i \in DOMAIN cache[id]
        BY <1>1, <3>2, <4>1, <4>2
      <4>4. cache[id] \in Seq(Nat \cup {Garbage}) /\ Garbage \notin ToSet(cache[id])
        BY <1>2, <4>2 DEF IInv, NoHoleInBlock
      <4>5. cache[id][i] \in Nat
        BY <4>3, <4>4 DEF ToSet
      <4> QED BY <3>2, <4>3, <4>5
    <3> QED BY <3>1, <3>2
  <2>3. Written(entry, at, n) = [i \in 1 .. at + n |-> w(i)]
    BY DEF Written
  <2> HIDE DEF w
  <2>4. [i \in 1 .. at + n |-> w(i)] \in Seq(Nat)
    BY <2>1, <2>2
  <2> QED BY <2>1, <2>2, <2>3, <2>4
<1>8. \A b \in DOMAIN cache' : cache'[b] = IF b = id THEN Written(entry, at, n) ELSE cache[b]
  BY <1>1
<1>9. \A b \in DOMAIN cache' : b # id => b \in DOMAIN cache
  BY <1>1
<1>10. BufferTypeOK'
  <2>1. cache' \in [DOMAIN cache' -> Seq(Nat \cup {Garbage})]
    <3>1. \A b \in DOMAIN cache' : cache'[b] \in Seq(Nat \cup {Garbage})
      <4> TAKE b \in DOMAIN cache'
      <4>1. CASE b = id
        BY <1>7, <1>8, <4>1
      <4>2. CASE b # id
        BY <1>2, <1>8, <1>9, <4>2
      <4> QED BY <4>1, <4>2
    <3>2. cache' = [b \in DOMAIN cache' |-> cache'[b]]
      BY <1>1
    <3> QED BY <3>1, <3>2
  <2>2. write_offset' \in Nat /\ writing' \in Nat
    <3>1. /\ write_offset' = write_offset + n /\ writing' = writing - n
          /\ n \in 1 .. BlockSize - at /\ n <= writing
      BY <1>1
    <3>2. write_offset \in Nat /\ writing \in Nat
      BY <1>2
    <3> QED BY ONLY <1>5, <3>1, <3>2
  <2> QED BY <1>1, <1>6, <2>1, <2>2 DEF IInv, BufferTypeOK
<1>11. PinnedNarrow' /\ WriterOpen' /\ FetcherStates'
  BY <1>1, <1>4, <1>6 DEF IInv, PinnedNarrow, WriterOpen, FetcherStates
<1>12. WritePos' = WritePos + n /\ WritePos \in Nat
  <2>1. write_start_pos' = write_start_pos /\ write_offset' = write_offset + n
    BY <1>1
  <2> QED BY <1>2, <1>5, <2>1 DEF WritePos
<1>13. NoHoleInBlock'
  <2>1. \A b \in DOMAIN cache' : Garbage \notin ToSet(cache'[b])
    <3> TAKE b \in DOMAIN cache'
    <3>1. CASE b = id
      BY <1>7, <1>8, <3>1 DEF ToSet, Garbage
    <3>2. CASE b # id
      BY <1>8, <1>9, <3>2 DEF IInv, NoHoleInBlock
    <3> QED BY <3>1, <3>2
  <2>2. ASSUME Offset(WritePos') > 0
        PROVE  /\ ToBlockId(WritePos') \in DOMAIN cache'
               /\ Len(cache'[ToBlockId(WritePos')]) = Offset(WritePos')
    <3>1. CASE at + n < BlockSize
      <4>1. WritePos' = BlockStart(id) + (at + n) /\ at + n \in 0 .. BlockSize - 1
        <5>1. WritePos = BlockStart(id) + at /\ BlockStart(id) \in Nat
          BY <1>1
        <5>2. BlockSize \in Nat
          BY ConstantTypes
        <5> QED BY ONLY <1>5, <1>12, <3>1, <5>1, <5>2
      <4>2. ToBlockId(WritePos') = id /\ Offset(WritePos') = at + n
        BY <1>1, <4>1, BlockUnique
      <4> QED BY <1>1, <1>7, <1>8, <4>2
    <3>2. CASE at + n = BlockSize
      <4>1. WritePos' = BlockStart(id) + BlockSize
        BY <1>1, <1>5, <1>12, <3>2, ConstantTypes
      <4>2. BlockStart(id) + BlockSize = BlockStart(id + 1) /\ id + 1 \in Nat
        BY <1>1, NextBlock
      <4>3. 0 \in 0 .. BlockSize - 1 /\ BlockStart(id + 1) \in Nat
        BY <4>2, ConstantTypes, BlockUnique
      <4>4. Offset(BlockStart(id + 1) + 0) = 0
        BY <4>2, <4>3, BlockUnique
      <4>5. WritePos' = BlockStart(id + 1) + 0
        BY <4>1, <4>2, <4>3
      <4> QED BY <2>2, <4>4, <4>5
    <3> QED BY <1>5, <3>1, <3>2, ConstantTypes
  <2> QED BY <2>1, <2>2 DEF NoHoleInBlock, Offset, ToBlockId, WritePos
<1>14. FetchTracksWriter'
  <2> SUFFICES ASSUME ~stale
               PROVE  /\ io_tasks # << >> =>
                           write_offset' = 0 /\ writing' = 0 /\ Last(io_tasks) = write_start_pos
                      /\ io_tasks = << >> => fetcher'.next = WritePos'
    BY <1>1, <1>6 DEF FetchTracksWriter, WritePos
  <2>1. io_tasks = << >> /\ fetcher.next = WritePos
    BY <1>4 DEF IInv, FetchTracksWriter
  <2> QED BY <1>6, <1>12, <2>1
<1>15. ContentRight'
  <2> SUFFICES ASSUME ~stale, NEW b \in DOMAIN cache',
                      NEW i \in DOMAIN cache'[b]
               PROVE  cache'[b][i] = BlockStart(b) + i - 1
    BY <1>1 DEF ContentRight, RightBlock
  <2>1. fetcher.next = BlockStart(id) + at
    BY <1>1, <1>4 DEF IInv, FetchTracksWriter
  <2>2. CASE b = id
    <3>1. cache'[b] = Written(entry, at, n) /\ i \in 1 .. at + n
      BY <1>7, <1>8, <2>2
    <3>2. CASE i > at
      BY <1>1, <1>5, <1>7, <2>1, <2>2, <3>1, <3>2
    <3>3. CASE ~(i > at)
      <4>1. at > 0 /\ i \in 1 .. at
        BY <1>5, <3>1, <3>3
      <4>2. id \in DOMAIN cache /\ i \in DOMAIN cache[id]
        <5>1. id \in DOMAIN cache /\ Len(cache[id]) = at
          BY <1>1, <1>3, <4>1
        <5> QED BY <1>2, <4>1, <5>1
      <4>3. cache[id][i] = BlockStart(id) + i - 1
        BY <4>2 DEF IInv, ContentRight, RightBlock
      <4> QED BY <1>7, <2>2, <3>1, <3>3, <4>3
    <3> QED BY <1>5, <3>1, <3>2, <3>3
  <2>3. CASE b # id
    BY <1>8, <1>9, <2>3 DEF IInv, ContentRight, RightBlock
  <2> QED BY <2>2, <2>3
<1> QED BY <1>1, <1>10, <1>11, <1>13, <1>14, <1>15 DEF IInv

LEMMA StepIInv == ASSUME IInv, [BufferNext]_buffer_vars PROVE IInv'
<1>1. CASE Start
  BY <1>1, StartIInv
<1>2. ASSUME NEW position \in ReadPositions, Seek(position)
      PROVE  IInv'
  BY <1>2, SeekIInv
<1>3. CASE CreateFetcherFrom
  BY <1>3, CreateIInv
<1>4. CASE DidInitialize
  BY <1>4, DidInitializeIInv
<1>5. CASE OnWrite
  BY <1>5, OnWriteIInv
<1>6. CASE WriteBlock
  BY <1>6, WriteBlockIInv
<1>7. CASE OnFinish
  BY <1>7, OnFinishIInv
<1>8. CASE UNCHANGED buffer_vars
  <2> USE <1>8 DEF buffer_vars
  <2>1. BufferTypeOK' /\ PinnedNarrow' /\ WriterOpen' /\ FetcherStates' /\ CacheMirrorsLru'
    BY DEF IInv, BufferTypeOK, PinnedNarrow, WriterOpen, FetcherStates, CacheMirrorsLru
  <2>2. NoHoleInBlock' /\ FetchTracksWriter' /\ ContentRight'
    BY DEF IInv, NoHoleInBlock, FetchTracksWriter, ContentRight, RightBlock, WritePos
  <2> QED BY <2>1, <2>2 DEF IInv
<1> QED BY <1>1, <1>2, <1>3, <1>4, <1>5, <1>6, <1>7, <1>8 DEF BufferNext, Reader, IoThread

LEMMA AlwaysIInv == BufferSpec => []IInv
BY InitIInv, StepIInv, PTL DEF BufferSpec

\* The values of all members stay of their types (resource_multibuffer.h).
THEOREM TypeCorrect == BufferSpec => []BufferTypeOK
<1>1. IInv => BufferTypeOK
  BY DEF IInv
<1> QED BY <1>1, AlwaysIInv, PTL

\* cache_ and lru_ hold the same blocks, each once and at most kMaxCacheSize of
\* them, whatever the interleaving of seeks, writes and refetches.
THEOREM CacheAndLruAgree == BufferSpec => []CacheMirrorsLru
<1>1. IInv => CacheMirrorsLru
  BY DEF IInv
<1> QED BY <1>1, AlwaysIInv, PTL

\* The loop of PurgeIfNecessary always finds a block it may evict, because the
\* cache is larger than the pinned range.
THEOREM PurgingTerminates == BufferSpec => []PurgeTerminates
<1>1. IInv => PurgeTerminates
  BY FullCacheCanPurge DEF IInv
<1> QED BY <1>1, AlwaysIInv, PTL

\* The writer always finds the block it has half written, so no byte that was
\* never written can be read.
THEOREM NoHoles == BufferSpec => []NoHoleInBlock
<1>1. IInv => NoHoleInBlock
  BY DEF IInv
<1> QED BY <1>1, AlwaysIInv, PTL

\* Cached bytes are the right bytes of the resource, as long as no fetcher that
\* Seek has given up writes and no server ignores Range.
THEOREM CachedBytesRight == BufferSpec => [](FetchTracksWriter /\ ContentRight)
<1>1. IInv => FetchTracksWriter /\ ContentRight
  BY DEF IInv
<1> QED BY <1>1, AlwaysIInv, PTL

\* The fetch in force, queued or under way, delivers the very byte that the
\* writer is to write next: across seeks, fetchers given up and chunks that end
\* inside a block.
THEOREM FetcherKeepsPace == BufferSpec => []FetchTracksWriter
<1>1. IInv => FetchTracksWriter
  BY DEF IInv
<1> QED BY <1>1, AlwaysIInv, PTL

\* A block leaves the cache only while it is outside the reader's pinned range,
\* and the block being written is never evicted to make room for itself.
THEOREM ReaderWindowKept == BufferSpec => EvictionSparesReader
<1> DEFINE Spared == /\ \A b \in DOMAIN cache \ DOMAIN cache' : ~Pinned(pinned_range, b)
                     /\ writing' < writing => ToBlockId(WritePos) \in DOMAIN cache'
<1>1. ASSUME IInv, [BufferNext]_buffer_vars
      PROVE  Spared
  <2>1. CASE WriteBlock
    <3> DEFINE id == ToBlockId(WritePos)
               at == Offset(WritePos)
               n == IF writing < BlockSize - at THEN writing ELSE BlockSize - at
               entry == IF id \in DOMAIN cache THEN cache[id] ELSE << >>
    <3>1. id = ToBlockId(WritePos) /\ at = Offset(WritePos)
          /\ n = (IF writing < BlockSize - at THEN writing ELSE BlockSize - at)
          /\ entry = (IF id \in DOMAIN cache THEN cache[id] ELSE << >>)
      OBVIOUS
    <3> HIDE DEF id, at, n, entry
    <3>2. id \in DOMAIN cache' /\ \A b \in DOMAIN cache \ DOMAIN cache' : ~Pinned(pinned_range, b)
      BY <1>1, <2>1, <3>1, WriteBlockFacts
    <3> QED BY <3>1, <3>2
  <2>2. CASE OnWrite
    <3>1. UNCHANGED cache /\ writing = 0
      BY <2>2 DEF OnWrite, Unlocked
    <3>2. writing' \in Nat
      BY <1>1, <2>2, OnWriteIInv DEF IInv, BufferTypeOK
    <3> QED BY <3>1, <3>2
  <2>3. CASE Start \/ CreateFetcherFrom \/ DidInitialize \/ OnFinish \/ UNCHANGED buffer_vars
    <3>1. UNCHANGED <<cache, writing>>
      BY <2>3 DEF Start, CreateFetcherFrom, DidInitialize, OnFinish, buffer_vars
    <3>2. writing \in Nat
      BY <1>1 DEF IInv, BufferTypeOK
    <3> QED BY <3>1, <3>2
  <2>4. ASSUME NEW position \in ReadPositions, Seek(position)
        PROVE  Spared
    <3>1. UNCHANGED <<cache, writing>>
      BY <2>4 DEF Seek
    <3>2. writing \in Nat
      BY <1>1 DEF IInv, BufferTypeOK
    <3> QED BY <3>1, <3>2
  <2> QED BY <1>1, <2>1, <2>2, <2>3, <2>4 DEF BufferNext, Reader, IoThread
<1>2. BufferSpec => [][Spared]_buffer_vars
  BY <1>1, AlwaysIInv, PTL DEF BufferSpec
<1> QED BY <1>2 DEF EvictionSparesReader

\* A reader that Seek lets wait waits for a byte in front of the writer, and a
\* fetch that brings it is at work or queued, unless the last one has failed
\* (resource_multibuffer.cc:134).
THEOREM WaitingIsJustified == BufferSpec => []WaitIsJustified
<1>1. ASSUME IInv, Unlocked, ~stale, fetcher.state # "none",
             NEW position \in Positions,
             ~NeedsFetch(position), ~Available(cache, position)
      PROVE  /\ WritePos <= position
             /\ io_tasks # << >> \/ fetcher.state # "done" \/ FetchFailed
  <2>1. position \in Nat /\ position < Length /\ Length \in Nat
    BY ConstantTypes DEF Positions
  <2>2. WritePos \in Nat /\ fetcher.next \in Nat
    BY <1>1 DEF IInv, BufferTypeOK, WritePos
  <2>3. ~(position < WritePos)
    BY <1>1 DEF NeedsFetch, CacheMiss
  <2>4. WritePos <= position
    BY <2>1, <2>2, <2>3
  <2>5. ASSUME io_tasks = << >>, fetcher.state = "done", ~FetchFailed
        PROVE  FALSE
    <3>1. fetcher.code # 404 /\ ~(fetcher.next < Length)
      BY <2>5 DEF FetchFailed
    <3>2. fetcher.next = WritePos
      BY <1>1, <2>5, <3>1 DEF IInv, FetchTracksWriter
    <3> QED BY <2>1, <2>2, <2>4, <3>1, <3>2
  <2> QED BY <2>4, <2>5
<1>2. IInv => WaitIsJustified
  BY <1>1 DEF WaitIsJustified
<1> QED BY <1>2, AlwaysIInv, PTL
-----------------------------------------------------------------------------
(* The bytes that Fill finds                                                  *)

\* The chunk being stored ends where the resource does, or before.
ChunkInside == writing > 0 => fetcher.next + writing <= Length

\* Nothing is cached that is not in the resource, wherever it is cached.
BytesExist == \A b \in DOMAIN cache : \A i \in DOMAIN cache[b] : cache[b][i] < Length

LEMMA WriteBlockBytesExist ==
  ASSUME IInv, ChunkInside, BytesExist, WriteBlock
  PROVE  ChunkInside' /\ BytesExist'
<1> DEFINE id == ToBlockId(WritePos)
           at == Offset(WritePos)
           n == IF writing < BlockSize - at THEN writing ELSE BlockSize - at
           entry == IF id \in DOMAIN cache THEN cache[id] ELSE << >>
<1>1. /\ at \in 0 .. BlockSize - 1 /\ n \in 1 .. BlockSize - at /\ n <= writing
      /\ entry \in Seq(Nat \cup {Garbage})
      /\ DOMAIN cache' \subseteq DOMAIN cache \cup {id}
      /\ cache' = [b \in DOMAIN cache' |-> IF b = id THEN Written(entry, at, n) ELSE cache[b]]
      /\ fetcher' = [fetcher EXCEPT !.next = fetcher.next + n]
      /\ writing' = writing - n
  <2>1. id = ToBlockId(WritePos) /\ at = Offset(WritePos)
        /\ n = (IF writing < BlockSize - at THEN writing ELSE BlockSize - at)
        /\ entry = (IF id \in DOMAIN cache THEN cache[id] ELSE << >>)
    OBVIOUS
  <2> HIDE DEF id, at, n, entry
  <2>2. /\ at \in 0 .. BlockSize - 1 /\ n \in 1 .. BlockSize - at /\ n <= writing
        /\ entry \in Seq(Nat \cup {Garbage})
        /\ DOMAIN cache' \subseteq DOMAIN cache \cup {id}
    BY <2>1, WriteBlockFacts
  <2>3. cache' = [b \in DOMAIN cache' |-> IF b = id THEN Written(entry, at, n) ELSE cache[b]]
    BY <2>1, WriteBlockFacts
  <2>4. /\ fetcher' = [fetcher EXCEPT !.next = fetcher.next + n]
        /\ writing' = writing - n
    BY <2>1, WriteBlockFacts
  <2> QED BY <2>2, <2>3, <2>4
<1>2. /\ writing \in Nat /\ Length \in Nat /\ BlockSize \in Nat /\ fetcher.next \in Nat
      /\ fetcher \in [state : {"none", "created", "open", "done"},
                      code : Codes, next : Nat]
      /\ cache \in [DOMAIN cache -> Seq(Nat \cup {Garbage})]
  BY ConstantTypes DEF IInv, BufferTypeOK
<1>3. \A i \in DOMAIN entry : entry[i] < Length
  BY DEF BytesExist
<1> HIDE DEF id, at, n, entry
<1>4. n \in Nat \ {0} /\ at \in Nat /\ n <= writing
  BY <1>1, <1>2
<1>5. fetcher.next + writing <= Length
  BY <1>2, <1>4 DEF ChunkInside
<1>6. ChunkInside'
  <2>1. fetcher'.next = fetcher.next + n
    BY <1>1, <1>2
  <2> QED BY <1>1, <1>2, <1>4, <1>5, <2>1 DEF ChunkInside
<1>7. \A i \in 1 .. at + n : Written(entry, at, n)[i] < Length
  <2> TAKE i \in 1 .. at + n
  <2>1. Written(entry, at, n)[i] =
          IF i > at THEN fetcher.next + (i - at) - 1
          ELSE IF i <= Len(entry) THEN entry[i] ELSE Garbage
    BY DEF Written
  <2>2. CASE i > at
    BY <1>2, <1>4, <1>5, <2>1, <2>2
  <2>3. CASE ~(i > at) /\ i <= Len(entry)
    <3>1. i \in DOMAIN entry
      BY <1>1, <1>4, <2>3
    <3> QED BY <1>3, <2>1, <2>3, <3>1
  <2>4. CASE ~(i > at) /\ ~(i <= Len(entry))
    BY <1>2, <2>1, <2>4 DEF Garbage
  <2> QED BY <2>2, <2>3, <2>4
<1>8. DOMAIN Written(entry, at, n) = 1 .. at + n
  BY DEF Written
<1>9. BytesExist'
  <2> SUFFICES ASSUME NEW b \in DOMAIN cache', NEW i \in DOMAIN cache'[b]
               PROVE  cache'[b][i] < Length
    BY DEF BytesExist
  <2>1. cache'[b] = IF b = id THEN Written(entry, at, n) ELSE cache[b]
    BY <1>1
  <2>2. CASE b = id
    BY <1>7, <1>8, <2>1, <2>2
  <2>3. CASE b # id
    BY <1>1, <2>1, <2>3 DEF BytesExist
  <2> QED BY <2>2, <2>3
<1> QED BY <1>6, <1>9

LEMMA StepBytesExist ==
  ASSUME IInv, ChunkInside, BytesExist, [BufferNext]_buffer_vars
  PROVE  ChunkInside' /\ BytesExist'
<1>1. CASE WriteBlock
  BY <1>1, WriteBlockBytesExist
<1>2. CASE OnWrite
  <2>1. PICK n \in 1 .. MaxChunk :
          /\ fetcher.next + n <= Length
          /\ (writing' = n /\ UNCHANGED fetcher) \/ UNCHANGED writing
    BY <1>2 DEF OnWrite
  <2>2. writing = 0 /\ UNCHANGED cache
    BY <1>2 DEF OnWrite, Unlocked
  <2> QED BY <2>1, <2>2 DEF ChunkInside, BytesExist
<1>3. CASE DidInitialize \/ OnFinish \/ CreateFetcherFrom
  <2>1. writing' = 0 /\ UNCHANGED cache
    BY <1>3 DEF DidInitialize, OnFinish, CreateFetcherFrom, Unlocked
  <2> QED BY <2>1 DEF ChunkInside, BytesExist
<1>4. CASE Reader \/ UNCHANGED buffer_vars
  <2>1. UNCHANGED <<cache, writing, fetcher>>
    BY <1>4 DEF Reader, Start, Seek, buffer_vars
  <2> QED BY <2>1 DEF ChunkInside, BytesExist
<1> QED BY <1>1, <1>2, <1>3, <1>4 DEF BufferNext, IoThread

\* The loop of Fill ends: there is a longest run of available bytes.
LEMMA FillSizeRight ==
  ASSUME NEW c, NEW p, NEW s \in Nat
  PROVE  /\ FillSize(c, p, s) \in 0 .. s
         /\ \A k \in 0 .. FillSize(c, p, s) - 1 : Available(c, p + k)
<1> DEFINE T == {n \in 0 .. s : \A k \in 0 .. n - 1 : Available(c, p + k)}
<1>1. 0 \in T /\ T \in SUBSET (0 .. s)
  OBVIOUS
<1>2. FillSize(c, p, s) = Max(T)
  BY DEF FillSize
<1>3. \A n \in T : n \in 0 .. s /\ \A k \in 0 .. n - 1 : Available(c, p + k)
  OBVIOUS
<1> HIDE DEF T
<1>4. PICK m \in T : \A j \in T : j <= m
  BY <1>1, LastPlace
<1>5. \A j \in T : m >= j
  BY <1>1, <1>4
<1>6. Max(T) \in T
  BY <1>4, <1>5 DEF Max
<1> QED BY <1>2, <1>3, <1>6

\* An available byte is at its place in a cached block.
LEMMA AvailableByte ==
  ASSUME BufferTypeOK, NEW q \in Nat, Available(cache, q)
  PROVE  /\ ToBlockId(q) \in DOMAIN cache
         /\ cache[ToBlockId(q)] \in Seq(Nat \cup {Garbage})
         /\ Offset(q) \in Nat
         /\ Offset(q) + 1 \in DOMAIN cache[ToBlockId(q)]
<1>1. ToBlockId(q) \in DOMAIN cache /\ Offset(q) < Len(cache[ToBlockId(q)])
  BY DEF Available
<1>2. cache[ToBlockId(q)] \in Seq(Nat \cup {Garbage})
  BY <1>1 DEF BufferTypeOK
<1>3. Offset(q) \in Nat
  BY BlockArithmetic, ConstantTypes
<1>4. Offset(q) + 1 \in DOMAIN cache[ToBlockId(q)]
  BY <1>1, <1>2, <1>3
<1> QED BY <1>1, <1>2, <1>3, <1>4

\* What Fill copies into the reader's buffer are bytes.
LEMMA FillTyped ==
  ASSUME BufferTypeOK, NEW p \in Nat, NEW s \in Nat
  PROVE  FillBytes(cache, p, s) \in Seq(Nat \cup {Garbage})
<1> DEFINE n == FillSize(cache, p, s)
<1>1. n \in Nat /\ \A k \in 0 .. n - 1 : Available(cache, p + k)
  BY FillSizeRight
<1>2. ASSUME NEW k \in 1 .. n
      PROVE  ByteAt(cache, p + k - 1) \in Nat \cup {Garbage}
  <2> DEFINE q == p + (k - 1)
  <2>1. k - 1 \in 0 .. n - 1 /\ q \in Nat /\ p + k - 1 = q
    BY <1>1
  <2>2. Available(cache, q)
    BY <1>1, <2>1
  <2> HIDE DEF q, n
  <2>3. cache[ToBlockId(q)][Offset(q) + 1] \in Nat \cup {Garbage}
    BY <2>1, <2>2, AvailableByte
  <2> QED BY <2>1, <2>3 DEF ByteAt
<1> HIDE DEF n
<1>3. [k \in 1 .. n |-> ByteAt(cache, p + k - 1)] \in Seq(Nat \cup {Garbage})
  BY <1>1, <1>2
<1> QED BY <1>3 DEF FillBytes, n

\* Fill finds the resource's bytes from the position on, unless bytes were
\* misplaced before.
LEMMA FillRight ==
  ASSUME IInv, BytesExist, ~stale, NEW p \in Nat, NEW s \in Nat,
         FillBytes(cache, p, s) # << >>
  PROVE  \E n \in 1 .. s : p + n <= Length
                           /\ FillBytes(cache, p, s) = [k \in 1 .. n |-> p + k - 1]
<1> DEFINE n == FillSize(cache, p, s)
<1>1. n \in 0 .. s /\ \A k \in 0 .. n - 1 : Available(cache, p + k)
  BY FillSizeRight
<1>2. ASSUME NEW k \in 1 .. n
      PROVE  ByteAt(cache, p + k - 1) = p + k - 1 /\ p + k - 1 < Length
  <2> DEFINE q == p + (k - 1)
  <2>1. k - 1 \in 0 .. n - 1 /\ q \in Nat /\ p + k - 1 = q
    BY <1>1
  <2>2. Available(cache, q)
    BY <1>1, <2>1
  <2> HIDE DEF q, n
  <2>3. BufferTypeOK
    BY DEF IInv
  <2>4. /\ ToBlockId(q) \in DOMAIN cache /\ Offset(q) \in Nat
        /\ Offset(q) + 1 \in DOMAIN cache[ToBlockId(q)]
    BY <2>1, <2>2, <2>3, AvailableByte
  <2>5. cache[ToBlockId(q)][Offset(q) + 1] = BlockStart(ToBlockId(q)) + (Offset(q) + 1) - 1
    BY <2>4 DEF IInv, ContentRight, RightBlock
  <2>6. BlockStart(ToBlockId(q)) \in Nat /\ q = BlockStart(ToBlockId(q)) + Offset(q)
    <3>1. ToBlockId(q) \in Nat /\ q = BlockStart(ToBlockId(q)) + Offset(q)
      BY <2>1, BlockArithmetic
    <3> QED BY <3>1, ConstantTypes, BlockUnique
  <2>7. ByteAt(cache, q) = q
    BY <2>4, <2>5, <2>6 DEF ByteAt
  <2>8. ByteAt(cache, q) < Length
    BY <2>4 DEF ByteAt, BytesExist
  <2> QED BY <2>1, <2>7, <2>8
<1>3. FillBytes(cache, p, s) = [k \in 1 .. n |-> ByteAt(cache, p + k - 1)]
  BY DEF FillBytes
<1> HIDE DEF n
<1>4. FillBytes(cache, p, s) = [k \in 1 .. n |-> p + k - 1]
  BY <1>2, <1>3
<1>5. n # 0
  <2> SUFFICES ASSUME n = 0 PROVE FALSE
    OBVIOUS
  <2>1. FillBytes(cache, p, s) \in Seq(Nat \cup {Garbage})
    BY FillTyped DEF IInv
  <2>2. DOMAIN FillBytes(cache, p, s) = {}
    BY <1>4
  <2> QED BY <2>1, <2>2
<1>6. n \in 1 .. n /\ n \in 1 .. s
  BY <1>1, <1>5
<1>7. p + n <= Length
  BY <1>1, <1>2, <1>6, ConstantTypes
<1> QED BY <1>4, <1>6, <1>7
-----------------------------------------------------------------------------
(* The data source: its own invariant, on top of the multibuffer's            *)

\* The reader has no other operation pending when it makes a new one.
OperationAwaited == reader_pc \in {"idle", "checked"} => read_op = {}

\* While a ReadTask is between Seek and Fill it keeps the operation it has seen,
\* and Stop waits for its lock.
SeekedInTime == task_pc = "seeked" => read_op # {} /\ ~stop_signal_received

SourceInv ==
  /\ IInv
  /\ ChunkInside
  /\ BytesExist
  /\ TypeOK
  /\ OperationAwaited
  /\ SeekedInTime
  /\ PendingReadIsPolled

\* The operation of a ReadTask asks for a position of the resource.
LEMMA OperationTyped ==
  ASSUME TypeOK, NEW op \in read_op
  PROVE  /\ op \in Operation /\ op.position \in ReadPositions /\ op.position \in Nat
         /\ op.size \in Sizes /\ op.size \in Nat \ {0}
         /\ read_op = {op}
<1>1. op \in [position : ReadPositions, size : Sizes] /\ \A o, p \in read_op : o = p
  BY DEF TypeOK, Operation
<1>2. op.position \in ReadPositions /\ op.size \in Sizes
  BY <1>1
<1>3. op.position \in Nat
  BY <1>2, ConstantTypes DEF ReadPositions
<1>4. op.size \in Nat \ {0}
  BY <1>2, ReadAssumption
<1>5. read_op = {op}
  BY <1>1
<1> QED BY <1>1, <1>2, <1>3, <1>4, <1>5 DEF Operation

\* Every step of the source is a step of the multibuffer, or leaves it alone.
LEMMA BufferStep ==
  ASSUME TypeOK, [Next]_vars
  PROVE  [BufferNext]_buffer_vars
<1>1. CASE ReaderThread \/ Stop \/ Destroy \/ RunInitCB \/ ReadTaskFill \/ UNCHANGED vars
  <2>1. UNCHANGED buffer_vars
    BY <1>1 DEF ReaderThread, ReadCheck, ReadSetOp, ReadPost, GetSize, Stop, Destroy,
                RunInitCB, ReadTaskFill, vars
  <2> QED BY <2>1
<1>2. CASE Initialize
  BY <1>2 DEF Initialize, BufferNext, Reader
<1>3. CASE ReadTask
  <2>1. CASE UNCHANGED buffer_vars
    BY <2>1
  <2>2. CASE \E op \in read_op : Seek(op.position)
    BY <2>2, OperationTyped DEF BufferNext, Reader
  <2> QED BY <1>3, <2>1, <2>2 DEF ReadTask
<1>4. CASE Io
  BY <1>4 DEF Io, CreateFetcherTask, SourceDidInitialize, Write, OnUpdateState,
              BufferNext, IoThread
<1> QED BY <1>1, <1>2, <1>3, <1>4 DEF Next, Render

LEMMA InitSourceInv == Init => SourceInv
<1> SUFFICES ASSUME Init PROVE SourceInv
  OBVIOUS
<1>1. IInv
  BY InitIInv DEF Init
<1>2. ChunkInside /\ BytesExist
  BY DEF Init, BufferInit, ChunkInside, BytesExist
<1>3. TypeOK
  <2>1. BufferTypeOK
    BY <1>1 DEF IInv
  <2>2. read_op = {} /\ answer = {} /\ reads \in 0 .. MaxReads
    BY ReadAssumption DEF Init
  <2>3. /\ read_op \subseteq Operation /\ \A o, p \in read_op : o = p
        /\ answer \subseteq [position : ReadPositions \cup {-1}, bytes : Seq(Nat \cup {Garbage})]
    BY ONLY <2>2
  <2> QED BY <2>1, <2>2, <2>3 DEF Init, TypeOK
<1>4. OperationAwaited /\ SeekedInTime /\ PendingReadIsPolled
  BY DEF Init, OperationAwaited, SeekedInTime, PendingReadIsPolled
<1> QED BY <1>1, <1>2, <1>3, <1>4 DEF SourceInv

\* The reader's steps, Stop and the destructor.
LEMMA ReaderKeeps ==
  ASSUME TypeOK, BufferTypeOK', OperationAwaited, SeekedInTime, PendingReadIsPolled,
         ReaderThread \/ Stop \/ Destroy
  PROVE  (TypeOK /\ OperationAwaited /\ SeekedInTime /\ PendingReadIsPolled)'
<1> USE DEF OperationAwaited, SeekedInTime, PendingReadIsPolled, LockFree
<1>1. CASE ReadCheck
  <2> USE <1>1 DEF ReadCheck
  <2>1. answer' \subseteq [position : ReadPositions \cup {-1}, bytes : Seq(Nat \cup {Garbage})]
    <3>1. ReadError \in [position : ReadPositions \cup {-1}, bytes : Seq(Nat \cup {Garbage})]
      BY DEF ReadError
    <3>2. answer' = {ReadError} \/ UNCHANGED answer
      OBVIOUS
    <3> QED BY <3>1, <3>2 DEF TypeOK
  <2>2. reads' \in 0 .. MaxReads
    BY ReadAssumption DEF TypeOK
  <2>3. TypeOK'
    BY <2>1, <2>2 DEF TypeOK
  <2> QED BY <2>3
<1>2. ASSUME NEW op \in Operation, ReadSetOp(op)
      PROVE  (TypeOK /\ OperationAwaited /\ SeekedInTime /\ PendingReadIsPolled)'
  <2>1. TypeOK'
    BY <1>2 DEF ReadSetOp, TypeOK
  <2> QED BY <1>2, <2>1 DEF ReadSetOp
<1>3. CASE ReadPost
  <2>1. TypeOK'
    BY <1>3 DEF ReadPost, TypeOK
  <2>2. read_tasks' > 0
    BY <1>3 DEF ReadPost, TypeOK
  <2> QED BY <1>3, <2>1, <2>2 DEF ReadPost
<1>4. CASE GetSize
  <2>1. size' \in Nat \cup {-1}
    BY <1>4 DEF GetSize, BufferSize, TypeOK, BufferTypeOK
  <2>2. TypeOK'
    BY <1>4, <2>1 DEF GetSize, TypeOK
  <2> QED BY <1>4, <2>2 DEF GetSize
<1>5. CASE Stop
  <2>1. TypeOK'
    BY <1>5 DEF Stop, TypeOK
  <2> QED BY <1>5, <2>1 DEF Stop
<1>6. CASE Destroy
  <2>1. TypeOK'
    BY <1>6 DEF Destroy, TypeOK
  <2> QED BY <1>6, <2>1 DEF Destroy
<1> QED BY <1>1, <1>2, <1>3, <1>4, <1>5, <1>6 DEF ReaderThread

\* The render thread's steps and the io thread's.
LEMMA TasksKeep ==
  ASSUME TypeOK, BufferTypeOK', OperationAwaited, SeekedInTime, PendingReadIsPolled,
         Render \/ Io
  PROVE  (TypeOK /\ OperationAwaited /\ SeekedInTime /\ PendingReadIsPolled)'
<1> USE DEF OperationAwaited, SeekedInTime, PendingReadIsPolled, LockFree
<1>1. CASE Initialize \/ RunInitCB \/ CreateFetcherTask \/ SourceDidInitialize \/ Write
  <2>1. /\ init_cb' \in {"unset", "armed", "posted", "run"}
        /\ UNCHANGED <<stop_signal_received, read_op, read_tasks, task_pc, reader_pc,
                       reads, size, answer, destroyed>>
    BY <1>1 DEF Initialize, RunInitCB, CreateFetcherTask, SourceDidInitialize, Write,
                source_vars, TypeOK
  <2>2. TypeOK'
    BY <2>1 DEF TypeOK
  <2> QED BY <2>1, <2>2
<1>2. CASE OnUpdateState
  <2>1. TypeOK'
    BY <1>2 DEF OnUpdateState, TypeOK
  <2>2. read_tasks' > 0
    BY <1>2 DEF OnUpdateState, TypeOK
  <2> QED BY <1>2, <2>1, <2>2 DEF OnUpdateState
<1>3. CASE ReadTask
  <2>1. /\ read_tasks' \in Nat /\ task_pc' \in {"idle", "seeked"}
        /\ UNCHANGED <<init_cb, stop_signal_received, read_op, reader_pc, reads, size,
                       answer, destroyed>>
    BY <1>3 DEF ReadTask, TypeOK
  <2>2. TypeOK'
    BY <2>1 DEF TypeOK
  <2>3. \/ (stop_signal_received \/ read_op = {}) /\ task_pc' = "idle"
        \/ ~stop_signal_received /\ read_op # {} /\ task_pc' = "seeked"
    BY <1>3 DEF ReadTask
  <2> QED BY <2>1, <2>2, <2>3
<1>4. CASE ReadTaskFill
  <2>1. PICK op \in read_op :
          LET bytes == FillBytes(cache, op.position, op.size)
          IN  \/ /\ bytes # << >>
                 /\ answer' = {Result(op, bytes)}
                 /\ read_op' = {}
                 /\ reader_pc' = IF reader_pc = "waiting" THEN "idle" ELSE reader_pc
                 /\ UNCHANGED read_tasks
              \/ /\ bytes = << >>
                 /\ read_tasks' = read_tasks + 1
                 /\ UNCHANGED <<answer, read_op, reader_pc>>
    BY <1>4 DEF ReadTaskFill
  <2>2. /\ task_pc' = "idle"
        /\ UNCHANGED <<buffer_vars, init_cb, stop_signal_received, reads, size, destroyed>>
    BY <1>4 DEF ReadTaskFill
  <2> DEFINE bytes == FillBytes(cache, op.position, op.size)
  <2>3. Result(op, bytes) \in [position : ReadPositions \cup {-1}, bytes : Seq(Nat \cup {Garbage})]
    <3>1. bytes \in Seq(Nat \cup {Garbage}) /\ op.position \in ReadPositions
      BY OperationTyped, FillTyped DEF TypeOK
    <3> QED BY <3>1 DEF Result
  <2>4. CASE answer' = {Result(op, bytes)} /\ read_op' = {} /\ UNCHANGED read_tasks
             /\ reader_pc' = IF reader_pc = "waiting" THEN "idle" ELSE reader_pc
    <3> HIDE DEF bytes
    <3>1. TypeOK'
      BY <2>2, <2>3, <2>4 DEF TypeOK
    <3> QED BY <2>2, <2>4, <3>1
  <2>5. CASE read_tasks' = read_tasks + 1 /\ UNCHANGED <<answer, read_op, reader_pc>>
    <3>1. TypeOK' /\ read_tasks' > 0
      BY <2>2, <2>5 DEF TypeOK
    <3> QED BY <2>2, <2>5, <3>1
  <2> QED BY <2>1, <2>4, <2>5
<1> QED BY <1>1, <1>2, <1>3, <1>4 DEF Render, Io

LEMMA StepSourceInv == ASSUME SourceInv, [Next]_vars PROVE SourceInv'
<1>1. IInv' /\ ChunkInside' /\ BytesExist'
  BY BufferStep, StepIInv, StepBytesExist DEF SourceInv
<1>2. (TypeOK /\ OperationAwaited /\ SeekedInTime /\ PendingReadIsPolled)'
  <2>1. BufferTypeOK'
    BY <1>1 DEF IInv
  <2>2. CASE Next
    BY <2>1, <2>2, ReaderKeeps, TasksKeep DEF Next, SourceInv
  <2>3. CASE UNCHANGED vars
    BY <2>1, <2>3 DEF vars, source_vars, SourceInv, TypeOK, OperationAwaited, SeekedInTime,
                      PendingReadIsPolled
  <2> QED BY <2>2, <2>3
<1> QED BY <1>1, <1>2 DEF SourceInv

LEMMA AlwaysSourceInv == Spec => []SourceInv
BY InitSourceInv, StepSourceInv, PTL DEF Spec

\* Under the data source the multibuffer does what it does by itself: every
\* theorem about BufferSpec is one about the source, too.
THEOREM SourceRunsTheBuffer == Spec => BufferSpec
<1>1. Init => BufferInit
  BY DEF Init
<1>2. SourceInv /\ [Next]_vars => [BufferNext]_buffer_vars
  BY BufferStep DEF SourceInv
<1> QED BY <1>1, <1>2, AlwaysSourceInv, PTL DEF Spec, BufferSpec

\* The values of all members stay of their types (resource_data_source.h).
THEOREM SourceTypeCorrect == Spec => []TypeOK
<1>1. SourceInv => TypeOK
  BY DEF SourceInv
<1> QED BY <1>1, AlwaysSourceInv, PTL

\* A posted read of a source that is not stopped keeps its operation, and a
\* ReadTask is queued or at work that looks at it (resource_data_source.cc:99).
THEOREM PendingReadsArePolled == Spec => []PendingReadIsPolled
<1>1. SourceInv => PendingReadIsPolled
  BY DEF SourceInv
<1> QED BY <1>1, AlwaysSourceInv, PTL

\* The data source implements the contract: what it answers are the resource's
\* bytes from the position asked for, one to size of them, at most once, and
\* nothing after Stop, as long as no fetcher that Seek has given up writes.
THEOREM SourceImplements == Spec => ImplementsContract
<1>1. Init => Contract!Init
  BY DEF Init, Contract!Init
<1>2. ASSUME SourceInv, [Next]_vars
      PROVE  [stale \/ Contract!Next]_(Contract!vars)
  <2> SUFFICES ASSUME ~stale, ~UNCHANGED Contract!vars
               PROVE  Contract!Next
    OBVIOUS
  <2> USE DEF Contract!vars
  <2>1. CASE ReadCheck
    <3>1. Contract!Refuse
      BY <2>1 DEF ReadCheck, Contract!Refuse, ReadError, Contract!Error
    <3> QED BY <3>1 DEF Contract!Next
  <2>2. ASSUME NEW op \in Operation, ReadSetOp(op)
        PROVE  Contract!Next
    <3>1. read_op = {}
      BY <1>2, <2>2 DEF ReadSetOp, SourceInv, OperationAwaited
    <3>2. PICK p \in ReadPositions, s \in Sizes : op = [position |-> p, size |-> s]
      BY <2>2 DEF Operation
    <3>3. Contract!Ask
      BY <2>2, <3>1, <3>2 DEF ReadSetOp, Contract!Ask
    <3> QED BY <3>3 DEF Contract!Next
  <2>3. CASE Stop
    <3>1. Contract!Stop
      BY <2>3 DEF Stop, Contract!Stop
    <3> QED BY <3>1 DEF Contract!Next
  <2>4. CASE ReadTaskFill
    <3>1. PICK op \in read_op :
            LET bytes == FillBytes(cache, op.position, op.size)
            IN  \/ /\ bytes # << >>
                   /\ answer' = {Result(op, bytes)}
                   /\ read_op' = {}
                \/ UNCHANGED <<answer, read_op>>
      BY <2>4 DEF ReadTaskFill
    <3>2. ~stop_signal_received /\ UNCHANGED stop_signal_received
      BY <1>2, <2>4 DEF ReadTaskFill, SourceInv, SeekedInTime
    <3> DEFINE bytes == FillBytes(cache, op.position, op.size)
    <3>3. bytes # << >> /\ answer' = {Result(op, bytes)} /\ read_op' = {}
      BY <3>1, <3>2
    <3>4. op.position \in Nat /\ op.size \in Nat
      BY <1>2, <3>1, OperationTyped DEF SourceInv
    <3>5. PICK n \in 1 .. op.size :
            op.position + n <= Length /\ bytes = [k \in 1 .. n |-> op.position + k - 1]
      BY <1>2, <3>3, <3>4, FillRight DEF SourceInv
    <3>6. Result(op, bytes) = Contract!Bytes(op.position, n)
      BY <3>5 DEF Result, Contract!Bytes
    <3> HIDE DEF bytes
    <3>7. Contract!Deliver
      BY <3>1, <3>2, <3>3, <3>5, <3>6 DEF Contract!Deliver
    <3> QED BY <3>7 DEF Contract!Next
  <2>5. CASE ReadPost \/ GetSize \/ Destroy \/ Initialize \/ RunInitCB \/ ReadTask \/ Io
             \/ UNCHANGED vars
    <3>1. UNCHANGED <<read_op, stop_signal_received, answer>>
      BY <2>5 DEF ReadPost, GetSize, Destroy, Initialize, RunInitCB, ReadTask, Io,
                  CreateFetcherTask, SourceDidInitialize, Write, OnUpdateState,
                  vars, source_vars
    <3> QED BY <3>1
  <2> QED BY <1>2, <2>1, <2>2, <2>3, <2>4, <2>5 DEF Next, ReaderThread, Render
<1>3. Spec => [][stale \/ Contract!Next]_(Contract!vars)
  BY <1>2, AlwaysSourceInv, PTL DEF Spec
<1> QED BY <1>1, <1>3 DEF Spec, ImplementsContract
-----------------------------------------------------------------------------
(* The loops of BlockCacheLoops: what is true before each turn                *)

FillCall == pc \in {"Fill", "FillLoop", "Filled"}

BlocksFilled ==
  /\ DOMAIN blocks \subseteq Nat
  /\ \A b \in DOMAIN blocks : blocks[b] \in Seq(Nat) /\ Len(blocks[b]) \in 1 .. BlockSize

FillCallTyped ==
  call \in [asked_position : Nat, asked_size : Nat, position : Nat, size : Nat,
            it : Nat \cup {NoEntry}, index : Nat \cup {NoEntry},
            copied : Seq(Nat), turns : Nat]

\* What was copied are the available bytes from the position asked for on.
CopiedRight ==
  /\ call.position = call.asked_position + Len(call.copied)
  /\ call.asked_size = call.size + Len(call.copied)
  /\ \A k \in 1 .. Len(call.copied) :
       /\ Available(blocks, call.asked_position + (k - 1))
       /\ call.copied[k] = ByteAt(blocks, call.asked_position + (k - 1))

\* The loop stands on the entry of the position's block, if there is one.
AtPosition ==
  /\ call.index = ToBlockId(call.position)
  /\ call.it = call.index <=> call.index \in DOMAIN blocks

\* In its first turn it may stand on an earlier entry.
BeforePosition ==
  /\ call.copied = << >> /\ call.turns = 0
  /\ call.it = call.index /\ call.it \in DOMAIN blocks
  /\ call.it < ToBlockId(call.position)
  /\ ToBlockId(call.position) \notin DOMAIN blocks

FillInv ==
  /\ BlocksFilled
  /\ FillCallTyped
  /\ CopiedRight
  /\ pc = "Fill" => call.copied = << >> /\ call.turns = 0
  /\ pc = "FillLoop" => /\ call.turns <= Len(call.copied) + 1
                        /\ call.size = 0 \/ AtPosition \/ BeforePosition
  /\ pc = "Filled" => call.size = 0 \/ ~Available(blocks, call.position)

\* A list whose last t elements were popped and pushed again, one by one.
Rotated(l, t) == SubSeq(l, Len(l) - t + 1, Len(l)) \o SubSeq(l, 1, Len(l) - t)

PurgeInv ==
  /\ call \in [listed : Seq(Nat), turns : Nat]
  /\ Len(call.listed) = MaxCacheSize + 1
  /\ IsInjective(call.listed) /\ CanPurge(call.listed, pinned)
  /\ \/ /\ pc = "PurgeLoop"
        /\ list = Rotated(call.listed, call.turns)
        /\ call.turns <= Len(call.listed) - VictimPlace(call.listed, pinned)
        /\ DOMAIN blocks = ToSet(call.listed)
     \/ /\ list = Purged(call.listed, pinned)
        /\ DOMAIN blocks = ToSet(call.listed) \ {Victim(call.listed, pinned)}
        /\ call.turns <= Len(call.listed)

LoopsInv ==
  /\ pc \in {"Fill", "FillLoop", "Filled", "PurgeLoop", "Purged"}
  /\ FillCall => FillInv
  /\ ~FillCall => PurgeInv

LEMMA RotatedPlaces ==
  ASSUME NEW l \in Seq(Nat), NEW t \in 0 .. Len(l)
  PROVE  /\ Rotated(l, t) \in Seq(Nat)
         /\ Len(Rotated(l, t)) = Len(l)
         /\ \A i \in 1 .. Len(l) :
              Rotated(l, t)[i] = IF i <= t THEN l[Len(l) - t + i] ELSE l[i - t]
<1> DEFINE n == Len(l)
           k == n - t
           m == SubSeq(l, k + 1, n) \o SubSeq(l, 1, k)
<1>1. n \in Nat /\ k \in 0 .. n /\ n - k = t /\ n - k + k = n
  OBVIOUS
<1>2. Rotated(l, t) = m
  BY DEF Rotated
<1> HIDE DEF k
<1>3. /\ m \in Seq(Nat) /\ Len(m) = n - k + k
      /\ \A i \in 1 .. n - k + k : m[i] = IF i <= n - k THEN l[k + i] ELSE l[i - (n - k)]
  BY <1>1, SplicedPlaces
<1> HIDE DEF m
<1>4. \A i \in 1 .. n : m[i] = IF i <= t THEN l[k + i] ELSE l[i - t]
  BY <1>1, <1>3
<1> QED BY <1>1, <1>2, <1>3, <1>4 DEF k

LEMMA PurgedPlaces ==
  ASSUME NEW l \in Seq(Nat), NEW range, CanPurge(l, range)
  PROVE  /\ Purged(l, range) \in Seq(Nat)
         /\ Len(Purged(l, range)) = Len(l) - 1
         /\ \A i \in 1 .. Len(l) - 1 :
              Purged(l, range)[i] =
                IF i <= Len(l) - VictimPlace(l, range) THEN l[VictimPlace(l, range) + i]
                ELSE l[i - (Len(l) - VictimPlace(l, range))]
<1> DEFINE n == Len(l)
           k == VictimPlace(l, range)
           j == k - 1
           m == SubSeq(l, k + 1, n) \o SubSeq(l, 1, j)
<1>1. n \in Nat /\ k \in 1 .. n
  BY VictimExists
<1>2. Purged(l, range) = m
  BY DEF Purged
<1> HIDE DEF k
<1>3. k \in 0 .. n /\ j \in 0 .. n /\ n - k + j = n - 1
  BY <1>1
<1> HIDE DEF j
<1>4. /\ m \in Seq(Nat) /\ Len(m) = n - k + j
      /\ \A i \in 1 .. n - k + j : m[i] = IF i <= n - k THEN l[k + i] ELSE l[i - (n - k)]
  BY <1>3, SplicedPlaces
<1> HIDE DEF m, n
<1> QED BY <1>2, <1>3, <1>4 DEF k, n

\* Popping the oldest of a non-empty list and pushing it again.
LEMMA OldestPlaces ==
  ASSUME NEW l \in Seq(Nat), Len(l) > 0
  PROVE  /\ Oldest(l) = l[Len(l)] /\ Oldest(l) \in Nat
         /\ Popped(l) \in Seq(Nat) /\ Len(Popped(l)) = Len(l) - 1
         /\ \A i \in 1 .. Len(l) - 1 : Popped(l)[i] = l[i]
         /\ Pushed(Popped(l), Oldest(l)) \in Seq(Nat)
         /\ Len(Pushed(Popped(l), Oldest(l))) = Len(l)
         /\ Pushed(Popped(l), Oldest(l))[1] = l[Len(l)]
         /\ \A i \in 2 .. Len(l) : Pushed(Popped(l), Oldest(l))[i] = l[i - 1]
<1> DEFINE n == Len(l)
           f == SubSeq(l, 1, n - 1)
<1>1. n \in Nat \ {0} /\ \A i \in 1 .. n : l[i] \in Nat
  OBVIOUS
<1>2. Popped(l) = f /\ Oldest(l) = l[n]
  BY DEF Popped, Front, Oldest, Last
<1>3. f \in Seq(Nat) /\ Len(f) = n - 1 /\ \A i \in 1 .. n - 1 : f[i] = l[i]
  <2>1. \A i \in 1 .. n - 1 : l[i] \in Nat
    BY <1>1
  <2>2. /\ f \in Seq(Nat)
        /\ Len(f) = IF 1 <= n - 1 THEN (n - 1) - 1 + 1 ELSE 0
        /\ \A i \in 1 .. (n - 1) - 1 + 1 : f[i] = l[1 + i - 1]
    BY <1>1, <2>1, SubSeqProperties
  <2> HIDE DEF n, f
  <2>3. \A i \in 1 .. n - 1 : i \in 1 .. (n - 1) - 1 + 1 /\ 1 + i - 1 = i
    BY <1>1
  <2> QED BY <1>1, <2>2, <2>3
<1> HIDE DEF f, n
<1>4. l[n] \in Nat
  BY <1>1
<1> DEFINE p == Pushed(f, l[n])
<1>5. p \in Seq(Nat) /\ Len(p) = Len(f) + 1 /\ p[1] = l[n]
  <2>1. PICK x \in Nat : x = l[n]
    BY <1>4
  <2>2. f \in Seq(Nat)
    BY <1>3
  <2>3. Pushed(f, x) \in Seq(Nat) /\ Len(Pushed(f, x)) = Len(f) + 1
    BY ONLY <2>2, PushedPlaces
  <2>4. Pushed(f, x)[1] = x
    BY ONLY <2>2, PushedPlaces
  <2>5. p = Pushed(f, x)
    BY <2>1
  <2> HIDE DEF p
  <2> QED BY ONLY <2>1, <2>3, <2>4, <2>5
<1>6. \A i \in 1 .. Len(f) : p[i + 1] = f[i]
  BY <1>3, <1>4, PushedPlace
<1> HIDE DEF p
<1>7. ASSUME NEW i \in 2 .. n PROVE p[i] = l[i - 1]
  <2>1. i - 1 \in 1 .. Len(f) /\ i - 1 \in 1 .. n - 1 /\ (i - 1) + 1 = i
    BY <1>1, <1>3
  <2>2. p[(i - 1) + 1] = f[i - 1]
    BY <1>6, <2>1
  <2> QED BY <1>3, <2>1, <2>2
<1>8. Len(p) = n
  BY <1>1, <1>3, <1>5
<1> QED BY <1>2, <1>3, <1>4, <1>5, <1>7, <1>8 DEF p, n

LEMMA PurgeTurnInv == ASSUME PurgeInv, PurgeTurn PROVE PurgeInv' /\ pc' = "PurgeLoop"
<1> DEFINE l == call.listed
           t == call.turns
           n == Len(l)
           v == VictimPlace(l, pinned)
           id == Oldest(list)
<1>1. /\ l \in Seq(Nat) /\ t \in Nat /\ n = MaxCacheSize + 1 /\ MaxCacheSize \in Nat
      /\ IsInjective(l) /\ CanPurge(l, pinned) /\ n \in Nat /\ DOMAIN l = 1 .. n
  BY LoopsAssumption DEF PurgeInv
<1>2. /\ v \in 1 .. n /\ ~Pinned(pinned, l[v])
      /\ \A j \in v + 1 .. n : Pinned(pinned, l[j])
  BY <1>1, VictimExists DEF Victim
<1>3. /\ UNCHANGED <<pinned, pc>> /\ pc = "PurgeLoop" /\ Len(list) > MaxCacheSize
      /\ call' = [call EXCEPT !.turns = call.turns + 1]
  BY DEF PurgeTurn
<1>4. call' \in [listed : Seq(Nat), turns : Nat] /\ call'.listed = l /\ call'.turns = t + 1
  BY <1>3 DEF PurgeInv
<1>5. list = Rotated(l, t) /\ t <= n - v /\ DOMAIN blocks = ToSet(l)
  <2>1. Len(Purged(l, pinned)) = n - 1
    BY <1>1, PurgedPlaces
  <2>2. list # Purged(l, pinned)
    BY <1>1, <1>3, <2>1
  <2> QED BY <2>2 DEF PurgeInv
<1> HIDE DEF l, t, n, v
<1>6. t \in 0 .. n /\ t < n /\ n - t \in 1 .. n
  BY <1>1, <1>2, <1>5
<1>7. /\ list \in Seq(Nat) /\ Len(list) = n
      /\ \A i \in 1 .. n : list[i] = IF i <= t THEN l[n - t + i] ELSE l[i - t]
  BY <1>1, <1>5, <1>6, RotatedPlaces DEF n
<1>8. /\ id = l[n - t]
      /\ Popped(list) \in Seq(Nat) /\ Len(Popped(list)) = n - 1
      /\ \A i \in 1 .. n - 1 : Popped(list)[i] = list[i]
  <2>1. Len(list) > 0 /\ n \in 1 .. n
    BY <1>1, <1>6, <1>7
  <2>2. id = list[n]
    BY <1>7, <2>1, OldestPlaces
  <2>3. list[n] = l[n - t]
    BY <1>6, <1>7, <2>1
  <2> QED BY <1>7, <2>1, <2>2, <2>3, OldestPlaces
<1>9. CASE Pinned(pinned, id)
  <2>1. list' = Pushed(Popped(list), id) /\ UNCHANGED blocks
    BY <1>9 DEF PurgeTurn
  <2>2. n - t # v
    BY <1>2, <1>8, <1>9
  <2>3. t + 1 <= n - v /\ t + 1 \in 0 .. n
    BY <1>1, <1>2, <1>5, <1>6, <2>2
  <2>4. /\ list' \in Seq(Nat) /\ Len(list') = n /\ list'[1] = list[n]
        /\ \A i \in 2 .. n : list'[i] = list[i - 1]
    <3>1. Len(list) > 0
      BY <1>1, <1>6, <1>7
    <3> QED BY <1>7, <2>1, <3>1, OldestPlaces
  <2>5. /\ Rotated(l, t + 1) \in Seq(Nat) /\ Len(Rotated(l, t + 1)) = n
        /\ \A i \in 1 .. n : Rotated(l, t + 1)[i] =
                               IF i <= t + 1 THEN l[n - (t + 1) + i] ELSE l[i - (t + 1)]
    BY <1>1, <2>3, RotatedPlaces DEF n
  <2>6. ASSUME NEW i \in 1 .. n PROVE list'[i] = Rotated(l, t + 1)[i]
    <3>1. CASE i = 1
      <4>1. list'[i] = l[n - t] /\ n - (t + 1) + i = n - t /\ i <= t + 1
        <5>1. n \in 1 .. n
          BY <1>1, <1>6
        <5>2. list[n] = l[n - t]
          BY <1>6, <1>7, <5>1
        <5> QED BY <1>1, <1>6, <2>4, <3>1, <5>2
      <4> QED BY <2>5, <4>1
    <3>2. CASE i # 1
      <4>1. i - 1 \in 1 .. n /\ i \in 2 .. n
        BY <1>1, <3>2
      <4>2. list'[i] = IF i - 1 <= t THEN l[n - t + (i - 1)] ELSE l[(i - 1) - t]
        BY <1>7, <2>4, <4>1
      <4>3. /\ i - 1 <= t <=> i <= t + 1
            /\ n - t + (i - 1) = n - (t + 1) + i /\ (i - 1) - t = i - (t + 1)
        BY <1>1, <1>6, <4>1
      <4> QED BY <2>5, <4>2, <4>3
    <3> QED BY <3>1, <3>2
  <2>7. list' = Rotated(l, t + 1)
    BY <2>4, <2>5, <2>6, SeqEqual
  <2> QED BY <1>1, <1>3, <1>4, <1>5, <2>1, <2>3, <2>7 DEF PurgeInv, l, t, n, v
<1>10. CASE ~Pinned(pinned, id)
  <2>1. list' = Popped(list) /\ blocks' = [b \in DOMAIN blocks \ {id} |-> blocks[b]]
    BY <1>10 DEF PurgeTurn
  <2>2. n - t = v
    <3>1. ~(n - t \in v + 1 .. n)
      BY <1>2, <1>8, <1>10
    <3> QED BY <1>1, <1>2, <1>5, <1>6, <3>1
  <2>3. DOMAIN blocks' = ToSet(l) \ {Victim(l, pinned)}
    BY <1>5, <1>8, <2>1, <2>2 DEF Victim, v
  <2>4. /\ Purged(l, pinned) \in Seq(Nat) /\ Len(Purged(l, pinned)) = n - 1
        /\ \A i \in 1 .. n - 1 :
             Purged(l, pinned)[i] = IF i <= n - v THEN l[v + i] ELSE l[i - (n - v)]
    BY <1>1, PurgedPlaces DEF n, v
  <2>5. ASSUME NEW i \in 1 .. n - 1 PROVE Popped(list)[i] = Purged(l, pinned)[i]
    <3>1. i \in 1 .. n /\ n - v = t /\ n - t = v
      BY <1>1, <1>2, <1>6, <2>2
    <3>2. Popped(list)[i] = IF i <= t THEN l[n - t + i] ELSE l[i - t]
      BY <1>7, <1>8, <3>1
    <3> QED BY <2>4, <3>1, <3>2
  <2>6. list' = Purged(l, pinned)
    BY <1>8, <2>1, <2>4, <2>5, SeqEqual
  <2>7. t + 1 <= n
    BY <1>1, <1>6
  <2> QED BY <1>1, <1>3, <1>4, <2>3, <2>6, <2>7 DEF PurgeInv, l, t, n
<1> QED BY <1>3, <1>9, <1>10

LEMMA LeavePurgeInv ==
  ASSUME PurgeInv, LeavePurge
  PROVE  PurgeInv' /\ pc' = "Purged" /\ list = Purged(call.listed, pinned)
<1>1. /\ call.listed \in Seq(Nat) /\ call.turns \in Nat /\ MaxCacheSize \in Nat
      /\ Len(call.listed) = MaxCacheSize + 1 /\ CanPurge(call.listed, pinned)
  BY LoopsAssumption DEF PurgeInv
<1>2. ~(Len(list) > MaxCacheSize) /\ pc' = "Purged" /\ UNCHANGED <<blocks, list, pinned, call>>
  BY DEF LeavePurge
<1>3. ASSUME list = Rotated(call.listed, call.turns),
             call.turns <= Len(call.listed) - VictimPlace(call.listed, pinned)
      PROVE  FALSE
  <2>1. VictimPlace(call.listed, pinned) \in 1 .. Len(call.listed)
    <3>1. DOMAIN call.listed = 1 .. Len(call.listed)
      BY <1>1
    <3> QED BY <1>1, <3>1, VictimExists
  <2>2. call.turns \in 0 .. Len(call.listed)
    BY <1>1, <1>3, <2>1
  <2>3. Len(list) = Len(call.listed)
    BY <1>1, <1>3, <2>2, RotatedPlaces
  <2> QED BY <1>1, <1>2, <2>3
<1> QED BY <1>2, <1>3 DEF PurgeInv

\* A position between the bounds of a block is in that block.
LEMMA BlockBounds ==
  ASSUME NEW id \in Nat, NEW position \in Nat,
         BlockStart(id) <= position, position < BlockStart(id) + BlockSize
  PROVE  ToBlockId(position) = id /\ Offset(position) = position - BlockStart(id)
<1> DEFINE at == position - BlockStart(id)
<1>1. BlockSize \in Nat /\ BlockStart(id) \in Nat
  BY BlockSizeAssumption DEF BlockStart
<1>2. at \in 0 .. BlockSize - 1 /\ BlockStart(id) + at = position
  BY <1>1
<1> HIDE DEF at
<1>3. ToBlockId(BlockStart(id) + at) = id /\ Offset(BlockStart(id) + at) = at
  BY <1>2, BlockUnique
<1> QED BY <1>2, <1>3 DEF at

\* An earlier block ends before a later one starts.
LEMMA BlockOrder ==
  ASSUME NEW a \in Nat, NEW b \in Nat, a < b
  PROVE  BlockStart(a) + BlockSize <= BlockStart(b)
<1>1. PICK d \in Nat : b = (a + 1) + d
  <2>1. b - (a + 1) \in Nat /\ b = (a + 1) + (b - (a + 1))
    OBVIOUS
  <2> QED BY <2>1
<1>2. d * BlockSize \in Nat /\ BlockStart(a) \in Nat
  BY BlockSizeAssumption DEF BlockStart
<1>3. ((a + 1) + d) * BlockSize = (a * BlockSize + BlockSize) + d * BlockSize
  BY BlockSizeAssumption
<1> QED BY <1>1, <1>2, <1>3, BlockSizeAssumption DEF BlockStart

\* upper_bound and the decrement find the last entry at or before an id.
LEMMA EntryAtOrBeforeRight ==
  ASSUME DOMAIN blocks \subseteq Nat, NEW id \in Nat
  PROVE  LET it == EntryAtOrBefore(id)
         IN  /\ it = NoEntry \/ (it \in DOMAIN blocks /\ it <= id)
             /\ \A b \in DOMAIN blocks : b <= id => it # NoEntry /\ b <= it
<1> DEFINE T == {b \in DOMAIN blocks : b <= id}
           U == T \cup {NoEntry}
<1>1. T \in SUBSET (0 .. id)
  OBVIOUS
<1>2. EntryAtOrBefore(id) = Max(U)
  BY DEF EntryAtOrBefore
<1>3. CASE T = {}
  <2>1. U = {NoEntry}
    BY <1>3
  <2>2. \A x \in U : NoEntry >= x
    BY <2>1 DEF NoEntry
  <2>3. Max(U) \in U
    BY <2>1, <2>2 DEF Max
  <2>4. EntryAtOrBefore(id) = NoEntry
    BY <1>2, <2>1, <2>3
  <2>5. \A b \in DOMAIN blocks : ~(b <= id)
    BY <1>3
  <2> QED BY <2>4, <2>5
<1>4. CASE T # {}
  <2> HIDE DEF T
  <2>1. PICK m \in T : \A b \in T : b <= m
    BY <1>1, <1>4, LastPlace
  <2>2. m \in U /\ \A x \in U : m >= x
    BY <1>1, <2>1 DEF NoEntry
  <2>3. Max(U) \in U /\ \A x \in U : Max(U) >= x
    BY <2>2 DEF Max
  <2>4. Max(U) >= m /\ m \in 0 .. id
    BY <1>1, <2>2, <2>3
  <2>5. Max(U) \in T
    BY <1>1, <2>3, <2>4 DEF NoEntry
  <2>6. \A b \in T : Max(U) # NoEntry /\ b <= Max(U)
    <3>1. Max(U) \in 0 .. id
      BY <1>1, <2>5
    <3>2. Max(U) # NoEntry
      BY <3>1 DEF NoEntry
    <3>3. \A b \in T : b \in U /\ b \in 0 .. id
      BY <1>1
    <3> QED BY <2>3, <3>1, <3>2, <3>3
  <2> HIDE DEF U
  <2> QED BY <1>2, <2>5, <2>6 DEF T
<1> QED BY <1>3, <1>4

\* ++it finds the neighbouring block exactly when it is cached.
LEMMA NextEntryRight ==
  ASSUME DOMAIN blocks \subseteq Nat, NEW b \in Nat
  PROVE  /\ NextEntry(b) \in Nat \cup {NoEntry}
         /\ NextEntry(b) = b + 1 <=> b + 1 \in DOMAIN blocks
<1> DEFINE T == {c \in DOMAIN blocks : c > b}
<1>1. T \subseteq Nat
  OBVIOUS
<1>2. CASE T = {}
  <2>1. ~(\E c \in DOMAIN blocks : c > b)
    BY <1>2
  <2>2. NextEntry(b) = NoEntry
    BY <2>1 DEF NextEntry
  <2>3. b + 1 > b /\ b + 1 # NoEntry
    BY DEF NoEntry
  <2> QED BY <2>1, <2>2, <2>3
<1>3. CASE T # {}
  <2>1. \E c \in DOMAIN blocks : c > b
    BY <1>3
  <2>2. NextEntry(b) = Min(T)
    BY <2>1 DEF NextEntry
  <2>3. PICK m \in T : \A c \in T : ~(<<c, m>> \in OpToRel(<, Nat))
    <3> HIDE DEF T
    <3> QED BY <1>1, <1>3, NatLessThanWellFounded, WFMin
  <2>4. \A c \in T : m <= c
    <3> HIDE DEF T
    <3>1. \A c \in T : ~(c < m)
      BY <1>1, <2>3 DEF OpToRel
    <3> QED BY <1>1, <3>1
  <2>5. Min(T) \in T /\ \A c \in T : Min(T) <= c
    <3> HIDE DEF T
    <3> QED BY <2>4 DEF Min
  <2>6. Min(T) \in DOMAIN blocks /\ Min(T) \in Nat /\ Min(T) > b
    BY <2>5
  <2>7. ASSUME b + 1 \in DOMAIN blocks PROVE Min(T) = b + 1
    <3>1. b + 1 \in T
      BY <2>7
    <3> QED BY <2>5, <2>6, <3>1
  <2> HIDE DEF T
  <2> QED BY <2>2, <2>6, <2>7
<1> QED BY <1>2, <1>3

\* A run of available bytes that cannot be made longer is what Fill copies.
LEMMA FillSizeUnique ==
  ASSUME NEW c, NEW p \in Nat, NEW s \in Nat, NEW d \in 0 .. s,
         \A k \in 0 .. d - 1 : Available(c, p + k),
         d = s \/ ~Available(c, p + d)
  PROVE  FillSize(c, p, s) = d
<1> DEFINE T == {n \in 0 .. s : \A k \in 0 .. n - 1 : Available(c, p + k)}
           m == FillSize(c, p, s)
<1>1. m \in 0 .. s /\ \A k \in 0 .. m - 1 : Available(c, p + k)
  BY FillSizeRight
<1>2. m = Max(T) /\ d \in T
  BY DEF FillSize
<1>3. \A n \in T : n \in 0 .. s /\ \A k \in 0 .. n - 1 : Available(c, p + k)
  OBVIOUS
<1> HIDE DEF T
<1>4. \A n \in T : n <= d
  <2> SUFFICES ASSUME NEW n \in T, n > d PROVE FALSE
    BY <1>3
  <2>1. d \in 0 .. n - 1 /\ d # s
    BY <1>3
  <2> QED BY <1>3, <2>1
<1>5. Max(T) = d
  <2>1. \A n \in T : d >= n
    BY <1>3, <1>4
  <2>2. Max(T) \in T /\ Max(T) >= d
    BY <1>2, <2>1 DEF Max
  <2> QED BY <1>3, <1>4, <2>2
<1> QED BY <1>2, <1>5

\* What the bytes of an entry are, seen from the positions of its block.
LEMMA EntryBytes ==
  ASSUME BlocksFilled, NEW b \in DOMAIN blocks, NEW position \in Nat,
         BlockStart(b) <= position, position < EntryEnd(b)
  PROVE  /\ Available(blocks, position)
         /\ ByteAt(blocks, position) = blocks[b][position - BlockStart(b) + 1]
<1>1. b \in Nat /\ Len(blocks[b]) \in 1 .. BlockSize /\ BlockSize \in Nat /\ BlockStart(b) \in Nat
  BY BlockSizeAssumption DEF BlocksFilled, BlockStart
<1>2. position < BlockStart(b) + BlockSize /\ position - BlockStart(b) < Len(blocks[b])
  BY <1>1 DEF EntryEnd
<1>3. ToBlockId(position) = b /\ Offset(position) = position - BlockStart(b)
  BY <1>1, <1>2, BlockBounds
<1> QED BY <1>2, <1>3 DEF Available, ByteAt

\* A position at or behind the end of the entry of its own block is not there.
LEMMA BehindEntry ==
  ASSUME BlocksFilled, NEW position \in Nat, Available(blocks, position)
  PROVE  /\ ToBlockId(position) \in DOMAIN blocks
         /\ position < EntryEnd(ToBlockId(position))
<1> DEFINE b == ToBlockId(position)
<1>1. /\ b \in DOMAIN blocks /\ Offset(position) < Len(blocks[b])
  BY DEF Available
<1>2. position = BlockStart(b) + Offset(position) /\ b \in Nat /\ Offset(position) \in Nat
  BY BlockArithmetic, BlockSizeAssumption
<1>3. BlockStart(b) \in Nat /\ Len(blocks[b]) \in Nat
  BY <1>1, <1>2, BlockSizeAssumption DEF BlockStart, BlocksFilled
<1> HIDE DEF b
<1>4. position < EntryEnd(b)
  BY <1>1, <1>2, <1>3 DEF EntryEnd
<1> QED BY <1>1, <1>4 DEF b

LEMMA FillCalledInv ==
  ASSUME FillCalled
  PROVE  FillInv /\ pc = "Fill"
<1>1. PICK ids \in SUBSET Blocks, filled \in [Blocks -> 1 .. BlockSize] :
        blocks = [b \in ids |-> [i \in 1 .. filled[b] |-> BlockStart(b) + i - 1]]
  BY DEF FillCalled
<1>2. BlocksFilled
  <2>1. DOMAIN blocks = ids /\ ids \subseteq Nat /\ ids \subseteq Blocks
    BY <1>1, LoopsAssumption
  <2>2. ASSUME NEW b \in DOMAIN blocks
        PROVE  blocks[b] \in Seq(Nat) /\ Len(blocks[b]) \in 1 .. BlockSize
    <3>1. b \in Nat /\ b \in Blocks /\ filled[b] \in 1 .. BlockSize /\ BlockSize \in Nat
      BY <2>1, BlockSizeAssumption
    <3>2. BlockStart(b) \in Nat
      BY <3>1 DEF BlockStart
    <3> DEFINE n == filled[b]
               e == [i \in 1 .. n |-> BlockStart(b) + i - 1]
    <3>3. blocks[b] = e
      BY <1>1, <2>1
    <3>4. n \in Nat /\ \A i \in 1 .. n : BlockStart(b) + i - 1 \in Nat
      BY <3>1, <3>2
    <3> HIDE DEF n
    <3>5. e \in Seq(Nat) /\ Len(e) = n
      BY <3>4
    <3> QED BY <3>1, <3>3, <3>5 DEF n
  <2> QED BY <2>1, <2>2 DEF BlocksFilled
<1>3. PICK p \in Questions, s \in Questions \ {0} :
        call = [asked_position |-> p, asked_size |-> s, position |-> p, size |-> s,
                it |-> NoEntry, index |-> NoEntry, copied |-> << >>, turns |-> 0]
  BY DEF FillCalled
<1>4. p \in Nat /\ s \in Nat /\ << >> \in Seq(Nat) /\ Len(<< >>) = 0
  BY LoopsAssumption
<1>5. FillCallTyped
  BY <1>3, <1>4 DEF FillCallTyped
<1>6. CopiedRight /\ call.copied = << >> /\ call.turns = 0
  BY <1>3, <1>4 DEF CopiedRight
<1>7. pc = "Fill"
  BY DEF FillCalled
<1> QED BY <1>2, <1>5, <1>6, <1>7 DEF FillInv

\* The fields of call, each with its type.
LEMMA FillCallFields ==
  ASSUME FillCallTyped
  PROVE  /\ {call.asked_position, call.asked_size, call.position, call.size, call.turns} \subseteq Nat
         /\ {call.it, call.index} \subseteq Nat \cup {NoEntry}
         /\ call.copied \in Seq(Nat) /\ Len(call.copied) \in Nat
BY DEF FillCallTyped

LEMMA EnterFillInv == ASSUME FillInv, EnterFill PROVE FillInv' /\ pc' \in {"FillLoop", "Filled"}
<1> DEFINE id == ToBlockId(call.position)
           it == EntryAtOrBefore(id)
<1>1. /\ pc = "Fill" /\ UNCHANGED blocks
      /\ pc' = IF it = NoEntry THEN "Filled" ELSE "FillLoop"
      /\ call' = [call EXCEPT !.it = it, !.index = it]
  BY DEF EnterFill
<1>2. BlocksFilled /\ FillCallTyped /\ CopiedRight /\ call.copied = << >> /\ call.turns = 0
  BY <1>1 DEF FillInv
<1>3. id \in Nat /\ DOMAIN blocks \subseteq Nat
  BY <1>2, FillCallFields, BlockArithmetic DEF BlocksFilled
<1>4. /\ it = NoEntry \/ (it \in DOMAIN blocks /\ it <= id)
      /\ \A b \in DOMAIN blocks : b <= id => it # NoEntry /\ b <= it
  BY <1>3, EntryAtOrBeforeRight
<1> HIDE DEF it, id
<1>5. it \in Nat \cup {NoEntry}
  BY <1>3, <1>4
<1>6. /\ FillCallTyped'
      /\ call'.asked_position = call.asked_position /\ call'.asked_size = call.asked_size
      /\ call'.position = call.position /\ call'.size = call.size
      /\ call'.it = it /\ call'.index = it
      /\ call'.copied = call.copied /\ call'.turns = call.turns
  BY <1>1, <1>2, <1>5 DEF FillCallTyped
<1>7. CopiedRight' /\ BlocksFilled'
  BY <1>1, <1>2, <1>6 DEF CopiedRight, BlocksFilled, Available, ByteAt
<1>8. call.copied = << >> /\ Len(call.copied) = 0
  BY <1>2
<1>9. CASE it = NoEntry
  <2>1. id \notin DOMAIN blocks
    BY <1>3, <1>4, <1>9
  <2>2. ~Available(blocks', call'.position)
    BY <1>1, <1>6, <2>1 DEF Available, id
  <2> QED BY <1>1, <1>6, <1>7, <1>9, <2>2 DEF FillInv
<1>10. CASE it # NoEntry
  <2>1. it \in DOMAIN blocks /\ it <= id /\ it \in Nat
    BY <1>3, <1>4, <1>10
  <2>2. CASE it = id
    <3>1. AtPosition'
      BY <1>1, <1>6, <2>1, <2>2 DEF AtPosition, id
    <3> QED BY <1>1, <1>2, <1>6, <1>7, <1>8, <1>10, <3>1 DEF FillInv
  <2>3. CASE it # id
    <3>1. it < id /\ id \notin DOMAIN blocks
      BY <1>3, <1>4, <2>1, <2>3
    <3>2. BeforePosition'
      BY <1>1, <1>2, <1>6, <2>1, <3>1 DEF BeforePosition, id
    <3> QED BY <1>1, <1>2, <1>6, <1>7, <1>8, <1>10, <3>2 DEF FillInv
  <2> QED BY <2>2, <2>3
<1> QED BY <1>1, <1>9, <1>10

LEMMA LeaveFillInv == ASSUME FillInv, LeaveFill PROVE FillInv' /\ pc' = "Filled"
<1>1. pc = "FillLoop" /\ ~FillGoesOn /\ pc' = "Filled" /\ UNCHANGED <<blocks, call>>
  BY DEF LeaveFill
<1>2. /\ BlocksFilled /\ FillCallTyped /\ CopiedRight
      /\ call.size = 0 \/ AtPosition \/ BeforePosition
  BY <1>1 DEF FillInv
<1>3. call.size = 0 \/ ~Available(blocks, call.position)
  <2> SUFFICES ASSUME call.size # 0, Available(blocks, call.position) PROVE FillGoesOn
    BY <1>1
  <2> DEFINE b == ToBlockId(call.position)
  <2>1. call.position \in Nat /\ call.size \in Nat
    BY <1>2, FillCallFields
  <2>2. b \in DOMAIN blocks /\ call.position < EntryEnd(b)
    BY <1>2, <2>1, BehindEntry
  <2>3. call.index = b /\ call.it = b
    BY <1>2, <2>2 DEF AtPosition, BeforePosition
  <2> HIDE DEF b
  <2>4. EntryEnd(b) \in Nat
    <3>1. b \in Nat /\ Len(blocks[b]) \in Nat
      BY <1>2, <2>2, BlockSizeAssumption DEF BlocksFilled
    <3>2. BlockStart(b) \in Nat
      BY <3>1, BlockSizeAssumption DEF BlockStart
    <3> QED BY <3>1, <3>2 DEF EntryEnd
  <2> QED BY <2>1, <2>2, <2>3, <2>4 DEF FillGoesOn
<1>4. BlocksFilled' /\ FillCallTyped' /\ CopiedRight'
  BY <1>1, <1>2 DEF BlocksFilled, FillCallTyped, CopiedRight, Available, ByteAt
<1>5. (call.size = 0 \/ ~Available(blocks, call.position))'
  BY <1>1, <1>3 DEF Available
<1> QED BY <1>1, <1>4, <1>5 DEF FillInv

\* One turn copies the bytes of one entry from the position on, and stands on
\* the entry of the new position afterwards, or has found the end.
LEMMA FillTurnInv ==
  ASSUME FillInv, FillTurn
  PROVE  FillInv' /\ pc' \in {"FillLoop", "Filled"}
<1> DEFINE b == call.it
           p == call.position
           a == call.asked_position
           len == Len(blocks[b])
           start == p - BlockStart(b)
           room == len - start
           n == IF room < call.size THEN room ELSE call.size
           full == len = BlockSize
           old == Len(call.copied)
           part == SubSeq(blocks[b], start + 1, start + n)
           next == IF full THEN NextEntry(b) ELSE b
           index == IF full THEN call.index + 1 ELSE call.index
           copied == call.copied \o part
<1>1. /\ pc = "FillLoop" /\ FillGoesOn /\ UNCHANGED blocks
      /\ pc' = IF full THEN "FillLoop" ELSE "Filled"
      /\ call' = [call EXCEPT !.copied = copied, !.position = call.position + n,
                              !.size = call.size - n, !.it = next, !.index = index,
                              !.turns = call.turns + 1]
  BY DEF FillTurn
<1>2. /\ BlocksFilled /\ FillCallTyped /\ CopiedRight
      /\ call.turns <= old + 1
      /\ call.size = 0 \/ AtPosition \/ BeforePosition
  BY <1>1 DEF FillInv
<1>3. /\ a \in Nat /\ call.asked_size \in Nat /\ p \in Nat /\ call.size \in Nat
      /\ call.turns \in Nat /\ call.copied \in Seq(Nat) /\ old \in Nat
  BY <1>2, FillCallFields
<1>4. /\ b \in DOMAIN blocks /\ b \in Nat /\ call.index = b /\ call.size > 0
      /\ BlockStart(b) + len >= p
      /\ blocks[b] \in Seq(Nat) /\ len \in 1 .. BlockSize
  BY <1>1, <1>2 DEF FillGoesOn, EntryEnd, BlocksFilled
<1>5. BlockSize \in Nat \ {0} /\ BlockStart(b) \in Nat /\ len \in Nat
  BY <1>4, BlockSizeAssumption DEF BlockStart
<1>6. \/ /\ AtPosition /\ b = ToBlockId(p) /\ start \in 0 .. BlockSize - 1
      \/ /\ BeforePosition /\ full /\ start = BlockSize /\ ToBlockId(p) = b + 1
  <2>1. CASE AtPosition
    <3>1. b = ToBlockId(p)
      BY <1>4, <2>1 DEF AtPosition
    <3>2. p = BlockStart(ToBlockId(p)) + Offset(p) /\ Offset(p) \in 0 .. BlockSize - 1
      BY <1>3, BlockArithmetic
    <3>3. start = Offset(p)
      <4> HIDE DEF b, p
      <4> QED BY <1>3, <1>5, <3>1, <3>2
    <3> QED BY <2>1, <3>1, <3>2, <3>3
  <2>2. CASE BeforePosition
    <3>1. b < ToBlockId(p) /\ ToBlockId(p) \in Nat
      BY <1>3, <2>2, BlockArithmetic DEF BeforePosition
    <3>2. p = BlockStart(ToBlockId(p)) + Offset(p) /\ Offset(p) \in 0 .. BlockSize - 1
      BY <1>3, BlockArithmetic
    <3>3. BlockStart(b) + BlockSize <= BlockStart(ToBlockId(p))
      <4> HIDE DEF b, p
      <4> QED BY <1>4, <3>1, BlockOrder
    <3>4. BlockStart(ToBlockId(p)) \in Nat
      BY <3>1, BlockSizeAssumption DEF BlockStart
    <3>5. len = BlockSize /\ p = BlockStart(b) + BlockSize
      <4> DEFINE later == BlockStart(ToBlockId(p))
      <4>1. /\ BlockStart(b) + BlockSize <= later /\ later <= p /\ later \in Nat
        BY <1>3, <3>2, <3>3, <3>4
      <4> HIDE DEF b, p, len, later
      <4> DEFINE first == BlockStart(b)
      <4>2. first + BlockSize <= p /\ p <= first + len
        BY <1>3, <1>4, <1>5, <4>1
      <4>3. /\ first \in Nat /\ p \in Nat /\ len \in Nat /\ BlockSize \in Nat
            /\ len <= BlockSize
        BY <1>3, <1>4, <1>5
      <4> HIDE DEF first
      <4>4. BlockSize <= len
        BY ONLY <4>2, <4>3
      <4>5. len = BlockSize
        BY ONLY <4>3, <4>4
      <4>6. p = first + BlockSize
        BY ONLY <4>2, <4>3, <4>5
      <4> QED BY ONLY <4>5, <4>6 DEF first
    <3>6. ToBlockId(p) = b + 1
      <4>1. p = BlockStart(b + 1) + 0 /\ 0 \in 0 .. BlockSize - 1 /\ b + 1 \in Nat
        <5>1. BlockStart(b) + BlockSize = BlockStart(b + 1)
          BY <1>4, NextBlock
        <5> HIDE DEF b, p, len
        <5> QED BY <1>3, <1>4, <1>5, <3>5, <5>1
      <4>2. ToBlockId(BlockStart(b + 1) + 0) = b + 1
        BY <4>1, BlockUnique
      <4> HIDE DEF b, p
      <4> QED BY <1>3, <4>1, <4>2
    <3>7. start = BlockSize
      <4> HIDE DEF b, p
      <4> QED BY <1>5, <3>5
    <3> QED BY <2>2, <3>5, <3>6, <3>7
  <2> QED BY <1>2, <1>4, <2>1, <2>2
<1>7. /\ start \in 0 .. len /\ n \in 0 .. call.size /\ n \in 0 .. room
      /\ n = call.size \/ n = room
      /\ p = BlockStart(b) + start /\ start + n <= len
  <2>1. start \in Nat
    BY <1>5, <1>6
  <2>2. start <= len
    <3> HIDE DEF b, p, len
    <3> QED BY <1>3, <1>4, <1>5
  <2>3. p = BlockStart(b) + start
    <3> HIDE DEF b, p
    <3> QED BY <1>3, <1>5
  <2> HIDE DEF start, len
  <2> QED BY <1>3, <1>4, <1>5, <2>1, <2>2, <2>3
<1>8. /\ part \in Seq(Nat) /\ Len(part) = n
      /\ \A i \in 1 .. n : part[i] = blocks[b][start + i]
  <2>1. \A i \in start + 1 .. start + n : blocks[b][i] \in Nat
    <3>1. \A i \in 1 .. len : blocks[b][i] \in Nat
      BY <1>4
    <3>2. \A i \in start + 1 .. start + n : i \in 1 .. len
      <4> HIDE DEF start, len, n
      <4> QED BY <1>5, <1>7
    <3> HIDE DEF start, len, n
    <3> QED BY <3>1, <3>2
  <2> HIDE DEF start, n, b, len
  <2>2. start + 1 \in Int /\ start + n \in Int /\ start \in Nat /\ n \in Nat
    BY <1>3, <1>5, <1>7
  <2>3. /\ part \in Seq(Nat)
        /\ Len(part) = IF start + 1 <= start + n THEN (start + n) - (start + 1) + 1 ELSE 0
        /\ \A i \in 1 .. (start + n) - (start + 1) + 1 : part[i] = blocks[b][(start + 1) + i - 1]
    BY <2>1, <2>2, SubSeqProperties
  <2> HIDE DEF part
  <2>4. Len(part) = n
    BY <2>2, <2>3
  <2>5. \A i \in 1 .. n : i \in 1 .. (start + n) - (start + 1) + 1 /\ (start + 1) + i - 1 = start + i
    BY <2>2
  <2> QED BY <2>3, <2>4, <2>5
<1>9. /\ call'.asked_position = a /\ call'.asked_size = call.asked_size
      /\ call'.position = p + n /\ call'.size = call.size - n
      /\ call'.it = next /\ call'.index = index
      /\ call'.copied = copied /\ call'.turns = call.turns + 1
  <2> HIDE DEF n, next, index, copied
  <2> QED BY <1>1, <1>2 DEF FillCallTyped
<1>10. next \in Nat \cup {NoEntry} /\ index \in Nat
  <2>1. NextEntry(b) \in Nat \cup {NoEntry}
    <3> HIDE DEF b
    <3> QED BY <1>2, <1>4, NextEntryRight DEF BlocksFilled
  <2> HIDE DEF b
  <2> QED BY <1>4, <2>1
<1>11. /\ copied \in Seq(Nat) /\ Len(copied) = old + n
       /\ \A i \in 1 .. old : copied[i] = call.copied[i]
       /\ \A i \in 1 .. n : copied[old + i] = part[i]
  <2>1. /\ copied \in Seq(Nat)
        /\ Len(copied) = Len(call.copied) + Len(part)
        /\ \A i \in 1 .. Len(call.copied) + Len(part) :
             copied[i] = IF i <= Len(call.copied) THEN call.copied[i]
                         ELSE part[i - Len(call.copied)]
    <3>1. call.copied \in Seq(Nat) /\ part \in Seq(Nat)
      BY <1>3, <1>8
    <3> HIDE DEF part
    <3> QED BY ONLY <3>1, ConcatProperties
  <2> HIDE DEF copied, part, n, old
  <2>2. \A i \in 1 .. old + n : copied[i] = IF i <= old THEN call.copied[i] ELSE part[i - old]
    BY <1>8, <2>1 DEF old
  <2>3. n \in Nat
    BY <1>3, <1>7
  <2>4. \A i \in 1 .. old : i \in 1 .. old + n /\ i <= old
    BY <1>3, <2>3
  <2>5. \A i \in 1 .. n : old + i \in 1 .. old + n /\ ~(old + i <= old) /\ (old + i) - old = i
    BY <1>3, <2>3
  <2>6. \A i \in 1 .. n : copied[old + i] = part[i]
    <3> TAKE i \in 1 .. n
    <3>1. copied[old + i] = part[(old + i) - old]
      BY <2>2, <2>5
    <3> QED BY <2>5, <3>1
  <2> QED BY <1>8, <2>1, <2>2, <2>4, <2>6 DEF old
<1>12. FillCallTyped'
  <2>1. p + n \in Nat /\ call.size - n \in Nat /\ call.turns + 1 \in Nat
    <3> HIDE DEF p, n
    <3> QED BY <1>3, <1>7
  <2> HIDE DEF n, next, index, copied
  <2> QED BY <1>1, <1>2, <1>10, <1>11, <2>1 DEF FillCallTyped
<1>13. p = a + old /\ call.asked_size = call.size + old
  BY <1>2 DEF CopiedRight
<1>14. CopiedRight'
  <2>1. call'.position = a + Len(copied) /\ call.asked_size = call'.size + Len(copied)
    <3> HIDE DEF p, n, a, old, copied
    <3> QED BY <1>3, <1>7, <1>9, <1>11, <1>13
  <2>2. ASSUME NEW k \in 1 .. Len(copied)
        PROVE  Available(blocks, a + (k - 1)) /\ copied[k] = ByteAt(blocks, a + (k - 1))
    <3> HIDE DEF copied, n, part, old
    <3>1. CASE k <= old
      <4>1. k \in 1 .. old
        BY <1>3, <1>7, <1>11, <3>1
      <4> QED BY <1>2, <1>11, <4>1 DEF CopiedRight, old
    <3>2. CASE ~(k <= old)
      <4> DEFINE i == k - old
                 q == a + (k - 1)
      <4>1. i \in 1 .. n /\ old + i = k
        BY <1>3, <1>7, <1>11, <3>2
      <4>2. q = p + (i - 1) /\ i - 1 \in Nat
        <5> HIDE DEF p, a
        <5> QED BY <1>3, <1>13, <4>1
      <4>3. copied[k] = blocks[b][start + i]
        <5> HIDE DEF i, start, b
        <5> QED BY <1>8, <1>11, <4>1
      <4>4. BlockStart(b) <= q /\ q < BlockStart(b) + len /\ q \in Nat
            /\ q - BlockStart(b) + 1 = start + i
        <5> DEFINE first == BlockStart(b)
        <5>1. /\ first \in Nat /\ start \in Nat /\ len \in Nat /\ n \in Nat
              /\ p = first + start /\ start + n <= len
          <6> HIDE DEF p, n, len, start
          <6> QED BY <1>3, <1>5, <1>7
        <5> HIDE DEF q, i, p, b, len, start, first
        <5>2. i \in Nat /\ 1 <= i /\ i <= n /\ q = first + start + (i - 1)
          BY <4>1, <4>2, <5>1
        <5>3. first <= q /\ q < first + len /\ q \in Nat /\ q - first + 1 = start + i
          BY ONLY <5>1, <5>2
        <5> QED BY <5>3 DEF first
      <4> HIDE DEF q
      <4>5. Available(blocks, q) /\ ByteAt(blocks, q) = blocks[b][q - BlockStart(b) + 1]
        <5> HIDE DEF b
        <5> QED BY <1>2, <1>4, <4>4, EntryBytes DEF EntryEnd
      <4>6. Available(blocks, q) /\ copied[k] = ByteAt(blocks, q)
        BY <4>3, <4>4, <4>5
      <4> QED BY <4>6 DEF q
    <3> QED BY <3>1, <3>2
  <2> HIDE DEF copied
  <2>3. blocks' = blocks
    BY <1>1
  <2> QED BY <1>9, <2>1, <2>2, <2>3 DEF CopiedRight, Available, ByteAt
<1>15. BlocksFilled'
  BY <1>1, <1>2 DEF BlocksFilled
<1>16. CASE full
  <2>1. next = NextEntry(b) /\ index = b + 1 /\ pc' = "FillLoop"
    BY <1>1, <1>4, <1>16
  <2>2. next = index <=> index \in DOMAIN blocks
    <3> HIDE DEF b, next, index
    <3> QED BY <1>2, <1>4, <2>1, NextEntryRight DEF BlocksFilled
  <2>3. call.turns + 1 <= Len(copied) + 1
    <3>1. CASE AtPosition /\ start \in 0 .. BlockSize - 1
      <4>1. n >= 1 /\ n \in Nat
        <5>1. len = BlockSize
          BY <1>16
        <5>2. room >= 1
          <6> HIDE DEF start, len
          <6> QED BY <1>5, <3>1, <5>1
        <5> HIDE DEF room
        <5> QED BY <1>3, <1>4, <1>7, <5>2
      <4> HIDE DEF n, old, copied
      <4> QED BY <1>2, <1>3, <1>11, <4>1
    <3>2. CASE BeforePosition
      <4>1. call.turns = 0
        BY <3>2 DEF BeforePosition
      <4> HIDE DEF copied
      <4> QED BY <1>11, <4>1
    <3> QED BY <1>6, <3>1, <3>2
  <2>4. CASE call.size - n = 0
    <3> HIDE DEF n, next, index, copied
    <3> QED BY <1>9, <1>12, <1>14, <1>15, <2>1, <2>3, <2>4 DEF FillInv
  <2>5. CASE call.size - n # 0
    <3>1. n = room
      <4> HIDE DEF n, room
      <4> QED BY <1>3, <1>7, <2>5
    <3>2. p + n = BlockStart(b + 1) + 0 /\ 0 \in 0 .. BlockSize - 1 /\ b + 1 \in Nat
      <4>1. BlockStart(b) + BlockSize = BlockStart(b + 1)
        BY <1>4, NextBlock
      <4>2. len = BlockSize
        BY <1>16
      <4>3. n = len - start
        BY <3>1
      <4> HIDE DEF n, b, p, len, start
      <4> QED BY <1>3, <1>4, <1>5, <1>7, <4>1, <4>2, <4>3
    <3>3. ToBlockId(p + n) = b + 1
      <4>1. ToBlockId(BlockStart(b + 1) + 0) = b + 1
        BY <3>2, BlockUnique
      <4> HIDE DEF p, n, b
      <4> QED BY <3>2, <4>1
    <3>4. AtPosition'
      <4> HIDE DEF n, next, index, copied, p, b
      <4> QED BY <1>1, <1>9, <2>1, <2>2, <3>3 DEF AtPosition
    <3> HIDE DEF n, next, index, copied
    <3> QED BY <1>9, <1>12, <1>14, <1>15, <2>1, <2>3, <3>4 DEF FillInv
  <2> QED BY <2>1, <2>4, <2>5
<1>17. CASE ~full
  <2>1. pc' = "Filled" /\ AtPosition /\ b = ToBlockId(p)
    BY <1>1, <1>6, <1>17
  <2>2. CASE call.size - n = 0
    <3> HIDE DEF n, next, index, copied
    <3> QED BY <1>9, <1>12, <1>14, <1>15, <2>1, <2>2 DEF FillInv
  <2>3. CASE call.size - n # 0
    <3>1. n = room
      <4> HIDE DEF n, room
      <4> QED BY <1>3, <1>7, <2>3
    <3>2. p + n = BlockStart(b) + len /\ len \in 0 .. BlockSize - 1
      <4>1. n = len - start /\ len # BlockSize
        BY <1>17, <3>1
      <4> HIDE DEF n, b, p, len, start
      <4> QED BY <1>3, <1>4, <1>5, <1>7, <4>1
    <3>3. ToBlockId(p + n) = b /\ Offset(p + n) = len
      <4>1. ToBlockId(BlockStart(b) + len) = b /\ Offset(BlockStart(b) + len) = len
        <5> HIDE DEF b, len
        <5> QED BY <1>4, <3>2, BlockUnique
      <4> HIDE DEF p, n, b, len
      <4> QED BY <3>2, <4>1
    <3>4. ~Available(blocks, p + n)
      <4>1. ~(len < Len(blocks[b]))
        <5> SUFFICES ~(len < len)
          OBVIOUS
        <5> HIDE DEF len
        <5> QED BY <1>5
      <4> HIDE DEF p, n, b, len
      <4> QED BY <3>3, <4>1 DEF Available
    <3>5. ~Available(blocks', call'.position)
      <4> HIDE DEF n
      <4> QED BY <1>1, <1>9, <3>4 DEF Available
    <3> HIDE DEF n, next, index, copied
    <3> QED BY <1>12, <1>14, <1>15, <2>1, <3>5 DEF FillInv
  <2> QED BY <2>1, <2>2, <2>3
<1> QED BY <1>16, <1>17

LEMMA PurgeCalledInv ==
  ASSUME PurgeCalled
  PROVE  PurgeInv /\ pc = "PurgeLoop"
<1>1. /\ pc = "PurgeLoop" /\ list \in [1 .. MaxCacheSize + 1 -> Blocks] /\ IsInjective(list)
      /\ blocks = [b \in ToSet(list) |-> << >>] /\ CanPurge(list, pinned)
      /\ call = [listed |-> list, turns |-> 0]
  BY DEF PurgeCalled
<1>2. list \in Seq(Nat) /\ Len(list) = MaxCacheSize + 1 /\ MaxCacheSize + 1 \in Nat
  <2> DEFINE n == MaxCacheSize + 1
  <2>1. n \in Nat /\ Blocks \subseteq Nat
    BY LoopsAssumption
  <2>2. list \in [1 .. n -> Blocks]
    BY <1>1
  <2> HIDE DEF n
  <2>3. list \in Seq(Nat) /\ Len(list) = n
    <3> DEFINE e == [i \in 1 .. n |-> list[i]]
    <3>1. list = e /\ \A i \in 1 .. n : list[i] \in Nat
      BY <2>1, <2>2
    <3>2. e \in Seq(Nat) /\ Len(e) = n
      BY <2>1, <3>1
    <3> HIDE DEF e
    <3> QED BY <3>1, <3>2
  <2> QED BY <2>1, <2>3 DEF n
<1>3. /\ call \in [listed : Seq(Nat), turns : Nat] /\ call.listed = list /\ call.turns = 0
  BY <1>1, <1>2
<1>4. DOMAIN blocks = ToSet(call.listed)
  BY <1>1, <1>3
<1>5. call.turns <= Len(call.listed) - VictimPlace(call.listed, pinned)
  <2>1. VictimPlace(list, pinned) \in DOMAIN list
    BY <1>1, <1>2, VictimExists
  <2>2. VictimPlace(list, pinned) \in 1 .. Len(list)
    BY <1>2, <2>1
  <2> QED BY <1>2, <1>3, <2>2
<1>6. list = Rotated(call.listed, call.turns)
  <2> DEFINE r == Rotated(list, 0)
             n == Len(list)
  <2>1. n \in Nat /\ 0 \in 0 .. n
    BY <1>2
  <2>2. /\ r \in Seq(Nat) /\ Len(r) = n
        /\ \A i \in 1 .. n : r[i] = IF i <= 0 THEN list[n - 0 + i] ELSE list[i - 0]
    BY <1>2, <2>1, RotatedPlaces
  <2> HIDE DEF r
  <2>3. \A i \in 1 .. n : r[i] = list[i]
    <3> TAKE i \in 1 .. n
    <3>1. ~(i <= 0) /\ i - 0 = i
      BY <2>1
    <3> QED BY <2>2, <3>1
  <2>4. r = list
    BY <1>2, <2>2, <2>3, SeqEqual
  <2> QED BY <1>3, <2>4 DEF r
<1> QED BY <1>1, <1>2, <1>3, <1>4, <1>5, <1>6 DEF PurgeInv

LEMMA InitLoopsInv == LoopsInit => LoopsInv
BY FillCalledInv, PurgeCalledInv DEF LoopsInit, LoopsInv, FillCall

LEMMA StepLoopsInv == ASSUME LoopsInv, [LoopsNext]_loop_vars PROVE LoopsInv'
<1>1. CASE EnterFill
  <2>1. FillInv
    BY <1>1 DEF EnterFill, LoopsInv, FillCall
  <2> QED BY <1>1, <2>1, EnterFillInv DEF LoopsInv, FillCall
<1>2. CASE FillTurn
  <2>1. FillInv
    BY <1>2 DEF FillTurn, LoopsInv, FillCall
  <2> QED BY <1>2, <2>1, FillTurnInv DEF LoopsInv, FillCall
<1>3. CASE LeaveFill
  <2>1. FillInv
    BY <1>3 DEF LeaveFill, LoopsInv, FillCall
  <2> QED BY <1>3, <2>1, LeaveFillInv DEF LoopsInv, FillCall
<1>4. CASE PurgeTurn
  <2>1. PurgeInv
    BY <1>4 DEF PurgeTurn, LoopsInv, FillCall
  <2> QED BY <1>4, <2>1, PurgeTurnInv DEF LoopsInv, FillCall
<1>5. CASE LeavePurge
  <2>1. PurgeInv
    BY <1>5 DEF LeavePurge, LoopsInv, FillCall
  <2> QED BY <1>5, <2>1, LeavePurgeInv DEF LoopsInv, FillCall
<1>6. CASE UNCHANGED loop_vars
  BY <1>6 DEF loop_vars, LoopsInv, FillCall, FillInv, PurgeInv, BlocksFilled, FillCallTyped,
              CopiedRight, AtPosition, BeforePosition, Available, ByteAt
<1> QED BY <1>1, <1>2, <1>3, <1>4, <1>5, <1>6 DEF LoopsNext

LEMMA AlwaysLoopsInv == LoopsSpec => []LoopsInv
BY InitLoopsInv, StepLoopsInv, PTL DEF LoopsSpec

LEMMA FilledRight ==
  ASSUME FillInv, pc = "Filled"
  PROVE  call.copied = FillBytes(blocks, call.asked_position, call.asked_size)
<1> DEFINE d == Len(call.copied)
           a == call.asked_position
           s == call.asked_size
<1>1. /\ FillCallTyped /\ CopiedRight
      /\ call.size = 0 \/ ~Available(blocks, call.position)
  BY DEF FillInv
<1>2. /\ a \in Nat /\ s \in Nat /\ call.size \in Nat /\ call.copied \in Seq(Nat) /\ d \in Nat
  BY <1>1, FillCallFields
<1>3. call.position = a + d /\ s = call.size + d
  BY <1>1 DEF CopiedRight
<1>4. \A k \in 1 .. d : /\ Available(blocks, a + (k - 1))
                        /\ call.copied[k] = ByteAt(blocks, a + (k - 1))
  BY <1>1 DEF CopiedRight
<1> HIDE DEF a, d, s
<1>5. FillSize(blocks, a, s) = d
  <2>1. d \in 0 .. s /\ (call.size = 0 <=> d = s)
    BY <1>2, <1>3
  <2>2. ASSUME NEW k \in 0 .. d - 1 PROVE Available(blocks, a + k)
    <3>1. k + 1 \in 1 .. d /\ (k + 1) - 1 = k
      BY <1>2
    <3>2. Available(blocks, a + ((k + 1) - 1))
      BY <1>4, <3>1
    <3> QED BY <3>1, <3>2
  <2>3. d = s \/ ~Available(blocks, a + d)
    BY <1>1, <1>3, <2>1
  <2> QED BY <1>2, <2>1, <2>2, <2>3, FillSizeUnique
<1>6. FillBytes(blocks, a, s) = [k \in 1 .. d |-> ByteAt(blocks, a + k - 1)]
  BY <1>5 DEF FillBytes
<1>7. \A k \in 1 .. d : call.copied[k] = ByteAt(blocks, a + k - 1)
  <2> TAKE k \in 1 .. d
  <2>1. a + k - 1 = a + (k - 1)
    BY <1>2
  <2> QED BY <1>4, <2>1
<1>8. call.copied = [k \in 1 .. d |-> call.copied[k]]
  BY <1>2 DEF d
<1> QED BY <1>6, <1>7, <1>8 DEF a, s

\* For every block size, every cache and every question, the loop of Fill
\* copies the bytes that its closed form names, in at most one turn more than
\* it copies bytes.
THEOREM FillLoopIsRight == LoopsSpec => []FillLoopRight
<1>1. LoopsInv => FillLoopRight
  <2> SUFFICES ASSUME LoopsInv PROVE FillLoopRight
    OBVIOUS
  <2>1. pc = "Filled" => call.copied = FillBytes(blocks, call.asked_position, call.asked_size)
    BY FilledRight DEF LoopsInv, FillCall
  <2>2. pc = "FillLoop" => call.turns <= Len(call.copied) + 1
    BY DEF LoopsInv, FillCall, FillInv
  <2> QED BY <2>1, <2>2 DEF FillLoopRight
<1> QED BY <1>1, AlwaysLoopsInv, PTL

LEMMA MissCheck ==
  ASSUME BlocksFilled, NEW position \in Nat, NEW write_pos \in Nat
  PROVE  CheckCacheMiss(position, write_pos) <=> CacheMiss(blocks, position, write_pos)
<1> DEFINE id == ToBlockId(position)
           it == EntryAtOrBefore(id)
<1>1. /\ id \in Nat /\ DOMAIN blocks \subseteq Nat
      /\ position = BlockStart(id) + Offset(position) /\ Offset(position) \in Nat
  BY BlockArithmetic, BlockSizeAssumption DEF BlocksFilled
<1>2. /\ it = NoEntry \/ (it \in DOMAIN blocks /\ it <= id)
      /\ \A b \in DOMAIN blocks : b <= id => it # NoEntry /\ b <= it
  <2> HIDE DEF id
  <2> QED BY <1>1, EntryAtOrBeforeRight
<1> HIDE DEF it
<1>3. Available(blocks, position) <=> it # NoEntry /\ EntryEnd(it) > position
  <2>1. ASSUME Available(blocks, position)
        PROVE  it # NoEntry /\ EntryEnd(it) > position
    <3>1. id \in DOMAIN blocks /\ position < EntryEnd(id)
      BY <2>1, BehindEntry
    <3> HIDE DEF id
    <3>2. it # NoEntry /\ it = id
      BY <1>1, <1>2, <3>1
    <3>3. EntryEnd(id) \in Nat
      <4>1. BlockStart(id) \in Nat /\ Len(blocks[id]) \in Nat
        BY <1>1, <3>1, BlockSizeAssumption DEF BlockStart, BlocksFilled
      <4> QED BY <4>1 DEF EntryEnd
    <3> QED BY <3>1, <3>2, <3>3
  <2>2. ASSUME it # NoEntry, EntryEnd(it) > position
        PROVE  Available(blocks, position)
    <3>1. it \in DOMAIN blocks /\ it <= id /\ it \in Nat
      BY <1>1, <1>2, <2>2
    <3>2. /\ Len(blocks[it]) \in 1 .. BlockSize /\ BlockSize \in Nat
          /\ BlockStart(it) \in Nat /\ BlockStart(id) \in Nat
      <4> HIDE DEF id
      <4> QED BY <1>1, <3>1, BlockSizeAssumption DEF BlockStart, BlocksFilled
    <3>3. it = id
      <4> SUFFICES ASSUME it < id PROVE FALSE
        BY <1>1, <3>1
      <4> DEFINE first == BlockStart(it)
                 last == BlockStart(id)
                 len == Len(blocks[it])
                 off == Offset(position)
      <4>1. first + BlockSize <= last
        <5> HIDE DEF id
        <5> QED BY <1>1, <3>1, BlockOrder
      <4>2. first + len > position /\ position = last + off /\ off \in Nat
        BY <1>1, <2>2 DEF EntryEnd
      <4>3. /\ first \in Nat /\ last \in Nat /\ len \in Nat /\ BlockSize \in Nat
            /\ len <= BlockSize
        BY <3>2
      <4> HIDE DEF first, last, len, off
      <4> QED BY ONLY <4>1, <4>2, <4>3
    <3>4. BlockStart(it) <= position
      <4> HIDE DEF id
      <4> QED BY <1>1, <3>2, <3>3
    <3>5. EntryEnd(it) \in Nat
      BY <3>2 DEF EntryEnd
    <3> QED BY <2>2, <3>1, <3>4, <3>5, EntryBytes
  <2> QED BY <2>1, <2>2
<1>4. CheckCacheMiss(position, write_pos)
        <=> write_pos > position /\ (it = NoEntry \/ ~(EntryEnd(it) > position))
  BY DEF CheckCacheMiss, it, id
<1>5. write_pos > position <=> position < write_pos
  OBVIOUS
<1> QED BY <1>3, <1>4, <1>5 DEF CacheMiss

\* For every block size, every cache, position and write position,
\* CheckCacheMiss answers what its closed form says.
THEOREM MissCheckIsRight == LoopsSpec => []MissCheckRight
<1>1. LoopsInv => MissCheckRight
  <2> SUFFICES ASSUME LoopsInv, pc = "Fill",
                      NEW position \in Questions, NEW write_pos \in Questions
               PROVE  CheckCacheMiss(position, write_pos) <=> CacheMiss(blocks, position, write_pos)
    BY DEF MissCheckRight
  <2>1. BlocksFilled
    BY DEF LoopsInv, FillCall, FillInv
  <2>2. position \in Nat /\ write_pos \in Nat
    BY LoopsAssumption
  <2> QED BY <2>1, <2>2, MissCheck
<1> QED BY <1>1, AlwaysLoopsInv, PTL

\* For every cache size and every pinned range, the loop of PurgeIfNecessary
\* evicts what its closed form names, and pops no block twice.
THEOREM PurgeLoopIsRight == LoopsSpec => []PurgeLoopRight
<1>1. LoopsInv => PurgeLoopRight
  <2> SUFFICES ASSUME LoopsInv, pc \in {"PurgeLoop", "Purged"} PROVE PurgeLoopRight
    BY DEF PurgeLoopRight
  <2>1. PurgeInv
    BY DEF LoopsInv, FillCall
  <2>2. /\ call.listed \in Seq(Nat) /\ call.turns \in Nat /\ MaxCacheSize \in Nat
        /\ Len(call.listed) = MaxCacheSize + 1 /\ CanPurge(call.listed, pinned)
    BY <2>1, LoopsAssumption DEF PurgeInv
  <2>3. VictimPlace(call.listed, pinned) \in 1 .. Len(call.listed)
    <3>1. DOMAIN call.listed = 1 .. Len(call.listed)
      BY <2>2
    <3> QED BY <2>2, <3>1, VictimExists
  <2>4. call.turns <= MaxCacheSize + 1
    BY <2>1, <2>2, <2>3 DEF PurgeInv
  <2> QED BY <2>1, <2>4 DEF PurgeInv, PurgeLoopRight
<1> QED BY <1>1, AlwaysLoopsInv, PTL
=============================================================================
