---------------------- MODULE AudioSourceProvider_proofs ----------------------
(***************************************************************************)
(* Proofs about the audio output: the providers, the mixer manager and the *)
(* sink cache together, for every number of players and of sinks and every *)
(* set of configurations.                                                  *)
(***************************************************************************)
EXTENDS AudioSourceProvider, SequenceTheorems, FiniteSetTheorems, TLAPS

Runs(s) == sinks[s].users = 1 /\ ~sinks[s].owed /\ ~sinks[s].stopped

\* A sink in the cache has not been stopped and nobody is about to stop it.
CachedSinksUntouched ==
  \A i \in DOMAIN cache :
    /\ ~sinks[cache[i].sink].stopped /\ ~sinks[cache[i].sink].owed
    /\ cache[i].sink # sink_to_stop

\* DeleteSink stops a sink that nobody has got.
StopsUnused == sink_to_stop # 0 => sinks[sink_to_stop].users = 0

SinkInv ==
  /\ MM!SC!TypeOK
  /\ MM!SC!UsedMeansAcquired
  /\ MM!SC!SinksAreStopped
  /\ CachedSinksUntouched
  /\ StopsUnused

\* What is under mixers_lock_: a provider that waits for its mixer, under a key
\* that has none; a refused sink; or a mixer that nobody has any more.
LockInv ==
  \/ lock = MM!Free
  \/ \E p \in Providers, k \in MM!MixerKey, s \in DOMAIN sinks :
       /\ lock = MM!GotSink(p, k, s)
       /\ k \notin DOMAIN mixers
       /\ provider[p] = "starting"
  \/ \E s \in DOMAIN sinks : lock = MM!Refused(s)
  \/ \E k \in DOMAIN mixers : lock = MM!Deleting(k) /\ mixers[k].ref_count = 0

MapTypeOK ==
  /\ DOMAIN mixers \subseteq MM!MixerKey
  /\ \A k \in DOMAIN mixers : mixers[k] \in [mixer : DOMAIN sinks, ref_count : Nat]
  /\ root \subseteq DOMAIN mixers
  /\ root = {} <=> DOMAIN mixers = {}
  /\ input \in [Providers -> DOMAIN sinks \cup {0}]

\* The sink of a mixer runs until the mixer's deletion begins, and so does a sink
\* on its way into a mixer, which is no other mixer's.
MixersRun ==
  ~destroyed =>
    /\ \A k \in DOMAIN mixers : lock # MM!Deleting(k) => Runs(mixers[k].mixer)
    /\ lock.pc = "got sink" =>
         Runs(lock.sink) /\ \A k \in DOMAIN mixers : mixers[k].mixer # lock.sink

MixersDistinct == \A k, l \in DOMAIN mixers : mixers[k].mixer = mixers[l].mixer => k = l

ManagerInv == MapTypeOK /\ LockInv /\ MixersRun /\ MixersDistinct /\ RefCountsInputs

\* A provider that is starting is the one that the manager serves.
StartingUnderLock ==
  \A p \in Providers : provider[p] = "starting" =>
    /\ ~null_sink[p]
    /\ lock.pc = "refused" \/ (lock.pc = "got sink" /\ lock.input = p)
    /\ \A q \in Providers : provider[q] = "starting" => q = p

ProviderInv ==
  /\ key \in Keys
  /\ provider \in [Providers -> {"new", "asking", "initializing", "initialized",
                                "starting", "started", "failed"}]
  /\ null_sink \in [Providers -> BOOLEAN]
  /\ MixerWhileStarted
  /\ StartingUnderLock

IInv == SinkInv /\ ManagerInv /\ ProviderInv

\* From the search to the creation of a mixer, another of its configuration is one
\* that the search has missed.
MissedIsSplit ==
  lock.pc = "got sink" =>
    \A k \in DOMAIN mixers :
      MM!SameConfiguration(k, lock.key) => \E e \in DOMAIN mixers : MM!Splits(e, k, lock.key)
-----------------------------------------------------------------------------
(* The sinks and the cache *)

Sink == [healthy : BOOLEAN, stopped : BOOLEAN, users : {0, 1}, owed : BOOLEAN]
CacheEntry == [sink : DOMAIN sinks, key : MM!SC!Key, used : BOOLEAN]

LEMMA SinkTypes ==
  ASSUME MM!SC!TypeOK
  PROVE  /\ sinks \in Seq(Sink) /\ cache \in Seq(CacheEntry)
         /\ Len(sinks) \in Nat /\ DOMAIN sinks = 1 .. Len(sinks)
         /\ Len(cache) \in Nat /\ DOMAIN cache = 1 .. Len(cache)
         /\ \A s \in DOMAIN sinks : sinks[s] \in Sink
         /\ \A i \in DOMAIN cache : cache[i] \in CacheEntry
<1>1. sinks \in Seq(Sink) /\ cache \in Seq(CacheEntry)
  BY DEF MM!SC!TypeOK, MM!SC!SinkIds, Sink, CacheEntry
<1>2. \A S : \A l \in Seq(S) :
        Len(l) \in Nat /\ DOMAIN l = 1 .. Len(l) /\ \A i \in DOMAIN l : l[i] \in S
  OBVIOUS
<1> HIDE DEF Sink, CacheEntry
<1> QED BY <1>1, <1>2

\* A non-empty set of places has a first one.
LEMMA FirstPlace ==
  ASSUME NEW T \in SUBSET Nat, T # {}
  PROVE  MM!SC!Min(T) \in T
<1>1. PICK i \in T : \A j \in T : ~(<<j, i>> \in OpToRel(<, Nat))
  BY NatLessThanWellFounded, WFMin
<1>2. \A j \in T : ~(j < i)
  BY <1>1 DEF OpToRel
<1>3. \A j \in T : i <= j
  BY <1>2
<1> QED BY <1>3 DEF MM!SC!Min

\* EntryOf finds the entry of a sink if there is one.
LEMMA EntryFound ==
  ASSUME MM!SC!TypeOK, NEW s
  PROVE  LET i == MM!SC!EntryOf(s)
         IN  /\ i \in 0 .. Len(cache)
             /\ i # 0 => cache[i].sink = s
             /\ i = 0 => \A j \in DOMAIN cache : cache[j].sink # s
<1> DEFINE T == {i \in 1 .. Len(cache) : cache[i].sink = s}
<1>1. MM!SC!EntryOf(s) = IF T # {} THEN MM!SC!Min(T) ELSE 0
  BY DEF MM!SC!EntryOf, MM!SC!SelectInSeq
<1>2. T # {} => MM!SC!Min(T) \in T
  <2>1. T \in SUBSET Nat
    BY SinkTypes
  <2> HIDE DEF T
  <2> QED BY <2>1, FirstPlace
<1>3. Len(cache) \in Nat /\ DOMAIN cache = 1 .. Len(cache)
  BY SinkTypes
<1> QED BY <1>1, <1>2, <1>3

\* FindCacheEntry finds an entry that matches.
LEMMA MatchFound ==
  ASSUME MM!SC!TypeOK, NEW k, NEW unused_only
  PROVE  LET i == MM!SC!FindCacheEntry(k, unused_only)
         IN  /\ i \in 0 .. Len(cache)
             /\ i # 0 => MM!SC!Matches(cache[i], k, unused_only)
<1> DEFINE T == {i \in 1 .. Len(cache) : MM!SC!Matches(cache[i], k, unused_only)}
<1>1. MM!SC!FindCacheEntry(k, unused_only) = IF T # {} THEN MM!SC!Min(T) ELSE 0
  BY DEF MM!SC!FindCacheEntry, MM!SC!SelectInSeq
<1>2. T # {} => MM!SC!Min(T) \in T
  <2>1. T \in SUBSET Nat
    BY SinkTypes
  <2> HIDE DEF T
  <2> QED BY <2>1, FirstPlace
<1>3. Len(cache) \in Nat
  BY SinkTypes
<1> QED BY <1>1, <1>2, <1>3

\* A sink is in the cache, about to be stopped, somebody's, or stopped.
SinksAccounted ==
  \A s \in DOMAIN sinks :
    \/ \E i \in DOMAIN cache : cache[i].sink = s
    \/ sink_to_stop = s
    \/ sinks[s].users # 0 \/ sinks[s].owed
    \/ ~sinks[s].healthy \/ sinks[s].stopped

LEMMA DroppedSinks == MM!SC!TypeOK => (MM!SC!SinksAreStopped <=> SinksAccounted)
<1> SUFFICES ASSUME MM!SC!TypeOK PROVE MM!SC!SinksAreStopped <=> SinksAccounted
  OBVIOUS
<1>1. \A s : MM!SC!EntryOf(s) = 0 <=> \A j \in DOMAIN cache : cache[j].sink # s
  <2> TAKE s
  <2>1. CASE MM!SC!EntryOf(s) = 0
    BY <2>1, EntryFound
  <2>2. CASE MM!SC!EntryOf(s) # 0
    BY <2>2, EntryFound, SinkTypes
  <2> QED BY <2>1, <2>2
<1> QED BY <1>1, SinkTypes DEF SinksAccounted, MM!SC!SinksAreStopped, MM!SC!Dropped, MM!SC!SinkIds, Sink

CallStates ==
  {MM!SC!Idle} \cup {MM!SC!Missed(k) : k \in MM!SC!Key} \cup {MM!SC!Cached(s) : s \in DOMAIN sinks}

LEMMA CallTypes == ASSUME MM!SC!TypeOK PROVE calls \in [Providers -> CallStates]
BY DEF MM!SC!TypeOK, MM!SC!SinkIds, CallStates

\* The invariant of the cache follows from what it says of each entry and sink.
LEMMA SinkInvNext ==
  ASSUME MM!SC!TypeOK,
         sinks' \in Seq(Sink), DOMAIN sinks \subseteq DOMAIN sinks',
         cache' \in Seq(CacheEntry) \/ cache' \in Seq(CacheEntry'),
         calls' \in [Providers -> CallStates] \/ calls' \in [Providers -> CallStates'],
         delete_tasks' \subseteq DOMAIN sinks',
         sink_to_stop' \in DOMAIN sinks' \cup {0},
         destroyed' \in BOOLEAN,
         \A i, j \in DOMAIN cache' : cache'[i].sink = cache'[j].sink => i = j,
         \A i \in DOMAIN cache' :
           LET s == cache'[i].sink
           IN  /\ cache'[i].used <=> sinks'[s].users = 1
               /\ ~sinks'[s].stopped /\ ~sinks'[s].owed /\ s # sink_to_stop',
         sink_to_stop' # 0 => sinks'[sink_to_stop'].users = 0,
         SinksAccounted'
  PROVE  SinkInv'
<1>1. cache' \in Seq(CacheEntry')
  <2>1. CacheEntry \subseteq CacheEntry'
    BY DEF CacheEntry, MM!SC!Key
  <2> HIDE DEF CacheEntry
  <2>2. CASE cache' \in Seq(CacheEntry)
    BY <2>1, <2>2, SeqMonotonic
  <2> QED BY <2>2
<1>2. calls' \in [Providers -> CallStates']
  <2>1. CallStates \subseteq CallStates'
    BY DEF CallStates, MM!SC!Key, MM!SC!Idle, MM!SC!Missed, MM!SC!Cached
  <2> HIDE DEF CallStates
  <2> QED BY <2>1
<1>3. MM!SC!TypeOK'
  BY <1>1, <1>2 DEF MM!SC!TypeOK, MM!SC!SinkIds, Sink, CacheEntry, CallStates
<1>4. MM!SC!UsedMeansAcquired' /\ CachedSinksUntouched' /\ StopsUnused'
  BY DEF MM!SC!UsedMeansAcquired, CachedSinksUntouched, StopsUnused
<1>5. (MM!SC!TypeOK => (MM!SC!SinksAreStopped <=> SinksAccounted))'
  BY DroppedSinks, PTL
<1> QED BY <1>3, <1>4, <1>5 DEF SinkInv

LEMMA SameSinks ==
  ASSUME SinkInv, MM!SC!TypeOK', UNCHANGED <<cache, sinks, sink_to_stop>>
  PROVE  MM!SC!SinksAreStopped'
<1>1. SinksAccounted
  BY DroppedSinks DEF SinkInv
<1>2. SinksAccounted'
  BY <1>1 DEF SinksAccounted
<1>3. (MM!SC!TypeOK => (MM!SC!SinksAreStopped <=> SinksAccounted))'
  BY DroppedSinks, PTL
<1> QED BY <1>2, <1>3

LEMMA SinkFrame ==
  ASSUME SinkInv, UNCHANGED <<cache, sinks, calls, delete_tasks, sink_to_stop, destroyed>>
  PROVE  SinkInv'
<1>1. MM!SC!TypeOK'
  BY DEF SinkInv, MM!SC!TypeOK, MM!SC!SinkIds
<1>2. MM!SC!SinksAreStopped'
  BY <1>1, SameSinks
<1> QED BY <1>1, <1>2
    DEF SinkInv, MM!SC!UsedMeansAcquired, CachedSinksUntouched, StopsUnused

LEMMA GetSinkInfoStep ==
  ASSUME SinkInv, NEW t \in Providers, NEW k \in MM!SC!Key, MM!SC!GetSinkInfo(t, k)
  PROVE  SinkInv' /\ UNCHANGED <<sinks, destroyed>>
<1> USE DEF MM!SC!GetSinkInfo
<1>1. calls' \in [Providers -> CallStates]
  BY CallTypes DEF SinkInv, CallStates
<1>2. MM!SC!TypeOK'
  BY <1>1 DEF SinkInv, MM!SC!TypeOK, MM!SC!SinkIds, CallStates
<1>3. MM!SC!SinksAreStopped'
  BY <1>2, SameSinks DEF SinkInv
<1> QED BY <1>2, <1>3
    DEF SinkInv, MM!SC!UsedMeansAcquired, CachedSinksUntouched, StopsUnused

LEMMA DeleteLaterStep ==
  ASSUME SinkInv, NEW t \in Providers, MM!SC!DeleteLaterIfUnused(t)
  PROVE  SinkInv' /\ UNCHANGED <<sinks, destroyed>>
<1> USE DEF MM!SC!DeleteLaterIfUnused
<1>1. calls' \in [Providers -> CallStates] /\ calls[t].sink \in DOMAIN sinks
  BY CallTypes DEF SinkInv, CallStates, MM!SC!Idle, MM!SC!Missed, MM!SC!Cached
<1>2. MM!SC!TypeOK'
  BY <1>1 DEF SinkInv, MM!SC!TypeOK, MM!SC!SinkIds, CallStates
<1>3. MM!SC!SinksAreStopped'
  BY <1>2, SameSinks DEF SinkInv
<1> QED BY <1>2, <1>3
    DEF SinkInv, MM!SC!UsedMeansAcquired, CachedSinksUntouched, StopsUnused

\* A new sink is nobody's yet, and an old one is as it was.
LEMMA SinkAdded ==
  ASSUME MM!SC!TypeOK, NEW n \in {0, 1}, NEW sink \in MM!SC!Created(n),
         sinks' = Append(sinks, sink)
  PROVE  /\ sinks' \in Seq(Sink) /\ sink \in Sink
         /\ MM!SC!NewSink \in Nat \ {0} /\ MM!SC!NewSink \notin DOMAIN sinks
         /\ DOMAIN sinks' = DOMAIN sinks \cup {MM!SC!NewSink}
         /\ \A s \in DOMAIN sinks : sinks'[s] = sinks[s]
         /\ sinks'[MM!SC!NewSink] = sink
         /\ sink.users = n /\ ~sink.owed /\ ~sink.stopped
<1>1. sink \in Sink /\ sink.users = n /\ ~sink.owed /\ ~sink.stopped
  <2>1. PICK h \in BOOLEAN : sink = [healthy |-> h, stopped |-> FALSE, users |-> n, owed |-> FALSE]
    BY DEF MM!SC!Created
  <2> QED BY <2>1 DEF Sink
<1> HIDE DEF Sink
<1>2. sinks \in Seq(Sink) /\ Len(sinks) \in Nat /\ DOMAIN sinks = 1 .. Len(sinks)
  BY SinkTypes
<1> QED BY <1>1, <1>2 DEF MM!SC!NewSink

LEMMA EntryAdded ==
  ASSUME MM!SC!TypeOK, NEW e, cache' = Append(cache, e)
  PROVE  /\ DOMAIN cache' = DOMAIN cache \cup {Len(cache) + 1}
         /\ Len(cache) + 1 \notin DOMAIN cache
         /\ \A i \in DOMAIN cache : cache'[i] = cache[i]
         /\ cache'[Len(cache) + 1] = e
         /\ e \in CacheEntry' /\ DOMAIN sinks \subseteq DOMAIN sinks' => cache' \in Seq(CacheEntry')
<1>1. cache \in Seq(CacheEntry) /\ Len(cache) \in Nat /\ DOMAIN cache = 1 .. Len(cache)
  BY SinkTypes
<1>2. DOMAIN sinks \subseteq DOMAIN sinks' => cache \in Seq(CacheEntry')
  <2>1. DOMAIN sinks \subseteq DOMAIN sinks' => CacheEntry \subseteq CacheEntry'
    BY DEF CacheEntry, MM!SC!Key
  <2> HIDE DEF CacheEntry
  <2> QED BY <1>1, <2>1, SeqMonotonic
<1> HIDE DEF CacheEntry
<1> QED BY <1>1, <1>2

LEMMA CacheUnusedStep ==
  ASSUME SinkInv, NEW t \in Providers, MM!SC!CacheUnusedSinkIfHealthy(t)
  PROVE  /\ SinkInv' /\ UNCHANGED destroyed
         /\ DOMAIN sinks \subseteq DOMAIN sinks'
         /\ \A s \in DOMAIN sinks : sinks'[s] = sinks[s]
<1>1. PICK sink \in MM!SC!Created(0) :
        /\ sinks' = Append(sinks, sink)
        /\ \/ /\ sink.healthy
              /\ cache' = Append(cache, MM!SC!Entry(MM!SC!NewSink, calls[t].key, FALSE))
              /\ calls' = [calls EXCEPT ![t] = MM!SC!Cached(MM!SC!NewSink)]
           \/ /\ ~sink.healthy
              /\ calls' = [calls EXCEPT ![t] = MM!SC!Idle]
              /\ UNCHANGED cache
  BY DEF MM!SC!CacheUnusedSinkIfHealthy
<1>2. UNCHANGED <<delete_tasks, sink_to_stop, destroyed>> /\ calls[t].pc = "missed"
  BY DEF MM!SC!CacheUnusedSinkIfHealthy
<1>3. MM!SC!TypeOK
  BY DEF SinkInv
<1> DEFINE s == MM!SC!NewSink
<1>4. /\ sinks' \in Seq(Sink) /\ s \in Nat \ {0} /\ s \notin DOMAIN sinks
      /\ DOMAIN sinks' = DOMAIN sinks \cup {s}
      /\ \A r \in DOMAIN sinks : sinks'[r] = sinks[r]
      /\ sinks'[s] = sink
      /\ sink.users = 0 /\ ~sink.owed /\ ~sink.stopped
  BY <1>1, <1>3, SinkAdded
<1> HIDE DEF s
<1>5. /\ calls \in [Providers -> CallStates] /\ calls[t].key \in MM!SC!Key
      /\ delete_tasks \subseteq DOMAIN sinks /\ sink_to_stop \in DOMAIN sinks \cup {0}
      /\ destroyed \in BOOLEAN
      /\ \A i \in DOMAIN cache : cache[i].sink \in DOMAIN sinks
  <2>1. calls \in [Providers -> CallStates]
    BY <1>3, CallTypes
  <2>2. calls[t].key \in MM!SC!Key
    BY <1>2, <2>1 DEF CallStates, MM!SC!Idle, MM!SC!Missed, MM!SC!Cached
  <2>3. \A i \in DOMAIN cache : cache[i].sink \in DOMAIN sinks
    BY <1>3, SinkTypes DEF CacheEntry
  <2> QED BY <1>3, <2>1, <2>2, <2>3 DEF MM!SC!TypeOK, MM!SC!SinkIds
<1>6. MM!SC!UsedMeansAcquired /\ CachedSinksUntouched /\ StopsUnused /\ SinksAccounted
  BY <1>3, DroppedSinks DEF SinkInv
<1>7. CASE sink.healthy
  <2> DEFINE e == MM!SC!Entry(s, calls[t].key, FALSE)
  <2>1. cache' = Append(cache, e) /\ calls' = [calls EXCEPT ![t] = MM!SC!Cached(s)]
    BY <1>1, <1>7 DEF s
  <2>2. e \in CacheEntry' /\ e.sink = s /\ e.used = FALSE
    BY <1>4, <1>5 DEF CacheEntry, MM!SC!Entry, MM!SC!Key
  <2> HIDE DEF e
  <2>3. /\ DOMAIN cache' = DOMAIN cache \cup {Len(cache) + 1}
        /\ Len(cache) + 1 \notin DOMAIN cache
        /\ \A i \in DOMAIN cache : cache'[i] = cache[i]
        /\ cache'[Len(cache) + 1] = e
        /\ cache' \in Seq(CacheEntry')
    BY <1>3, <1>4, <2>1, <2>2, EntryAdded
  <2>4. calls' \in [Providers -> CallStates']
    BY <1>4, <1>5, <2>1 DEF CallStates, MM!SC!Key, MM!SC!Idle, MM!SC!Missed, MM!SC!Cached
  <2>5. \A i, j \in DOMAIN cache' : cache'[i].sink = cache'[j].sink => i = j
    BY <1>4, <1>5, <1>6, <2>2, <2>3 DEF MM!SC!UsedMeansAcquired
  <2>6. \A i \in DOMAIN cache' :
          LET r == cache'[i].sink
          IN  /\ cache'[i].used <=> sinks'[r].users = 1
              /\ ~sinks'[r].stopped /\ ~sinks'[r].owed /\ r # sink_to_stop'
    <3> TAKE i \in DOMAIN cache'
    <3>1. CASE i \in DOMAIN cache
      BY <1>2, <1>4, <1>5, <1>6, <2>3, <3>1 DEF MM!SC!UsedMeansAcquired, CachedSinksUntouched
    <3>2. CASE i = Len(cache) + 1
      BY <1>2, <1>4, <1>5, <2>2, <2>3, <3>2
    <3> QED BY <2>3, <3>1, <3>2
  <2>7. SinksAccounted'
    BY <1>2, <1>4, <1>6, <2>2, <2>3 DEF SinksAccounted
  <2>8. sink_to_stop' # 0 => sinks'[sink_to_stop'].users = 0
    BY <1>2, <1>4, <1>5, <1>6 DEF StopsUnused
  <2>9. SinkInv'
    BY <1>2, <1>3, <1>4, <1>5, <2>3, <2>4, <2>5, <2>6, <2>7, <2>8, SinkInvNext
  <2> QED BY <1>2, <1>4, <2>9
<1>8. CASE ~sink.healthy
  <2>1. UNCHANGED cache /\ calls' = [calls EXCEPT ![t] = MM!SC!Idle]
    BY <1>1, <1>8
  <2>2. cache' \in Seq(CacheEntry)
    BY <1>3, <2>1, SinkTypes
  <2>3. calls' \in [Providers -> CallStates]
    BY <1>5, <2>1 DEF CallStates
  <2>4. /\ \A i, j \in DOMAIN cache' : cache'[i].sink = cache'[j].sink => i = j
        /\ \A i \in DOMAIN cache' :
             LET r == cache'[i].sink
             IN  /\ cache'[i].used <=> sinks'[r].users = 1
                 /\ ~sinks'[r].stopped /\ ~sinks'[r].owed /\ r # sink_to_stop'
    BY <1>2, <1>4, <1>5, <1>6, <2>1 DEF MM!SC!UsedMeansAcquired, CachedSinksUntouched
  <2>5. SinksAccounted'
    BY <1>2, <1>4, <1>6, <1>8, <2>1 DEF SinksAccounted
  <2>6. sink_to_stop' # 0 => sinks'[sink_to_stop'].users = 0
    BY <1>2, <1>4, <1>5, <1>6 DEF StopsUnused
  <2>7. SinkInv'
    BY <1>2, <1>3, <1>4, <1>5, <2>2, <2>3, <2>4, <2>5, <2>6, SinkInvNext
  <2> QED BY <1>2, <1>4, <2>7
<1> QED BY <1>7, <1>8

\* Erasing an entry of a list keeps the places before it and moves up those behind it.
LEMMA RemoveAtPlaces ==
  ASSUME NEW S, NEW l \in Seq(S), NEW k \in 1 .. Len(l)
  PROVE  /\ MM!SC!RemoveAt(l, k) \in Seq(S)
         /\ Len(MM!SC!RemoveAt(l, k)) = Len(l) - 1
         /\ \A i \in 1 .. Len(l) - 1 :
               MM!SC!RemoveAt(l, k)[i] = IF i < k THEN l[i] ELSE l[i + 1]
<1> DEFINE a == SubSeq(l, 1, k - 1)
           b == SubSeq(l, k + 1, Len(l))
<1>1. Len(l) \in Nat /\ k \in Nat \ {0} /\ \A i \in 1 .. Len(l) : l[i] \in S
  OBVIOUS
<1>2. /\ a \in Seq(S)
      /\ Len(a) = k - 1
      /\ \A i \in 1 .. k - 1 : a[i] = l[i]
  <2>1. \A i \in 1 .. k - 1 : l[i] \in S
    BY <1>1
  <2> QED BY <1>1, <2>1, SubSeqProperties
<1>3. /\ b \in Seq(S)
      /\ Len(b) = Len(l) - k
      /\ \A i \in 1 .. Len(l) - k : b[i] = l[k + i]
  <2>1. \A i \in k + 1 .. Len(l) : l[i] \in S
    BY <1>1
  <2>2. \A i \in 1 .. Len(l) - (k + 1) + 1 : b[i] = l[(k + 1) + i - 1]
    BY <1>1, <2>1, SubSeqProperties
  <2>3. \A i \in 1 .. Len(l) - k : b[i] = l[k + i]
    BY <1>1, <2>2
  <2>4. b \in Seq(S) /\ Len(b) = IF k + 1 <= Len(l) THEN Len(l) - (k + 1) + 1 ELSE 0
    BY <1>1, <2>1, SubSeqProperties
  <2> QED BY <1>1, <2>3, <2>4
<1>4. /\ a \o b \in Seq(S)
      /\ Len(a \o b) = Len(l) - 1
      /\ \A i \in 1 .. Len(a) + Len(b) :
            (a \o b)[i] = IF i <= Len(a) THEN a[i] ELSE b[i - Len(a)]
  <2> HIDE DEF a, b
  <2>1. a \in Seq(S) /\ b \in Seq(S)
    BY <1>2, <1>3
  <2>2. /\ a \o b \in Seq(S)
        /\ Len(a \o b) = Len(a) + Len(b)
        /\ \A i \in 1 .. Len(a) + Len(b) :
              (a \o b)[i] = IF i <= Len(a) THEN a[i] ELSE b[i - Len(a)]
    BY ONLY <2>1, ConcatProperties
  <2> QED BY <1>1, <1>2, <1>3, <2>2
<1>5. MM!SC!RemoveAt(l, k) = a \o b
  BY DEF MM!SC!RemoveAt
<1> HIDE DEF a, b
<1>6. ASSUME NEW i \in 1 .. Len(l) - 1
      PROVE  (a \o b)[i] = IF i < k THEN l[i] ELSE l[i + 1]
  <2>1. CASE i < k
    BY <1>1, <1>2, <1>3, <1>4, <2>1
  <2>2. CASE i >= k
    <3>1. i - (k - 1) \in 1 .. Len(l) - k
      BY <1>1, <2>2
    <3>2. (a \o b)[i] = b[i - (k - 1)]
      BY <1>1, <1>2, <1>3, <1>4, <2>2
    <3>3. b[i - (k - 1)] = l[k + (i - (k - 1))]
      BY <1>3, <3>1
    <3>4. k + (i - (k - 1)) = i + 1
      BY <1>1
    <3> QED BY <2>2, <1>1, <3>2, <3>3, <3>4
  <2>3. i < k \/ i >= k
    BY <1>1
  <2> QED BY <2>1, <2>2, <2>3
<1> QED BY <1>4, <1>5, <1>6

\* Erasing an entry of the cache keeps the others.
LEMMA EntryRemoved ==
  ASSUME MM!SC!TypeOK, MM!SC!UsedMeansAcquired, NEW k \in DOMAIN cache,
         cache' = MM!SC!RemoveAt(cache, k)
  PROVE  /\ cache' \in Seq(CacheEntry)
         /\ \A i \in DOMAIN cache' : \E j \in DOMAIN cache \ {k} : cache'[i] = cache[j]
         /\ \A j \in DOMAIN cache \ {k} : \E i \in DOMAIN cache' : cache'[i] = cache[j]
         /\ \A i, j \in DOMAIN cache' : cache'[i].sink = cache'[j].sink => i = j
         /\ \A i \in DOMAIN cache' : cache'[i].sink # cache[k].sink
<1> DEFINE n == Len(cache)
           m == MM!SC!RemoveAt(cache, k)
<1>1. cache \in Seq(CacheEntry) /\ n \in Nat /\ DOMAIN cache = 1 .. n /\ k \in 1 .. n
  BY SinkTypes
<1>2. /\ m \in Seq(CacheEntry) /\ Len(m) = n - 1
      /\ \A i \in 1 .. n - 1 : m[i] = IF i < k THEN cache[i] ELSE cache[i + 1]
  <2> HIDE DEF CacheEntry
  <2> QED BY <1>1, RemoveAtPlaces
<1>3. cache' = m
  OBVIOUS
<1>4. DOMAIN m = 1 .. n - 1
  <2> HIDE DEF m, n, CacheEntry
  <2> QED BY <1>2
<1> DEFINE from(i) == IF i < k THEN i ELSE i + 1
<1> HIDE DEF m, n
<1>5. \A i \in 1 .. n - 1 : from(i) \in (1 .. n) \ {k} /\ m[i] = cache[from(i)]
  BY <1>1, <1>2
<1>6. \A i, j \in 1 .. n - 1 : from(i) = from(j) => i = j
  BY <1>1
<1>7. \A j \in (1 .. n) \ {k} : \E i \in 1 .. n - 1 : from(i) = j
  <2> TAKE j \in (1 .. n) \ {k}
  <2>1. CASE j < k
    <3>1. j \in 1 .. n - 1 /\ from(j) = j
      BY <1>1, <2>1
    <3> QED BY <3>1
  <2>2. CASE j > k
    <3>1. j - 1 \in 1 .. n - 1 /\ from(j - 1) = j
      BY <1>1, <2>2
    <3> QED BY <3>1
  <2> QED BY <1>1, <2>1, <2>2
<1> HIDE DEF from
<1>8. \A i, j \in 1 .. n : cache[i].sink = cache[j].sink => i = j
  BY <1>1 DEF MM!SC!UsedMeansAcquired
<1>9. \A i \in DOMAIN m : \E j \in DOMAIN cache \ {k} : m[i] = cache[j]
  BY <1>1, <1>4, <1>5
<1>10. \A j \in DOMAIN cache \ {k} : \E i \in DOMAIN m : m[i] = cache[j]
  BY <1>1, <1>4, <1>5, <1>7
<1>11. \A i, j \in DOMAIN m : m[i].sink = m[j].sink => i = j
  BY <1>4, <1>5, <1>6, <1>8
<1>12. \A i \in DOMAIN m : m[i].sink # cache[k].sink
  BY <1>1, <1>4, <1>5, <1>8
<1> QED BY <1>2, <1>3, <1>9, <1>10, <1>11, <1>12

\* What the actions read of a good state, in one place.
LEMMA SinkFacts ==
  ASSUME SinkInv
  PROVE  /\ MM!SC!TypeOK /\ MM!SC!UsedMeansAcquired
         /\ CachedSinksUntouched /\ StopsUnused /\ SinksAccounted
         /\ sinks \in Seq(Sink) /\ DOMAIN sinks = 1 .. Len(sinks) /\ Len(sinks) \in Nat
         /\ cache \in Seq(CacheEntry)
         /\ \A s \in DOMAIN sinks : sinks[s] \in Sink
         /\ \A i \in DOMAIN cache : cache[i] \in CacheEntry /\ cache[i].sink \in DOMAIN sinks
         /\ calls \in [Providers -> CallStates]
         /\ delete_tasks \subseteq DOMAIN sinks /\ sink_to_stop \in DOMAIN sinks \cup {0}
         /\ destroyed \in BOOLEAN
<1>1. /\ MM!SC!TypeOK /\ MM!SC!UsedMeansAcquired
      /\ CachedSinksUntouched /\ StopsUnused /\ SinksAccounted
  BY DroppedSinks DEF SinkInv
<1>2. \A i \in DOMAIN cache : cache[i] \in CacheEntry /\ cache[i].sink \in DOMAIN sinks
  BY <1>1, SinkTypes DEF CacheEntry
<1>3. /\ delete_tasks \subseteq DOMAIN sinks /\ sink_to_stop \in DOMAIN sinks \cup {0}
      /\ destroyed \in BOOLEAN
  BY <1>1 DEF MM!SC!TypeOK, MM!SC!SinkIds
<1> QED BY <1>1, <1>2, <1>3, SinkTypes, CallTypes

\* A sink's record changes in place.
LEMMA SinkChanged ==
  ASSUME MM!SC!TypeOK, NEW s \in DOMAIN sinks, NEW new \in Sink,
         sinks' = [sinks EXCEPT ![s] = new]
  PROVE  /\ sinks' \in Seq(Sink) /\ DOMAIN sinks' = DOMAIN sinks
         /\ sinks'[s] = new
         /\ \A r \in DOMAIN sinks \ {s} : sinks'[r] = sinks[r]
<1> HIDE DEF Sink
<1>1. sinks \in Seq(Sink) /\ Len(sinks) \in Nat /\ DOMAIN sinks = 1 .. Len(sinks)
  BY SinkTypes
<1> QED BY <1>1, ExceptSeq

LEMMA StopDeletedStep ==
  ASSUME SinkInv, MM!SC!StopDeleted
  PROVE  /\ SinkInv' /\ UNCHANGED destroyed
         /\ DOMAIN sinks' = DOMAIN sinks
         /\ \A s \in DOMAIN sinks : sinks[s].users # 0 => sinks'[s] = sinks[s]
<1>1. /\ sink_to_stop # 0 /\ sink_to_stop' = 0
      /\ sinks' = [sinks EXCEPT ![sink_to_stop].stopped = TRUE]
      /\ UNCHANGED <<cache, calls, delete_tasks, destroyed>>
  BY DEF MM!SC!StopDeleted
<1> DEFINE s == sink_to_stop
           new == [sinks[s] EXCEPT !.stopped = TRUE]
<1>2. s \in DOMAIN sinks /\ sinks[s] \in Sink /\ sinks[s].users = 0
  BY <1>1, SinkFacts DEF StopsUnused
<1>3. new \in Sink /\ new.users = 0 /\ new.stopped
  BY <1>2 DEF Sink
<1>4. sinks' = [sinks EXCEPT ![s] = new]
  BY <1>1
<1> HIDE DEF s, new
<1>5. /\ sinks' \in Seq(Sink) /\ DOMAIN sinks' = DOMAIN sinks /\ sinks'[s] = new
      /\ \A r \in DOMAIN sinks \ {s} : sinks'[r] = sinks[r]
  BY <1>2, <1>3, <1>4, SinkChanged, SinkFacts
<1>6. /\ \A i, j \in DOMAIN cache' : cache'[i].sink = cache'[j].sink => i = j
      /\ \A i \in DOMAIN cache' :
           LET r == cache'[i].sink
           IN  /\ cache'[i].used <=> sinks'[r].users = 1
               /\ ~sinks'[r].stopped /\ ~sinks'[r].owed /\ r # sink_to_stop'
  <2>1. \A i \in DOMAIN cache : cache[i].sink \in DOMAIN sinks \ {s} /\ cache[i].sink # 0
    BY SinkFacts DEF CachedSinksUntouched, s
  <2> QED BY <1>1, <1>5, <2>1, SinkFacts DEF MM!SC!UsedMeansAcquired, CachedSinksUntouched
<1>7. SinksAccounted'
  BY <1>1, <1>3, <1>5, SinkFacts DEF SinksAccounted, s
<1>8. SinkInv'
  BY <1>1, <1>5, <1>6, <1>7, SinkFacts, SinkInvNext
<1> QED BY <1>1, <1>2, <1>5, <1>8

LEMMA DeleteTaskStep ==
  ASSUME SinkInv, NEW s \in DOMAIN sinks, MM!SC!DeleteTask(s)
  PROVE  SinkInv' /\ UNCHANGED <<sinks, destroyed>>
<1> DEFINE k == MM!SC!EntryOf(s)
<1>1. /\ sink_to_stop = 0 /\ delete_tasks' = delete_tasks \ {s}
      /\ IF k # 0 /\ ~cache[k].used
         THEN cache' = MM!SC!RemoveAt(cache, k) /\ sink_to_stop' = s
         ELSE UNCHANGED <<cache, sink_to_stop>>
      /\ UNCHANGED <<sinks, calls, destroyed>>
  BY DEF MM!SC!DeleteTask
<1>2. k \in 0 .. Len(cache) /\ (k # 0 => cache[k].sink = s) /\ DOMAIN cache = 1 .. Len(cache)
      /\ Len(cache) \in Nat
  BY SinkFacts, EntryFound, SinkTypes
<1> HIDE DEF k
<1>3. CASE k # 0 /\ ~cache[k].used
  <2>1. k \in DOMAIN cache /\ cache[k].sink = s /\ sinks[s].users = 0
    <3>1. k \in DOMAIN cache /\ cache[k].sink = s /\ sinks[s].users # 1
      BY <1>2, <1>3, SinkFacts DEF MM!SC!UsedMeansAcquired
    <3> QED BY <3>1, SinkFacts DEF Sink
  <2>2. /\ cache' \in Seq(CacheEntry)
        /\ \A i \in DOMAIN cache' : \E j \in DOMAIN cache \ {k} : cache'[i] = cache[j]
        /\ \A j \in DOMAIN cache \ {k} : \E i \in DOMAIN cache' : cache'[i] = cache[j]
        /\ \A i, j \in DOMAIN cache' : cache'[i].sink = cache'[j].sink => i = j
        /\ \A i \in DOMAIN cache' : cache'[i].sink # s
    BY <1>1, <1>3, <2>1, SinkFacts, EntryRemoved
  <2>3. \A i \in DOMAIN cache' :
          LET r == cache'[i].sink
          IN  /\ cache'[i].used <=> sinks'[r].users = 1
              /\ ~sinks'[r].stopped /\ ~sinks'[r].owed /\ r # sink_to_stop'
    BY <1>1, <1>3, <2>2, SinkFacts DEF MM!SC!UsedMeansAcquired, CachedSinksUntouched
  <2>4. SinksAccounted'
    <3> SUFFICES ASSUME NEW r \in DOMAIN sinks, NEW j \in DOMAIN cache, cache[j].sink = r
                 PROVE  sink_to_stop' = r \/ \E i \in DOMAIN cache' : cache'[i].sink = r
      <4>1. \A r \in DOMAIN sinks : sink_to_stop # r
        BY <1>1, SinkFacts
      <4> QED BY <1>1, <4>1, SinkFacts DEF SinksAccounted
    <3>1. CASE j = k
      BY <1>1, <1>3, <2>1, <3>1
    <3>2. CASE j # k
      BY <2>2, <3>2
    <3> QED BY <3>1, <3>2
  <2>5. SinkInv'
    BY <1>1, <1>3, <2>1, <2>2, <2>3, <2>4, SinkFacts, SinkInvNext
  <2> QED BY <1>1, <2>5
<1>4. CASE ~(k # 0 /\ ~cache[k].used)
  <2>1. UNCHANGED <<cache, sink_to_stop>>
    BY <1>1, <1>4
  <2>2. MM!SC!TypeOK'
    BY <1>1, <2>1, SinkFacts DEF MM!SC!TypeOK, MM!SC!SinkIds
  <2>3. MM!SC!SinksAreStopped'
    BY <1>1, <2>1, <2>2, SameSinks
  <2> QED BY <1>1, <2>1, <2>2, <2>3
      DEF SinkInv, MM!SC!UsedMeansAcquired, CachedSinksUntouched, StopsUnused
<1> QED BY <1>3, <1>4

LEMMA StopReleasedStep ==
  ASSUME SinkInv, NEW s \in DOMAIN sinks, MM!SC!StopReleased(s)
  PROVE  /\ SinkInv' /\ UNCHANGED destroyed
         /\ sinks[s].owed
         /\ DOMAIN sinks' = DOMAIN sinks
         /\ \A r \in DOMAIN sinks \ {s} : sinks'[r] = sinks[r]
<1> DEFINE new == [sinks[s] EXCEPT !.owed = FALSE, !.stopped = TRUE]
<1>1. /\ sinks[s].owed
      /\ sinks' = [sinks EXCEPT ![s] = new]
      /\ UNCHANGED <<cache, calls, delete_tasks, sink_to_stop, destroyed>>
  BY DEF MM!SC!StopReleased
<1>2. new \in Sink /\ new.users = sinks[s].users /\ new.stopped
  BY SinkFacts DEF Sink
<1> HIDE DEF new
<1>3. /\ sinks' \in Seq(Sink) /\ DOMAIN sinks' = DOMAIN sinks /\ sinks'[s] = new
      /\ \A r \in DOMAIN sinks \ {s} : sinks'[r] = sinks[r]
  BY <1>1, <1>2, SinkChanged, SinkFacts
<1>4. /\ \A i, j \in DOMAIN cache' : cache'[i].sink = cache'[j].sink => i = j
      /\ \A i \in DOMAIN cache' :
           LET r == cache'[i].sink
           IN  /\ cache'[i].used <=> sinks'[r].users = 1
               /\ ~sinks'[r].stopped /\ ~sinks'[r].owed /\ r # sink_to_stop'
  <2>1. \A i \in DOMAIN cache : cache[i].sink \in DOMAIN sinks \ {s}
    BY <1>1, SinkFacts DEF CachedSinksUntouched
  <2> QED BY <1>1, <1>3, <2>1, SinkFacts DEF MM!SC!UsedMeansAcquired, CachedSinksUntouched
<1>5. SinksAccounted'
  BY <1>1, <1>2, <1>3, SinkFacts DEF SinksAccounted
<1>6. sink_to_stop' # 0 => sinks'[sink_to_stop'].users = 0
  BY <1>1, <1>2, <1>3, SinkFacts DEF StopsUnused
<1>7. SinkInv'
  BY <1>1, <1>3, <1>4, <1>5, <1>6, SinkFacts, SinkInvNext
<1> QED BY <1>1, <1>3, <1>7

LEMMA ReleaseSinkStep ==
  ASSUME SinkInv, NEW s \in DOMAIN sinks, MM!SC!ReleaseSink(s)
  PROVE  /\ SinkInv' /\ UNCHANGED destroyed
         /\ DOMAIN sinks' = DOMAIN sinks
         /\ \A r \in DOMAIN sinks \ {s} : sinks'[r] = sinks[r]
<1> DEFINE new == [sinks[s] EXCEPT !.users = 0, !.owed = TRUE]
           k == MM!SC!EntryOf(s)
<1>1. /\ cache' = IF k = 0 THEN cache ELSE MM!SC!RemoveAt(cache, k)
      /\ sinks' = [sinks EXCEPT ![s] = new]
      /\ UNCHANGED <<calls, delete_tasks, sink_to_stop, destroyed>>
  <2>1. sinks[s] \in Sink /\ sinks[s].users > 0
    BY SinkFacts DEF MM!SC!ReleaseSink
  <2>2. sinks[s].users - 1 = 0
    BY <2>1 DEF Sink
  <2>3. sinks' = [sinks EXCEPT ![s] = [sinks[s] EXCEPT !.users = sinks[s].users - 1, !.owed = TRUE]]
    BY DEF MM!SC!ReleaseSink
  <2>4. sinks' = [sinks EXCEPT ![s] = new]
    BY <2>2, <2>3
  <2> QED BY <2>4 DEF MM!SC!ReleaseSink
<1>2. new \in Sink /\ new.users = 0 /\ new.owed
  BY SinkFacts DEF Sink
<1> HIDE DEF new
<1>3. /\ sinks' \in Seq(Sink) /\ DOMAIN sinks' = DOMAIN sinks /\ sinks'[s] = new
      /\ \A r \in DOMAIN sinks \ {s} : sinks'[r] = sinks[r]
  BY <1>1, <1>2, SinkChanged, SinkFacts
<1>4. k \in 0 .. Len(cache) /\ (k # 0 => cache[k].sink = s) /\ DOMAIN cache = 1 .. Len(cache)
      /\ Len(cache) \in Nat /\ (k = 0 => \A j \in DOMAIN cache : cache[j].sink # s)
  BY SinkFacts, EntryFound, SinkTypes
<1> HIDE DEF k
<1>5. /\ cache' \in Seq(CacheEntry)
      /\ \A i \in DOMAIN cache' : \E j \in DOMAIN cache : cache'[i] = cache[j]
      /\ \A j \in DOMAIN cache : cache[j].sink # s => \E i \in DOMAIN cache' : cache'[i] = cache[j]
      /\ \A i, j \in DOMAIN cache' : cache'[i].sink = cache'[j].sink => i = j
      /\ \A i \in DOMAIN cache' : cache'[i].sink # s
  <2>1. CASE k = 0
    BY <1>1, <1>4, <2>1, SinkFacts DEF MM!SC!UsedMeansAcquired
  <2>2. CASE k # 0
    <3>1. k \in DOMAIN cache /\ cache[k].sink = s /\ cache' = MM!SC!RemoveAt(cache, k)
      BY <1>1, <1>4, <2>2
    <3>2. /\ cache' \in Seq(CacheEntry)
          /\ \A i \in DOMAIN cache' : \E j \in DOMAIN cache \ {k} : cache'[i] = cache[j]
          /\ \A j \in DOMAIN cache \ {k} : \E i \in DOMAIN cache' : cache'[i] = cache[j]
          /\ \A i, j \in DOMAIN cache' : cache'[i].sink = cache'[j].sink => i = j
          /\ \A i \in DOMAIN cache' : cache'[i].sink # s
      BY <3>1, SinkFacts, EntryRemoved
    <3> QED BY <3>1, <3>2
  <2> QED BY <2>1, <2>2
<1>6. \A i \in DOMAIN cache' :
        LET r == cache'[i].sink
        IN  /\ cache'[i].used <=> sinks'[r].users = 1
            /\ ~sinks'[r].stopped /\ ~sinks'[r].owed /\ r # sink_to_stop'
  <2> TAKE i \in DOMAIN cache'
  <2>1. PICK j \in DOMAIN cache : cache'[i] = cache[j]
    BY <1>5
  <2>2. cache[j].sink \in DOMAIN sinks \ {s}
    BY <1>5, <2>1, SinkFacts
  <2> QED BY <1>1, <1>3, <2>1, <2>2, SinkFacts
          DEF MM!SC!UsedMeansAcquired, CachedSinksUntouched
<1>7. SinksAccounted'
  BY <1>1, <1>2, <1>3, <1>5, SinkFacts DEF SinksAccounted
<1>8. sink_to_stop' # 0 => sinks'[sink_to_stop'].users = 0
  BY <1>1, <1>2, <1>3, SinkFacts DEF StopsUnused
<1>9. SinkInv'
  BY <1>1, <1>3, <1>5, <1>6, <1>7, <1>8, SinkFacts, SinkInvNext
<1> QED BY <1>1, <1>3, <1>9

\* GetSink hands out a sink that nobody has and nobody is about to stop.
LEMMA GetSinkStep ==
  ASSUME SinkInv, NEW key0 \in MM!SC!Key, NEW s, MM!SC!GetSink(key0, s)
  PROVE  /\ SinkInv' /\ UNCHANGED destroyed
         /\ DOMAIN sinks \subseteq DOMAIN sinks' /\ s \in DOMAIN sinks'
         /\ Runs(s)' /\ (s \in DOMAIN sinks => sinks[s].users = 0)
         /\ \A r \in DOMAIN sinks \ {s} : sinks'[r] = sinks[r]
<1> DEFINE i == MM!SC!FindCacheEntry(key0, TRUE)
<1>1. UNCHANGED <<calls, delete_tasks, sink_to_stop, destroyed>>
  BY DEF MM!SC!GetSink
<1>2. /\ i \in 0 .. Len(cache)
      /\ i # 0 => ~cache[i].used
      /\ DOMAIN cache = 1 .. Len(cache) /\ Len(cache) \in Nat
  BY SinkFacts, MatchFound, SinkTypes DEF MM!SC!Matches
<1>3. \/ /\ i # 0 /\ s = cache[i].sink
         /\ cache' = [cache EXCEPT ![i].used = TRUE]
         /\ sinks' = [sinks EXCEPT ![s].users = @ + 1]
      \/ /\ i = 0 /\ s = MM!SC!NewSink
         /\ \E sink \in MM!SC!Created(1) :
              /\ sinks' = Append(sinks, sink)
              /\ cache' = IF sink.healthy THEN Append(cache, MM!SC!Entry(s, key0, TRUE))
                                          ELSE cache
  BY DEF MM!SC!GetSink
<1> HIDE DEF i
<1>4. CASE /\ i # 0 /\ s = cache[i].sink
           /\ cache' = [cache EXCEPT ![i].used = TRUE]
           /\ sinks' = [sinks EXCEPT ![s].users = @ + 1]
  <2> DEFINE new == [sinks[s] EXCEPT !.users = 1]
             e == [cache[i] EXCEPT !.used = TRUE]
  <2>1. i \in DOMAIN cache /\ s \in DOMAIN sinks /\ sinks[s] \in Sink /\ sinks[s].users # 1
        /\ ~sinks[s].stopped /\ ~sinks[s].owed /\ s # sink_to_stop
    <3>1. i \in DOMAIN cache
      BY <1>2, <1>4
    <3> QED BY <1>2, <1>4, <3>1, SinkFacts DEF MM!SC!UsedMeansAcquired, CachedSinksUntouched
  <2>2. sinks[s].users = 0
    BY <2>1 DEF Sink
  <2>3. sinks' = [sinks EXCEPT ![s] = new]
    <3>1. sinks[s].users + 1 = 1
      BY <2>2
    <3>2. sinks' = [sinks EXCEPT ![s] = [sinks[s] EXCEPT !.users = sinks[s].users + 1]]
      BY <1>4
    <3> QED BY <3>1, <3>2
  <2>4. new \in Sink /\ new.users = 1 /\ ~new.owed /\ ~new.stopped
    BY <2>1 DEF Sink
  <2>5. /\ e \in CacheEntry /\ e.sink = s /\ e.used
        /\ cache' = [cache EXCEPT ![i] = e]
    BY <1>4, <2>1, SinkFacts DEF CacheEntry
  <2> HIDE DEF new, e
  <2>6. /\ sinks' \in Seq(Sink) /\ DOMAIN sinks' = DOMAIN sinks /\ sinks'[s] = new
        /\ \A r \in DOMAIN sinks \ {s} : sinks'[r] = sinks[r]
    BY <2>1, <2>3, <2>4, SinkChanged, SinkFacts
  <2>7. /\ cache' \in Seq(CacheEntry) /\ DOMAIN cache' = DOMAIN cache
        /\ cache'[i] = e /\ \A j \in DOMAIN cache \ {i} : cache'[j] = cache[j]
    <3> HIDE DEF CacheEntry
    <3> QED BY <1>2, <2>1, <2>5, SinkFacts, ExceptSeq
  <2>8. \A j \in DOMAIN cache : cache'[j].sink = cache[j].sink
    BY <1>4, <2>5, <2>7
  <2>9. \A a, b \in DOMAIN cache' : cache'[a].sink = cache'[b].sink => a = b
    BY <2>7, <2>8, SinkFacts DEF MM!SC!UsedMeansAcquired
  <2>10. \A j \in DOMAIN cache' :
           LET r == cache'[j].sink
           IN  /\ cache'[j].used <=> sinks'[r].users = 1
               /\ ~sinks'[r].stopped /\ ~sinks'[r].owed /\ r # sink_to_stop'
    <3> TAKE j \in DOMAIN cache'
    <3>1. CASE j = i
      BY <1>1, <2>1, <2>4, <2>5, <2>6, <2>7, <3>1
    <3>2. CASE j # i
      <4>1. j \in DOMAIN cache /\ cache'[j] = cache[j] /\ cache[j].sink \in DOMAIN sinks \ {s}
        BY <1>4, <2>1, <2>7, <3>2, SinkFacts DEF MM!SC!UsedMeansAcquired
      <4> QED BY <1>1, <2>6, <4>1, SinkFacts DEF MM!SC!UsedMeansAcquired, CachedSinksUntouched
    <3> QED BY <3>1, <3>2
  <2>11. SinksAccounted'
    <3> SUFFICES ASSUME NEW r \in DOMAIN sinks
                 PROVE  \/ \E j \in DOMAIN cache' : cache'[j].sink = r
                        \/ sink_to_stop' = r
                        \/ sinks'[r].users # 0 \/ sinks'[r].owed
                        \/ ~sinks'[r].healthy \/ sinks'[r].stopped
      BY <2>6 DEF SinksAccounted
    <3>1. CASE r = s
      BY <2>4, <2>6, <3>1
    <3>2. CASE r # s
      <4>1. sinks'[r] = sinks[r]
        BY <2>6, <3>2
      <4>2. (\E j \in DOMAIN cache : cache[j].sink = r) => \E j \in DOMAIN cache' : cache'[j].sink = r
        BY <2>7, <2>8
      <4> QED BY <1>1, <4>1, <4>2, SinkFacts DEF SinksAccounted
    <3> QED BY <3>1, <3>2
  <2>12. sink_to_stop' # 0 => sinks'[sink_to_stop'].users = 0
    BY <1>1, <2>1, <2>6, SinkFacts DEF StopsUnused
  <2>13. SinkInv'
    BY <1>1, <2>6, <2>7, <2>9, <2>10, <2>11, <2>12, SinkFacts, SinkInvNext
  <2> QED BY <1>1, <2>1, <2>2, <2>4, <2>6, <2>13 DEF Runs
<1>5. ASSUME s = MM!SC!NewSink, NEW sink \in MM!SC!Created(1),
             sinks' = Append(sinks, sink),
             cache' = IF sink.healthy THEN Append(cache, MM!SC!Entry(s, key0, TRUE))
                                      ELSE cache
      PROVE  /\ SinkInv' /\ DOMAIN sinks \subseteq DOMAIN sinks' /\ s \in DOMAIN sinks'
             /\ Runs(s)' /\ s \notin DOMAIN sinks
             /\ \A r \in DOMAIN sinks : sinks'[r] = sinks[r]
  <2>1. /\ sinks' \in Seq(Sink) /\ s \in Nat \ {0} /\ s \notin DOMAIN sinks
        /\ DOMAIN sinks' = DOMAIN sinks \cup {s}
        /\ \A r \in DOMAIN sinks : sinks'[r] = sinks[r]
        /\ sinks'[s] = sink
        /\ sink.users = 1 /\ ~sink.owed /\ ~sink.stopped
    BY <1>5, SinkAdded, SinkFacts
  <2>2. /\ cache' \in Seq(CacheEntry) \/ cache' \in Seq(CacheEntry')
        /\ \A a, b \in DOMAIN cache' : cache'[a].sink = cache'[b].sink => a = b
        /\ \A j \in DOMAIN cache' :
             \/ j \in DOMAIN cache /\ cache'[j] = cache[j]
             \/ cache'[j].sink = s /\ cache'[j].used = TRUE
        /\ \A j \in DOMAIN cache : j \in DOMAIN cache' /\ cache'[j] = cache[j]
    <3> DEFINE e == MM!SC!Entry(s, key0, TRUE)
    <3>1. e \in CacheEntry' /\ e.sink = s /\ e.used = TRUE
      BY <2>1 DEF CacheEntry, MM!SC!Entry, MM!SC!Key
    <3> HIDE DEF e
    <3>2. CASE sink.healthy
      <4>1. cache' = Append(cache, e)
        BY <1>5, <3>2 DEF e
      <4>2. /\ DOMAIN cache' = DOMAIN cache \cup {Len(cache) + 1}
            /\ Len(cache) + 1 \notin DOMAIN cache
            /\ \A j \in DOMAIN cache : cache'[j] = cache[j]
            /\ cache'[Len(cache) + 1] = e
            /\ cache' \in Seq(CacheEntry')
        BY <2>1, <3>1, <4>1, EntryAdded, SinkFacts
      <4> QED BY <2>1, <3>1, <4>2, SinkFacts DEF MM!SC!UsedMeansAcquired
    <3>3. CASE ~sink.healthy
      BY <1>5, <3>3, SinkFacts DEF MM!SC!UsedMeansAcquired
    <3> QED BY <3>2, <3>3
  <2>3. \A j \in DOMAIN cache' :
          LET r == cache'[j].sink
          IN  /\ cache'[j].used <=> sinks'[r].users = 1
              /\ ~sinks'[r].stopped /\ ~sinks'[r].owed /\ r # sink_to_stop'
    <3> TAKE j \in DOMAIN cache'
    <3>1. CASE j \in DOMAIN cache /\ cache'[j] = cache[j]
      BY <1>1, <2>1, <3>1, SinkFacts DEF MM!SC!UsedMeansAcquired, CachedSinksUntouched
    <3>2. CASE cache'[j].sink = s /\ cache'[j].used = TRUE
      <4>1. s # sink_to_stop
        BY <2>1, SinkFacts
      <4> QED BY <1>1, <2>1, <3>2, <4>1
    <3> QED BY <2>2, <3>1, <3>2
  <2>4. SinksAccounted'
    BY <1>1, <2>1, <2>2, SinkFacts DEF SinksAccounted
  <2>5. sink_to_stop' # 0 => sinks'[sink_to_stop'].users = 0
    BY <1>1, <2>1, SinkFacts DEF StopsUnused
  <2>6. SinkInv'
    BY <1>1, <2>1, <2>2, <2>3, <2>4, <2>5, SinkFacts, SinkInvNext
  <2> QED BY <2>1, <2>6 DEF Runs
<1> QED BY <1>1, <1>3, <1>4, <1>5

LEMMA DestroyStep ==
  ASSUME SinkInv, MM!SC!Destroy
  PROVE  SinkInv' /\ destroyed' /\ DOMAIN sinks' = DOMAIN sinks
<1> DEFINE C == {cache[i].sink : i \in DOMAIN cache}
<1>1. /\ sink_to_stop = 0 /\ destroyed' = TRUE
      /\ sinks' = [s \in DOMAIN sinks |-> [sinks[s] EXCEPT !.stopped = sinks[s].stopped \/ s \in C]]
      /\ cache' = << >> /\ delete_tasks' = {} /\ UNCHANGED <<calls, sink_to_stop>>
  BY DEF MM!SC!Destroy, MM!SC!SinkIds
<1>2. \A s \in DOMAIN sinks :
        /\ sinks'[s] \in Sink
        /\ sinks'[s].users = sinks[s].users
        /\ sinks'[s].owed = sinks[s].owed /\ sinks'[s].healthy = sinks[s].healthy
        /\ sinks[s].stopped \/ s \in C => sinks'[s].stopped
  BY <1>1, SinkFacts DEF Sink
<1>3. DOMAIN sinks' = DOMAIN sinks
  BY <1>1
<1>4. sinks' \in Seq(Sink)
  <2> HIDE DEF Sink
  <2>1. sinks' \in [1 .. Len(sinks) -> Sink] /\ Len(sinks) \in Nat
    <3>1. DOMAIN sinks = 1 .. Len(sinks) /\ Len(sinks) \in Nat
      BY SinkFacts
    <3>2. sinks' = [s \in DOMAIN sinks |-> sinks'[s]]
      BY <1>1
    <3> QED BY <1>2, <3>1, <3>2
  <2> QED BY <2>1, SeqDef
<1>5. cache' \in Seq(CacheEntry) /\ DOMAIN cache' = {}
  BY <1>1
<1>6. SinksAccounted'
  <2> SUFFICES ASSUME NEW r \in DOMAIN sinks
               PROVE  \/ sinks'[r].users # 0 \/ sinks'[r].owed
                      \/ ~sinks'[r].healthy \/ sinks'[r].stopped
    BY <1>3 DEF SinksAccounted
  <2>1. r # sink_to_stop
    BY <1>1, SinkFacts
  <2>2. (\E j \in DOMAIN cache : cache[j].sink = r) => r \in C
    OBVIOUS
  <2> HIDE DEF C
  <2> QED BY <1>2, <2>1, <2>2, SinkFacts DEF SinksAccounted
<1>7. SinkInv'
  BY <1>1, <1>3, <1>4, <1>5, <1>6, SinkFacts, SinkInvNext
<1> QED BY <1>1, <1>3, <1>7
-----------------------------------------------------------------------------
(* The mixers *)

Holders(f, s) == {p \in Providers : f[p] = s}

LEMMA HoldersFinite == \A f, s : IsFiniteSet(Holders(f, s)) /\ Cardinality(Holders(f, s)) \in Nat
<1> TAKE f, s
<1>1. Holders(f, s) \in SUBSET Providers
  BY DEF Holders
<1>2. IsFiniteSet(Holders(f, s))
  BY <1>1, ProviderAssumption, FS_Subset
<1> QED BY <1>2, FS_CardinalityType

LEMMA SameCardinality == \A S : MM!Cardinality(S) = Cardinality(S)
BY Zenon DEF MM!Cardinality, Cardinality

LEMMA RefCountsHolders ==
  RefCountsInputs <=>
    /\ \A k \in DOMAIN mixers :
         /\ mixers[k].ref_count = Cardinality(Holders(input, mixers[k].mixer))
         /\ mixers[k].ref_count = 0 => lock = MM!Deleting(k)
    /\ \A p \in Providers : input[p] # 0 => \E k \in DOMAIN mixers : mixers[k].mixer = input[p]
<1>1. \A k \in DOMAIN mixers :
        {i \in Providers : input[i] = mixers[k].mixer} = Holders(input, mixers[k].mixer)
  BY DEF Holders
<1>2. \A k \in DOMAIN mixers :
        MM!Cardinality({i \in Providers : input[i] = mixers[k].mixer})
          = Cardinality(Holders(input, mixers[k].mixer))
  BY <1>1, SameCardinality, Zenon
<1> HIDE DEF Holders
<1> QED BY <1>2 DEF RefCountsInputs, MM!RefCountsInputs

\* What is under the lock is told by lock.pc.
LEMMA LockFacts ==
  ASSUME ManagerInv
  PROVE  /\ lock.pc \in {"free", "got sink", "refused", "deleting"}
         /\ lock = MM!Free <=> lock.pc = "free"
         /\ lock.pc = "got sink" =>
              /\ lock.input \in Providers /\ provider[lock.input] = "starting"
              /\ lock.key \in MM!MixerKey /\ lock.key \notin DOMAIN mixers
              /\ lock.sink \in DOMAIN sinks
         /\ lock.pc = "refused" => lock.sink \in DOMAIN sinks
         /\ lock.pc = "deleting" =>
              /\ lock = MM!Deleting(lock.key)
              /\ lock.key \in DOMAIN mixers /\ mixers[lock.key].ref_count = 0
         /\ \A k : lock = MM!Deleting(k) => lock.pc = "deleting" /\ lock.key = k
<1> USE DEF MM!Free, MM!GotSink, MM!Refused, MM!Deleting
<1>1. CASE lock = MM!Free
  BY <1>1
<1>2. ASSUME NEW p \in Providers, NEW k \in MM!MixerKey, NEW s \in DOMAIN sinks,
             lock = MM!GotSink(p, k, s), k \notin DOMAIN mixers, provider[p] = "starting"
      PROVE  /\ lock.pc = "got sink" /\ lock.input = p /\ lock.key = k /\ lock.sink = s
             /\ lock # MM!Free /\ \A l : lock # MM!Deleting(l)
  BY <1>2
<1>3. ASSUME NEW s \in DOMAIN sinks, lock = MM!Refused(s)
      PROVE  /\ lock.pc = "refused" /\ lock.sink = s
             /\ lock # MM!Free /\ \A l : lock # MM!Deleting(l)
  BY <1>3
<1>4. ASSUME NEW k \in DOMAIN mixers, lock = MM!Deleting(k), mixers[k].ref_count = 0
      PROVE  /\ lock.pc = "deleting" /\ lock.key = k /\ lock # MM!Free
             /\ \A l : lock = MM!Deleting(l) => l = k
  BY <1>4
<1>5. LockInv
  BY DEF ManagerInv
<1> QED BY <1>1, <1>2, <1>3, <1>4, <1>5 DEF LockInv

LEMMA ManagerFacts ==
  ASSUME ManagerInv
  PROVE  /\ \A k \in DOMAIN mixers :
              /\ k \in MM!MixerKey
              /\ mixers[k] \in [mixer : DOMAIN sinks, ref_count : Nat]
              /\ mixers[k].mixer \in DOMAIN sinks /\ mixers[k].ref_count \in Nat
              /\ mixers[k].ref_count = Cardinality(Holders(input, mixers[k].mixer))
              /\ mixers[k].ref_count = 0 => lock = MM!Deleting(k)
         /\ \A p \in Providers :
              /\ input[p] \in DOMAIN sinks \cup {0}
              /\ input[p] # 0 => \E k \in DOMAIN mixers : mixers[k].mixer = input[p]
         /\ input \in [Providers -> DOMAIN sinks \cup {0}]
BY RefCountsHolders DEF ManagerInv, MapTypeOK

\* The manager does not mind what the cache does, as long as sinks that run go on
\* running.
LEMMA ManagerFrame ==
  ASSUME ManagerInv, DOMAIN sinks \subseteq DOMAIN sinks', UNCHANGED manager_vars,
         \A p \in Providers : provider[p] = "starting" => provider'[p] = "starting",
         destroyed \in BOOLEAN,
         destroyed' \/ (~destroyed /\ \A s \in DOMAIN sinks : Runs(s) => Runs(s)')
  PROVE  ManagerInv'
<1> USE DEF manager_vars
<1>1. MapTypeOK'
  <2>1. \A k \in DOMAIN mixers : mixers[k] \in [mixer : DOMAIN sinks', ref_count : Nat]
    BY ManagerFacts
  <2> QED BY <2>1 DEF ManagerInv, MapTypeOK, MM!MixerKey
<1>2. LockInv'
  <2>1. CASE lock = MM!Free
    BY <2>1 DEF LockInv, MM!Free
  <2>2. ASSUME NEW p \in Providers, NEW k \in MM!MixerKey, NEW s \in DOMAIN sinks,
               lock = MM!GotSink(p, k, s), k \notin DOMAIN mixers, provider[p] = "starting"
        PROVE  LockInv'
    BY <2>2 DEF LockInv, MM!GotSink, MM!MixerKey
  <2>3. ASSUME NEW s \in DOMAIN sinks, lock = MM!Refused(s)
        PROVE  LockInv'
    BY <2>3 DEF LockInv, MM!Refused
  <2>4. ASSUME NEW k \in DOMAIN mixers, lock = MM!Deleting(k), mixers[k].ref_count = 0
        PROVE  LockInv'
    BY <2>4 DEF LockInv, MM!Deleting
  <2> QED BY <2>1, <2>2, <2>3, <2>4 DEF ManagerInv, LockInv
<1>3. MixersRun'
  <2> SUFFICES ASSUME ~destroyed, \A s \in DOMAIN sinks : Runs(s) => Runs(s)' PROVE MixersRun'
    BY DEF MixersRun
  <2>1. /\ \A k \in DOMAIN mixers : lock # MM!Deleting(k) => Runs(mixers[k].mixer)
        /\ lock.pc = "got sink" =>
             Runs(lock.sink) /\ \A k \in DOMAIN mixers : mixers[k].mixer # lock.sink
    BY DEF ManagerInv, MixersRun
  <2>2. \A k \in DOMAIN mixers : mixers[k].mixer \in DOMAIN sinks
    BY ManagerFacts
  <2>3. lock.pc = "got sink" => lock.sink \in DOMAIN sinks
    BY LockFacts
  <2> QED BY <2>1, <2>2, <2>3 DEF MixersRun, MM!Deleting, Runs
<1>4. MixersDistinct' /\ RefCountsInputs'
  BY DEF ManagerInv, MixersDistinct, RefCountsInputs, MM!RefCountsInputs, MM!Deleting
<1> QED BY <1>1, <1>2, <1>3, <1>4 DEF ManagerInv

\* A provider whose renderer has not started it has no mixer and asks for none.
LEMMA ProviderMoves ==
  ASSUME ProviderInv, NEW p \in Providers, UNCHANGED <<input, lock, key>>,
         NEW to \in {"new", "asking", "initializing", "initialized", "failed"},
         provider[p] # "started" \/ null_sink[p], provider[p] # "starting",
         provider' = [provider EXCEPT ![p] = to],
         NEW null \in BOOLEAN, null_sink' = [null_sink EXCEPT ![p] = null]
  PROVE  ProviderInv'
<1>1. /\ key' \in Keys
      /\ provider' \in [Providers -> {"new", "asking", "initializing", "initialized",
                                "starting", "started", "failed"}]
      /\ null_sink' \in [Providers -> BOOLEAN]
  BY DEF ProviderInv
<1>2. \A q \in Providers \ {p} : provider'[q] = provider[q] /\ null_sink'[q] = null_sink[q]
  BY DEF ProviderInv
<1>3. provider'[p] = to
  BY DEF ProviderInv
<1>4. MixerWhileStarted'
  BY <1>2, <1>3 DEF ProviderInv, MixerWhileStarted
<1>5. StartingUnderLock'
  BY <1>2, <1>3 DEF ProviderInv, StartingUnderLock
<1> QED BY <1>1, <1>4, <1>5 DEF ProviderInv

\* Nothing about the providers changes.
LEMMA ProviderFrame ==
  ASSUME ProviderInv, UNCHANGED <<input, lock, provider_vars>>
  PROVE  ProviderInv'
BY DEF ProviderInv, MixerWhileStarted, StartingUnderLock, provider_vars

LEMMA KeyTypes ==
  ASSUME ProviderInv, NEW p \in Providers
  PROVE  key[p] \in MM!MixerKey /\ CacheKey(p) \in MM!SC!Key
<1>1. key[p] \in [frame : Frames, params : Params, device : Devices, origin : Origins]
  BY ProviderAssumption DEF ProviderInv
<1> QED BY <1>1 DEF MM!MixerKey, MM!SC!Key, CacheKey, MM!SinkKey
-----------------------------------------------------------------------------
(* The steps of the providers *)

\* A provider moves, and the cache with it, but neither the mixers nor the lock.
LEMMA CacheOnlyStep ==
  ASSUME IInv, ~destroyed, SinkInv', UNCHANGED <<manager_vars, key>>,
         DOMAIN sinks \subseteq DOMAIN sinks',
         destroyed' \/ \A s \in DOMAIN sinks : Runs(s) => Runs(s)',
         NEW p \in Providers,
         NEW from \in {"new", "asking", "initializing", "initialized", "failed"}, provider[p] = from,
         NEW to \in {"new", "asking", "initializing", "initialized", "failed"},
         provider' = [provider EXCEPT ![p] = to],
         NEW null \in BOOLEAN, null_sink' = [null_sink EXCEPT ![p] = null]
  PROVE  IInv'
<1>1. ProviderInv'
  <2>1. UNCHANGED <<input, lock, key>> /\ provider[p] # "started" /\ provider[p] # "starting"
    BY DEF manager_vars
  <2> QED BY <2>1, ProviderMoves DEF IInv
<1>2. ManagerInv'
  <2>1. \A q \in Providers : provider[q] = "starting" => provider'[q] = "starting"
    BY DEF IInv, ProviderInv
  <2>2. destroyed \in BOOLEAN
    BY SinkFacts DEF IInv
  <2> QED BY <2>1, <2>2, ManagerFrame DEF IInv
<1> QED BY <1>1, <1>2 DEF IInv

LEMMA InitializeStep ==
  ASSUME IInv, ~destroyed, NEW p \in Providers, InitializeCall(p)
  PROVE  IInv'
<1>1. SinkInv /\ CacheKey(p) \in MM!SC!Key /\ null_sink[p] \in BOOLEAN
      /\ null_sink = [null_sink EXCEPT ![p] = null_sink[p]]
  BY KeyTypes DEF IInv, ProviderInv
<1>2. CASE InitializeKnown(p)
  <2>1. /\ provider[p] = "new" /\ provider' = [provider EXCEPT ![p] = "initialized"]
        /\ UNCHANGED <<cache_vars, manager_vars, key, null_sink>>
    BY <1>2 DEF InitializeKnown, At
  <2>2. UNCHANGED <<cache, sinks, calls, delete_tasks, sink_to_stop, destroyed>>
    BY <2>1 DEF cache_vars
  <2>3. SinkInv'
    BY <1>1, <2>2, SinkFrame
  <2>4. \A s \in DOMAIN sinks : Runs(s) => Runs(s)'
    BY <2>2 DEF Runs
  <2> QED BY <1>1, <2>1, <2>2, <2>3, <2>4, CacheOnlyStep
<1>3. CASE AskDevice(p) \/ GetOutputDeviceInfo(p)
  <2>1. /\ provider[p] = "new" /\ \E to \in {"initializing", "asking"} :
                                     provider' = [provider EXCEPT ![p] = to]
        /\ MM!SC!GetSinkInfo(p, CacheKey(p))
        /\ UNCHANGED <<manager_vars, key, null_sink>>
    BY <1>3 DEF AskDevice, GetOutputDeviceInfo, At
  <2>2. SinkInv' /\ UNCHANGED <<sinks, destroyed>>
    BY <1>1, <2>1, GetSinkInfoStep
  <2>3. \A s \in DOMAIN sinks : Runs(s) => Runs(s)'
    BY <2>2 DEF Runs
  <2> QED BY <1>1, <2>1, <2>2, <2>3, CacheOnlyStep
<1>4. CASE DeviceNotOk(p)
  <2>1. /\ MM!SC!CacheUnusedSinkIfHealthy(p)
        /\ \E from \in {"initializing", "asking"}, to \in {"initialized", "new"}, null \in BOOLEAN :
             /\ provider[p] = from /\ provider' = [provider EXCEPT ![p] = to]
             /\ null_sink' = [null_sink EXCEPT ![p] = null]
        /\ UNCHANGED <<manager_vars, key>>
    BY <1>1, <1>4 DEF DeviceNotOk, At
  <2>2. /\ SinkInv' /\ UNCHANGED destroyed /\ DOMAIN sinks \subseteq DOMAIN sinks'
        /\ \A s \in DOMAIN sinks : sinks'[s] = sinks[s]
    BY <1>1, <2>1, CacheUnusedStep
  <2>3. \A s \in DOMAIN sinks : Runs(s) => Runs(s)'
    BY <2>2 DEF Runs
  <2> QED BY <2>1, <2>2, <2>3, CacheOnlyStep
<1>5. CASE DeviceAsked(p)
  <2>1. /\ MM!SC!DeleteLaterIfUnused(p)
        /\ \E from \in {"initializing", "asking"}, to \in {"initialized", "new"} :
             provider[p] = from /\ provider' = [provider EXCEPT ![p] = to]
        /\ UNCHANGED <<manager_vars, key, null_sink>>
    BY <1>5 DEF DeviceAsked, At
  <2>2. SinkInv' /\ UNCHANGED <<sinks, destroyed>>
    BY <1>1, <2>1, DeleteLaterStep
  <2>3. \A s \in DOMAIN sinks : Runs(s) => Runs(s)'
    BY <2>2 DEF Runs
  <2> QED BY <1>1, <2>1, <2>2, <2>3, CacheOnlyStep
<1>6. CASE DeviceOk(p)
  <2>1. MM!SC!CacheUnusedSinkIfHealthy(p) /\ UNCHANGED <<manager_vars, provider_vars>>
    BY <1>6 DEF DeviceOk
  <2>2. /\ SinkInv' /\ UNCHANGED destroyed /\ DOMAIN sinks \subseteq DOMAIN sinks'
        /\ \A s \in DOMAIN sinks : sinks'[s] = sinks[s]
    BY <1>1, <2>1, CacheUnusedStep
  <2>3. ManagerInv'
    <3>1. \A s \in DOMAIN sinks : Runs(s) => Runs(s)'
      BY <2>2 DEF Runs
    <3>2. destroyed \in BOOLEAN
      BY <1>1, SinkFacts
    <3> QED BY <2>1, <2>2, <3>1, <3>2, ManagerFrame DEF IInv, provider_vars
  <2>4. ProviderInv'
    BY <2>1, ProviderFrame DEF IInv, manager_vars
  <2> QED BY <2>2, <2>3, <2>4 DEF IInv
<1> QED BY <1>2, <1>3, <1>4, <1>5, <1>6 DEF InitializeCall

LEMMA StartNullSinkStep ==
  ASSUME IInv, ~destroyed, NEW p \in Providers, StartNullSink(p)
  PROVE  IInv'
<1>1. /\ provider[p] = "initialized" /\ provider' = [provider EXCEPT ![p] = "started"]
      /\ null_sink[p] /\ UNCHANGED <<cache_vars, manager_vars, key, null_sink>>
  BY DEF StartNullSink, At
<1>2. UNCHANGED <<cache, sinks, calls, delete_tasks, sink_to_stop, destroyed>>
      /\ UNCHANGED <<input, lock, key, null_sink>>
  BY <1>1 DEF cache_vars, manager_vars
<1>3. SinkInv'
  BY <1>2, SinkFrame DEF IInv
<1>4. ManagerInv'
  <2>1. \A s \in DOMAIN sinks : Runs(s) => Runs(s)'
    BY <1>2 DEF Runs
  <2>2. \A q \in Providers : provider[q] = "starting" => provider'[q] = "starting"
    BY <1>1 DEF IInv, ProviderInv
  <2>3. destroyed \in BOOLEAN
    BY SinkFacts DEF IInv
  <2> QED BY <1>1, <1>2, <2>1, <2>2, <2>3, ManagerFrame DEF IInv
<1>5. ProviderInv'
  BY <1>1, <1>2 DEF IInv, ProviderInv, MixerWhileStarted, StartingUnderLock
<1> QED BY <1>3, <1>4, <1>5 DEF IInv

\* RefCountsInputs after a step, from what it says of holders.
LEMMA RefCountsNext ==
  ASSUME \A k \in DOMAIN mixers' :
           /\ mixers'[k].ref_count = Cardinality(Holders(input', mixers'[k].mixer))
           /\ mixers'[k].ref_count = 0 => lock' = MM!Deleting(k),
         \A p \in Providers : input'[p] # 0 => \E k \in DOMAIN mixers' : mixers'[k].mixer = input'[p]
  PROVE  RefCountsInputs'
<1>1. (RefCountsInputs <=>
         /\ \A k \in DOMAIN mixers :
              /\ mixers[k].ref_count = Cardinality(Holders(input, mixers[k].mixer))
              /\ mixers[k].ref_count = 0 => lock = MM!Deleting(k)
         /\ \A p \in Providers : input[p] # 0 => \E k \in DOMAIN mixers : mixers[k].mixer = input[p])'
  BY RefCountsHolders, PTL
<1> QED BY <1>1 DEF MM!Deleting

LEMMA ReuseMixerStep ==
  ASSUME IInv, ~destroyed, NEW p \in Providers, StartWithMixer(p)
  PROVE  IInv'
<1> USE DEF MM!Free
<1>1. /\ provider[p] = "initialized" /\ provider' = [provider EXCEPT ![p] = "started"]
      /\ ~null_sink[p] /\ lock = MM!Free /\ input[p] = 0
      /\ UNCHANGED <<cache, sinks, calls, delete_tasks, sink_to_stop, destroyed>>
      /\ UNCHANGED <<root, lock, key, null_sink>>
  BY DEF StartWithMixer, At, MM!ReuseMixer, MM!cache_vars
<1>2. PICK k \in DOMAIN mixers :
        /\ mixers' = [mixers EXCEPT ![k].ref_count = @ + 1]
        /\ input' = [input EXCEPT ![p] = mixers[k].mixer]
  BY DEF StartWithMixer, MM!ReuseMixer, MM!Matching
<1> DEFINE s == mixers[k].mixer
<1>3. /\ lock.pc = "free" /\ \A l : lock # MM!Deleting(l)
  BY <1>1, LockFacts DEF IInv
<1>4. /\ s \in DOMAIN sinks /\ s # 0 /\ mixers[k].ref_count \in Nat
      /\ \A l \in DOMAIN mixers : mixers[l].ref_count # 0
      /\ \A l \in DOMAIN mixers : mixers[l].mixer = s => l = k
  <2>1. s \in DOMAIN sinks /\ mixers[k].ref_count \in Nat
    BY ManagerFacts DEF IInv
  <2>2. s # 0
    BY <2>1, SinkFacts DEF IInv
  <2> QED BY <1>3, <2>1, <2>2, ManagerFacts DEF IInv, ManagerInv, MixersDistinct
<1>5. /\ DOMAIN mixers' = DOMAIN mixers
      /\ \A l \in DOMAIN mixers : mixers'[l].mixer = mixers[l].mixer
      /\ mixers'[k].ref_count = mixers[k].ref_count + 1
      /\ \A l \in DOMAIN mixers \ {k} : mixers'[l] = mixers[l]
      /\ mixers'[k] \in [mixer : DOMAIN sinks, ref_count : Nat]
  BY <1>2, <1>4, ManagerFacts DEF IInv
<1>6. /\ input' \in [Providers -> DOMAIN sinks \cup {0}] /\ input'[p] = s
      /\ \A q \in Providers \ {p} : input'[q] = input[q]
  BY <1>2, <1>4, ManagerFacts DEF IInv
<1>7. /\ Holders(input', s) = Holders(input, s) \cup {p} /\ p \notin Holders(input, s)
      /\ \A r : r # s /\ r # 0 => Holders(input', r) = Holders(input, r)
  BY <1>1, <1>4, <1>6 DEF Holders
<1>8. SinkInv'
  BY <1>1, SinkFrame DEF IInv
<1>9. MapTypeOK'
  <2>1. \A l \in DOMAIN mixers' : mixers'[l] \in [mixer : DOMAIN sinks', ref_count : Nat]
    BY <1>1, <1>5, ManagerFacts DEF IInv
  <2> QED BY <1>1, <1>5, <1>6, <2>1 DEF IInv, ManagerInv, MapTypeOK, MM!MixerKey
<1>10. LockInv'
  BY <1>1 DEF LockInv
<1>11. MixersRun' /\ MixersDistinct'
  <2>1. \A l \in DOMAIN mixers : Runs(mixers[l].mixer)
    BY <1>3 DEF IInv, ManagerInv, MixersRun
  <2>2. MixersRun'
    BY <1>1, <1>3, <1>5, <2>1 DEF MixersRun, Runs
  <2> QED BY <1>5, <2>2 DEF IInv, ManagerInv, MixersDistinct
<1>12. RefCountsInputs'
  <2>1. mixers[k].ref_count = Cardinality(Holders(input, s))
    BY ManagerFacts DEF IInv
  <2>2. Cardinality(Holders(input', s)) = Cardinality(Holders(input, s)) + 1
    BY <1>7, HoldersFinite, FS_AddElement
  <2>3. \A l \in DOMAIN mixers' : mixers'[l].ref_count = Cardinality(Holders(input', mixers'[l].mixer))
    <3> TAKE l \in DOMAIN mixers'
    <3>1. CASE l = k
      BY <1>5, <2>1, <2>2, <3>1
    <3>2. CASE l # k
      <4>1. mixers'[l] = mixers[l] /\ mixers[l].mixer # s /\ mixers[l].mixer # 0
        BY <1>4, <1>5, <3>2, SinkFacts, ManagerFacts DEF IInv
      <4>2. Holders(input', mixers'[l].mixer) = Holders(input, mixers[l].mixer)
        BY <1>7, <4>1
      <4> QED BY <1>5, <4>1, <4>2, ManagerFacts DEF IInv
    <3> QED BY <3>1, <3>2
  <2>4. \A l \in DOMAIN mixers' : mixers'[l].ref_count # 0
    BY <1>4, <1>5
  <2>5. \A q \in Providers : input'[q] # 0 => \E l \in DOMAIN mixers' : mixers'[l].mixer = input'[q]
    BY <1>5, <1>6, ManagerFacts DEF IInv
  <2> QED BY <2>3, <2>4, <2>5, RefCountsNext
<1>13. ProviderInv'
  BY <1>1, <1>4, <1>6 DEF IInv, ProviderInv, MixerWhileStarted, StartingUnderLock
<1> QED BY <1>8, <1>9, <1>10, <1>11, <1>12, <1>13 DEF IInv, ManagerInv

\* The key that the map is searched for in vain is not in it.
LEMMA MissedIsNew ==
  ASSUME MapTypeOK, NEW k \in MM!MixerKey, MM!Missed(k)
  PROVE  k \notin DOMAIN mixers
<1> SUFFICES ASSUME k \in DOMAIN mixers PROVE FALSE
  OBVIOUS
<1>1. \A e \in MM!MixerKey :
        /\ {e.frame, e.params, e.device, e.origin} \subseteq Nat
        /\ e.frame \in Nat /\ e.params \in Nat /\ e.device \in Nat /\ e.origin \in Nat
  BY ProviderAssumption DEF MM!MixerKey
<1>2. \A a, b \in MM!MixerKey : ~(MM!Less(a, b) /\ MM!Less(b, a))
  BY <1>1 DEF MM!Less
<1>3. k \in MM!Matching(k)
  BY <1>2 DEF MM!Matching, MM!Equivalent
<1>4. PICK e \in root : MM!Hides(e, k, k)
  BY <1>3 DEF MM!Missed
<1>5. e \in MM!MixerKey
  BY DEF MapTypeOK
<1> QED BY <1>2, <1>4, <1>5 DEF MM!Hides

LEMMA GetSinkForMixerStep ==
  ASSUME IInv, ~destroyed, NEW p \in Providers, StartWithoutMixer(p)
  PROVE  IInv'
<1>1. /\ provider[p] = "initialized" /\ provider' = [provider EXCEPT ![p] = "starting"]
      /\ ~null_sink[p] /\ lock = MM!Free /\ input[p] = 0 /\ MM!Missed(key[p])
      /\ UNCHANGED <<mixers, root, input, key, null_sink>>
  BY DEF StartWithoutMixer, At, MM!GetSinkForMixer
<1>2. PICK s : MM!SC!GetSink(MM!SinkKey(key[p]), s) /\ lock' = MM!GotSink(p, key[p], s)
  BY DEF StartWithoutMixer, MM!GetSinkForMixer
<1>3. key[p] \in MM!MixerKey /\ MM!SinkKey(key[p]) \in MM!SC!Key /\ key[p] \notin DOMAIN mixers
  BY <1>1, KeyTypes, MissedIsNew DEF IInv, ManagerInv, CacheKey
<1>4. /\ SinkInv' /\ UNCHANGED destroyed
      /\ DOMAIN sinks \subseteq DOMAIN sinks' /\ s \in DOMAIN sinks'
      /\ Runs(s)' /\ (s \in DOMAIN sinks => sinks[s].users = 0)
      /\ \A r \in DOMAIN sinks \ {s} : sinks'[r] = sinks[r]
  BY <1>2, <1>3, GetSinkStep DEF IInv
<1>5. /\ lock.pc = "free" /\ \A l : lock # MM!Deleting(l)
      /\ lock'.pc = "got sink" /\ lock'.input = p /\ lock'.key = key[p] /\ lock'.sink = s
      /\ \A l : lock' # MM!Deleting(l)
  <2>1. lock.pc = "free" /\ \A l : lock # MM!Deleting(l)
    BY <1>1, LockFacts DEF IInv
  <2> QED BY <1>2, <2>1 DEF MM!GotSink, MM!Deleting
<1>6. MapTypeOK'
  <2>1. \A l \in DOMAIN mixers : mixers[l] \in [mixer : DOMAIN sinks', ref_count : Nat]
    BY <1>4, ManagerFacts DEF IInv
  <2> QED BY <1>1, <1>4, <2>1 DEF IInv, ManagerInv, MapTypeOK, MM!MixerKey
<1>7. LockInv'
  <2>1. provider'[p] = "starting"
    BY <1>1 DEF IInv, ProviderInv
  <2> QED BY <1>1, <1>2, <1>3, <1>4, <2>1 DEF LockInv, MM!GotSink, MM!MixerKey
<1>8. MixersRun'
  <2>1. \A l \in DOMAIN mixers : Runs(mixers[l].mixer) /\ mixers[l].mixer \in DOMAIN sinks
    BY <1>5, ManagerFacts DEF IInv, ManagerInv, MixersRun
  <2>2. \A l \in DOMAIN mixers : mixers[l].mixer # s /\ sinks'[mixers[l].mixer] = sinks[mixers[l].mixer]
    <3> TAKE l \in DOMAIN mixers
    <3>1. mixers[l].mixer # s
      BY <1>4, <2>1 DEF Runs
    <3> QED BY <1>4, <2>1, <3>1
  <2>3. \A l \in DOMAIN mixers : Runs(mixers[l].mixer)' /\ mixers'[l].mixer # s
    BY <1>1, <2>1, <2>2 DEF Runs
  <2>4. Runs(lock.sink)'
    BY <1>4, <1>5 DEF Runs
  <2> QED BY <1>1, <1>5, <2>3, <2>4 DEF MixersRun
<1>9. MixersDistinct' /\ RefCountsInputs'
  <2>1. MixersDistinct'
    BY <1>1 DEF IInv, ManagerInv, MixersDistinct
  <2>2. \A l \in DOMAIN mixers : mixers[l].ref_count # 0
    BY <1>5, ManagerFacts DEF IInv
  <2>3. RefCountsInputs'
    BY <1>1, <2>2, ManagerFacts, RefCountsNext DEF IInv
  <2> QED BY <2>1, <2>3
<1>10. ProviderInv'
  <2>1. \A q \in Providers \ {p} : provider'[q] = provider[q] /\ provider[q] # "starting"
    BY <1>1, <1>5 DEF IInv, ProviderInv, StartingUnderLock
  <2>2. provider'[p] = "starting"
    BY <1>1 DEF IInv, ProviderInv
  <2>3. StartingUnderLock'
    <3> SUFFICES ASSUME NEW q \in Providers, provider'[q] = "starting"
                 PROVE  /\ ~null_sink'[q]
                        /\ lock'.pc = "got sink" /\ lock'.input = q
                        /\ \A r \in Providers : provider'[r] = "starting" => r = q
      BY DEF StartingUnderLock
    <3>1. q = p
      BY <2>1
    <3>2. ~null_sink'[p] /\ lock'.pc = "got sink" /\ lock'.input = p
      BY <1>1, <1>5
    <3>3. \A r \in Providers : provider'[r] = "starting" => r = p
      BY <2>1
    <3> QED BY <3>1, <3>2, <3>3
  <2>4. MixerWhileStarted'
    BY <1>1, <2>1, <2>2 DEF IInv, ProviderInv, MixerWhileStarted
  <2> QED BY <1>1, <2>3, <2>4 DEF IInv, ProviderInv
<1> QED BY <1>4, <1>6, <1>7, <1>8, <1>9, <1>10 DEF IInv, ManagerInv

LEMMA CreateMixerStep ==
  ASSUME IInv, ~destroyed, NEW p \in Providers, GotMixer(p)
  PROVE  IInv'
<1> DEFINE s == lock.sink
           new == lock.key
<1>1. /\ provider[p] = "starting" /\ provider' = [provider EXCEPT ![p] = "started"]
      /\ lock.pc = "got sink"
      /\ mixers' = [k \in DOMAIN mixers \cup {new} |->
                      IF k = new THEN MM!Mixer(s, 1) ELSE mixers[k]]
      /\ root' \in MM!Grown(new)
      /\ input' = [input EXCEPT ![lock.input] = s]
      /\ lock' = MM!Free
      /\ UNCHANGED <<cache, sinks, calls, delete_tasks, sink_to_stop, destroyed>>
      /\ UNCHANGED <<key, null_sink>>
  BY DEF GotMixer, At, MM!CreateMixer, MM!cache_vars
<1>2. /\ lock.input = p /\ ~null_sink[p] /\ input[p] = 0
      /\ \A q \in Providers \ {p} : provider[q] # "starting"
  BY <1>1, LockFacts DEF IInv, ProviderInv, StartingUnderLock, MixerWhileStarted
<1>3. /\ new \in MM!MixerKey /\ new \notin DOMAIN mixers /\ s \in DOMAIN sinks /\ s # 0
      /\ \A l : lock # MM!Deleting(l)
  <2>1. /\ new \in MM!MixerKey /\ new \notin DOMAIN mixers /\ s \in DOMAIN sinks
        /\ \A l : lock # MM!Deleting(l)
    BY <1>1, LockFacts DEF IInv
  <2> HIDE DEF s
  <2>2. s # 0
    BY <2>1, SinkFacts DEF IInv
  <2> QED BY <2>1, <2>2
<1>4. /\ Runs(s) /\ \A k \in DOMAIN mixers : Runs(mixers[k].mixer) /\ mixers[k].mixer # s
  BY <1>1, <1>3 DEF IInv, ManagerInv, MixersRun
<1> HIDE DEF s, new
<1>5. /\ DOMAIN mixers' = DOMAIN mixers \cup {new}
      /\ mixers'[new].mixer = s /\ mixers'[new].ref_count = 1
      /\ mixers'[new] \in [mixer : DOMAIN sinks, ref_count : Nat]
      /\ \A k \in DOMAIN mixers : mixers'[k] = mixers[k]
  BY <1>1, <1>3 DEF MM!Mixer
<1>6. /\ input' \in [Providers -> DOMAIN sinks \cup {0}] /\ input'[p] = s
      /\ \A q \in Providers \ {p} : input'[q] = input[q]
  BY <1>1, <1>2, <1>3, ManagerFacts DEF IInv
<1>7. Holders(input, s) = {} /\ Holders(input', s) = {p}
      /\ \A r : r # s /\ r # 0 => Holders(input', r) = Holders(input, r)
  <2>1. Holders(input, s) = {}
    BY <1>3, <1>4, ManagerFacts DEF IInv, Holders
  <2> QED BY <1>2, <1>6, <2>1 DEF Holders
<1>8. SinkInv'
  BY <1>1, SinkFrame DEF IInv
<1>9. MapTypeOK'
  <2>1. \A l \in DOMAIN mixers' : mixers'[l] \in [mixer : DOMAIN sinks', ref_count : Nat]
    BY <1>1, <1>5, ManagerFacts DEF IInv
  <2>2. root' \subseteq DOMAIN mixers' /\ root' # {}
    <3>1. root \subseteq DOMAIN mixers
      BY DEF IInv, ManagerInv, MapTypeOK
    <3>2. CASE root' = IF root = {} THEN {new} ELSE root
      BY <1>5, <3>1, <3>2
    <3>3. CASE \E k \in DOMAIN mixers \cup {new} : root' = {k}
      BY <1>5, <3>3
    <3> QED BY <1>1, <3>2, <3>3 DEF MM!Grown
  <2>3. DOMAIN mixers' \subseteq MM!MixerKey /\ DOMAIN mixers' # {}
    BY <1>3, <1>5 DEF IInv, ManagerInv, MapTypeOK
  <2> QED BY <1>1, <1>6, <2>1, <2>2, <2>3 DEF MapTypeOK, MM!MixerKey
<1>10. LockInv'
  BY <1>1 DEF LockInv, MM!Free
<1>11. lock'.pc = "free"
  BY <1>1 DEF MM!Free
<1>12. MixersRun' /\ MixersDistinct'
  <2>1. MixersRun'
    BY <1>1, <1>4, <1>5, <1>11 DEF MixersRun, Runs
  <2> QED BY <1>4, <1>5, <2>1 DEF IInv, ManagerInv, MixersDistinct
<1>13. RefCountsInputs'
  <2>1. \A l \in DOMAIN mixers' :
          /\ mixers'[l].ref_count = Cardinality(Holders(input', mixers'[l].mixer))
          /\ mixers'[l].ref_count # 0
    <3> TAKE l \in DOMAIN mixers'
    <3>1. CASE l = new
      <4>1. Cardinality({p}) = 1
        BY FS_Singleton
      <4>2. Holders(input', mixers'[l].mixer) = {p}
        BY <1>5, <1>7, <3>1
      <4> QED BY <1>5, <3>1, <4>1, <4>2
    <3>2. CASE l # new
      <4>1. l \in DOMAIN mixers /\ mixers'[l] = mixers[l]
            /\ mixers[l].mixer # s /\ mixers[l].mixer # 0
        BY <1>4, <1>5, <3>2, SinkFacts, ManagerFacts DEF IInv
      <4>2. Holders(input', mixers'[l].mixer) = Holders(input, mixers[l].mixer)
        BY <1>7, <4>1
      <4> QED BY <1>3, <4>1, <4>2, ManagerFacts DEF IInv
    <3> QED BY <3>1, <3>2
  <2>2. \A q \in Providers : input'[q] # 0 => \E l \in DOMAIN mixers' : mixers'[l].mixer = input'[q]
    BY <1>5, <1>6, ManagerFacts DEF IInv
  <2> QED BY <2>1, <2>2, RefCountsNext
<1>14. ProviderInv'
  <2>1. \A q \in Providers \ {p} : provider'[q] = provider[q]
    BY <1>1 DEF IInv, ProviderInv
  <2>2. provider'[p] = "started"
    BY <1>1 DEF IInv, ProviderInv
  <2>3. StartingUnderLock'
    BY <1>2, <2>1, <2>2 DEF StartingUnderLock
  <2>4. MixerWhileStarted'
    BY <1>1, <1>2, <1>3, <1>6, <2>1, <2>2 DEF IInv, ProviderInv, MixerWhileStarted
  <2> QED BY <1>1, <2>3, <2>4 DEF IInv, ProviderInv
<1> QED BY <1>8, <1>9, <1>10, <1>12, <1>13, <1>14 DEF IInv, ManagerInv

LEMMA RefuseMixerStep ==
  ASSUME IInv, ~destroyed, GotNoMixer
  PROVE  IInv'
<1> DEFINE s == lock.sink
<1>1. /\ lock.pc = "got sink" /\ MM!SC!ReleaseSink(s) /\ lock' = MM!Refused(s)
      /\ UNCHANGED <<mixers, root, input>> /\ UNCHANGED provider_vars
  BY DEF GotNoMixer, MM!RefuseMixer
<1>2. /\ s \in DOMAIN sinks /\ \A l : lock # MM!Deleting(l)
      /\ \A k \in DOMAIN mixers : Runs(mixers[k].mixer) /\ mixers[k].mixer # s
      /\ \A k \in DOMAIN mixers : mixers[k].mixer \in DOMAIN sinks
  <2>1. s \in DOMAIN sinks /\ \A l : lock # MM!Deleting(l)
    BY <1>1, LockFacts DEF IInv
  <2> QED BY <1>1, <2>1, ManagerFacts DEF IInv, ManagerInv, MixersRun
<1>3. lock'.pc = "refused" /\ \A l : lock' # MM!Deleting(l)
  BY <1>1 DEF MM!Refused, MM!Deleting
<1> HIDE DEF s
<1>4. /\ SinkInv' /\ UNCHANGED destroyed /\ DOMAIN sinks' = DOMAIN sinks
      /\ \A r \in DOMAIN sinks \ {s} : sinks'[r] = sinks[r]
  BY <1>1, <1>2, ReleaseSinkStep DEF IInv
<1>5. MapTypeOK'
  BY <1>1, <1>4 DEF IInv, ManagerInv, MapTypeOK, MM!MixerKey
<1>6. LockInv'
  BY <1>1, <1>2, <1>4 DEF LockInv, MM!Refused
<1>7. MixersRun'
  BY <1>1, <1>2, <1>3, <1>4 DEF MixersRun, Runs
<1>8. MixersDistinct' /\ RefCountsInputs'
  <2>1. MixersDistinct'
    BY <1>1 DEF IInv, ManagerInv, MixersDistinct
  <2>2. \A l \in DOMAIN mixers : mixers[l].ref_count # 0
    BY <1>2, ManagerFacts DEF IInv
  <2>3. RefCountsInputs'
    BY <1>1, <2>2, ManagerFacts, RefCountsNext DEF IInv
  <2> QED BY <2>1, <2>3
<1>9. ProviderInv'
  <2>1. UNCHANGED <<key, provider, null_sink>>
    BY <1>1 DEF provider_vars
  <2>2. StartingUnderLock'
    BY <1>3, <2>1 DEF IInv, ProviderInv, StartingUnderLock
  <2>3. MixerWhileStarted'
    BY <1>1, <2>1 DEF IInv, ProviderInv, MixerWhileStarted
  <2> QED BY <2>1, <2>2, <2>3 DEF IInv, ProviderInv
<1> QED BY <1>4, <1>5, <1>6, <1>7, <1>8, <1>9 DEF IInv, ManagerInv

LEMMA StopRefusedStep ==
  ASSUME IInv, ~destroyed, NEW p \in Providers, StartFailed(p)
  PROVE  IInv'
<1> DEFINE s == lock.sink
<1>1. /\ provider[p] = "starting" /\ provider' = [provider EXCEPT ![p] = "failed"]
      /\ lock.pc = "refused" /\ MM!SC!StopReleased(s) /\ lock' = MM!Free
      /\ UNCHANGED <<mixers, root, input>> /\ UNCHANGED <<key, null_sink>>
  BY DEF StartFailed, At, MM!StopRefused
<1>2. /\ s \in DOMAIN sinks /\ \A l : lock # MM!Deleting(l)
      /\ \A k \in DOMAIN mixers : Runs(mixers[k].mixer)
      /\ \A k \in DOMAIN mixers : mixers[k].mixer \in DOMAIN sinks
  <2>1. s \in DOMAIN sinks /\ \A l : lock # MM!Deleting(l)
    BY <1>1, LockFacts DEF IInv
  <2> QED BY <1>1, <2>1, ManagerFacts DEF IInv, ManagerInv, MixersRun
<1>3. lock'.pc = "free"
  BY <1>1 DEF MM!Free
<1> HIDE DEF s
<1>4. /\ SinkInv' /\ UNCHANGED destroyed /\ DOMAIN sinks' = DOMAIN sinks /\ sinks[s].owed
      /\ \A r \in DOMAIN sinks \ {s} : sinks'[r] = sinks[r]
  BY <1>1, <1>2, StopReleasedStep DEF IInv
<1>5. MapTypeOK'
  BY <1>1, <1>4 DEF IInv, ManagerInv, MapTypeOK, MM!MixerKey
<1>6. LockInv'
  BY <1>1 DEF LockInv, MM!Free
<1>7. MixersRun'
  <2>1. \A k \in DOMAIN mixers : sinks'[mixers[k].mixer] = sinks[mixers[k].mixer]
    BY <1>2, <1>4 DEF Runs
  <2> QED BY <1>1, <1>2, <1>3, <2>1 DEF MixersRun, Runs
<1>8. MixersDistinct' /\ RefCountsInputs'
  <2>1. MixersDistinct'
    BY <1>1 DEF IInv, ManagerInv, MixersDistinct
  <2>2. \A l \in DOMAIN mixers : mixers[l].ref_count # 0
    BY <1>2, ManagerFacts DEF IInv
  <2>3. RefCountsInputs'
    BY <1>1, <2>2, ManagerFacts, RefCountsNext DEF IInv
  <2> QED BY <2>1, <2>3
<1>9. ProviderInv'
  <2>1. /\ \A q \in Providers \ {p} : provider'[q] = provider[q] /\ provider[q] # "starting"
        /\ provider'[p] = "failed"
    BY <1>1 DEF IInv, ProviderInv, StartingUnderLock
  <2>2. StartingUnderLock'
    BY <2>1 DEF StartingUnderLock
  <2>3. MixerWhileStarted'
    BY <1>1, <2>1 DEF IInv, ProviderInv, MixerWhileStarted
  <2> QED BY <1>1, <2>2, <2>3 DEF IInv, ProviderInv
<1> QED BY <1>4, <1>5, <1>6, <1>7, <1>8, <1>9 DEF IInv, ManagerInv

\* Stop of a provider that has no mixer.
LEMMA StopWithoutMixerStep ==
  ASSUME IInv, ~destroyed, NEW p \in Providers, Stop(p), input[p] = 0
  PROVE  IInv'
<1>1. /\ provider[p] \in {"initialized", "started", "failed"}
      /\ provider' = [provider EXCEPT ![p] = "new"]
      /\ UNCHANGED <<cache_vars, manager_vars>> /\ UNCHANGED <<key, null_sink>>
  BY DEF Stop, At
<1>2. UNCHANGED <<cache, sinks, calls, delete_tasks, sink_to_stop, destroyed>>
      /\ UNCHANGED <<input, lock, key>>
  BY <1>1 DEF cache_vars, manager_vars
<1>3. SinkInv'
  BY <1>2, SinkFrame DEF IInv
<1>4. ManagerInv'
  <2>1. \A s \in DOMAIN sinks : Runs(s) => Runs(s)'
    BY <1>2 DEF Runs
  <2>2. \A q \in Providers : provider[q] = "starting" => provider'[q] = "starting"
    BY <1>1 DEF IInv, ProviderInv
  <2>3. destroyed \in BOOLEAN
    BY SinkFacts DEF IInv
  <2> QED BY <1>1, <1>2, <2>1, <2>2, <2>3, ManagerFrame DEF IInv
<1>5. ProviderInv'
  <2>1. null_sink[p] \in BOOLEAN /\ null_sink' = [null_sink EXCEPT ![p] = null_sink[p]]
        /\ (provider[p] # "started" \/ null_sink[p]) /\ provider[p] # "starting"
    BY <1>1 DEF IInv, ProviderInv, MixerWhileStarted
  <2> QED BY <1>1, <1>2, <2>1, ProviderMoves DEF IInv
<1> QED BY <1>3, <1>4, <1>5 DEF IInv

LEMMA ReturnMixerStep ==
  ASSUME IInv, ~destroyed, NEW p \in Providers, Stop(p), input[p] # 0
  PROVE  IInv'
<1>1. /\ provider[p] \in {"initialized", "started", "failed"}
      /\ provider' = [provider EXCEPT ![p] = "new"]
      /\ lock = MM!Free /\ input' = [input EXCEPT ![p] = 0]
      /\ UNCHANGED <<root, key, null_sink>>
  BY DEF Stop, At, MM!ReturnMixer
<1>2. PICK k \in DOMAIN mixers :
        /\ mixers[k].mixer = input[p]
        /\ mixers' = [mixers EXCEPT ![k].ref_count = @ - 1]
        /\ IF mixers[k].ref_count = 1
           THEN MM!SC!ReleaseSink(mixers[k].mixer) /\ lock' = MM!Deleting(k)
           ELSE UNCHANGED <<MM!cache_vars, lock>>
  BY DEF Stop, MM!ReturnMixer
<1> DEFINE s == mixers[k].mixer
           n == mixers[k].ref_count
<1>3. lock.pc = "free" /\ \A l : lock # MM!Deleting(l)
  BY <1>1, LockFacts DEF IInv
<1>4. /\ s \in DOMAIN sinks /\ s # 0 /\ n \in Nat \ {0} /\ n = Cardinality(Holders(input, s))
      /\ \A l \in DOMAIN mixers : mixers[l].ref_count # 0
      /\ \A l \in DOMAIN mixers : mixers[l].mixer = s => l = k
      /\ \A l \in DOMAIN mixers : Runs(mixers[l].mixer) /\ mixers[l].mixer \in DOMAIN sinks
  <2>1. s \in DOMAIN sinks /\ n \in Nat /\ n = Cardinality(Holders(input, s))
    BY ManagerFacts DEF IInv
  <2>2. s # 0
    BY <2>1, SinkFacts DEF IInv
  <2>3. \A l \in DOMAIN mixers : mixers[l].ref_count # 0 /\ mixers[l].mixer \in DOMAIN sinks
    BY <1>3, ManagerFacts DEF IInv
  <2> QED BY <1>3, <2>1, <2>2, <2>3 DEF IInv, ManagerInv, MixersDistinct, MixersRun
<1>5. /\ DOMAIN mixers' = DOMAIN mixers
      /\ \A l \in DOMAIN mixers : mixers'[l].mixer = mixers[l].mixer
      /\ mixers'[k].ref_count = n - 1
      /\ \A l \in DOMAIN mixers \ {k} : mixers'[l] = mixers[l]
      /\ mixers'[k] \in [mixer : DOMAIN sinks, ref_count : Nat]
  BY <1>2, <1>4, ManagerFacts DEF IInv
<1>6. /\ input' \in [Providers -> DOMAIN sinks \cup {0}] /\ input'[p] = 0
      /\ \A q \in Providers \ {p} : input'[q] = input[q]
  BY <1>1, ManagerFacts DEF IInv
<1>7. /\ Holders(input', s) = Holders(input, s) \ {p} /\ p \in Holders(input, s)
      /\ \A r : r # s /\ r # 0 => Holders(input', r) = Holders(input, r)
  BY <1>2, <1>4, <1>6 DEF Holders
<1>8. /\ SinkInv' /\ UNCHANGED destroyed /\ DOMAIN sinks' = DOMAIN sinks
      /\ \A r \in DOMAIN sinks \ {s} : sinks'[r] = sinks[r]
      /\ \/ n = 1 /\ lock' = MM!Deleting(k)
         \/ n # 1 /\ UNCHANGED <<sinks, lock>>
  <2>1. CASE n = 1
    BY <1>2, <1>4, <2>1, ReleaseSinkStep DEF IInv
  <2>2. CASE n # 1
    <3>1. UNCHANGED <<cache, sinks, calls, delete_tasks, sink_to_stop, destroyed>>
          /\ UNCHANGED lock
      BY <1>2, <2>2 DEF MM!cache_vars
    <3> QED BY <2>2, <3>1, SinkFrame DEF IInv
  <2> QED BY <2>1, <2>2
<1> HIDE DEF s, n
<1>9. MapTypeOK'
  <2>1. \A l \in DOMAIN mixers' : mixers'[l] \in [mixer : DOMAIN sinks', ref_count : Nat]
    BY <1>5, <1>8, ManagerFacts DEF IInv
  <2> QED BY <1>1, <1>5, <1>6, <1>8, <2>1 DEF IInv, ManagerInv, MapTypeOK, MM!MixerKey
<1>10. LockInv'
  BY <1>1, <1>4, <1>5, <1>8 DEF LockInv, MM!Free, MM!Deleting
<1>11. MixersRun' /\ MixersDistinct'
  <2>1. CASE n = 1 /\ lock' = MM!Deleting(k)
    <3>1. lock'.pc = "deleting"
      BY <2>1 DEF MM!Deleting
    <3>2. \A l \in DOMAIN mixers \ {k} : Runs(mixers[l].mixer)'
      BY <1>4, <1>5, <1>8 DEF Runs
    <3> QED BY <1>5, <2>1, <3>1, <3>2 DEF IInv, ManagerInv, MixersRun, MixersDistinct, Runs
  <2>2. CASE n # 1 /\ UNCHANGED <<sinks, lock>>
    BY <1>3, <1>4, <1>5, <2>2 DEF IInv, ManagerInv, MixersRun, MixersDistinct, Runs
  <2> QED BY <1>8, <2>1, <2>2
<1>12. RefCountsInputs'
  <2>1. Cardinality(Holders(input', s)) = n - 1
    BY <1>4, <1>7, HoldersFinite, FS_RemoveElement
  <2>2. \A l \in DOMAIN mixers' : mixers'[l].ref_count = Cardinality(Holders(input', mixers'[l].mixer))
    <3> TAKE l \in DOMAIN mixers'
    <3>1. CASE l = k
      BY <1>5, <2>1, <3>1 DEF s
    <3>2. CASE l # k
      <4>1. mixers'[l] = mixers[l] /\ mixers[l].mixer # s /\ mixers[l].mixer # 0
        BY <1>4, <1>5, <3>2, SinkFacts DEF IInv
      <4>2. Holders(input', mixers'[l].mixer) = Holders(input, mixers[l].mixer)
        BY <1>7, <4>1
      <4> QED BY <1>5, <4>1, <4>2, ManagerFacts DEF IInv
    <3> QED BY <3>1, <3>2
  <2>3. \A l \in DOMAIN mixers' : mixers'[l].ref_count = 0 => lock' = MM!Deleting(l)
    <3>1. mixers'[k].ref_count = 0 => n = 1
      BY <1>4, <1>5
    <3> QED BY <1>4, <1>5, <1>8, <3>1
  <2>4. \A q \in Providers : input'[q] # 0 => \E l \in DOMAIN mixers' : mixers'[l].mixer = input'[q]
    BY <1>5, <1>6, ManagerFacts DEF IInv
  <2> QED BY <2>2, <2>3, <2>4, RefCountsNext
<1>13. ProviderInv'
  <2>1. /\ \A q \in Providers \ {p} : provider'[q] = provider[q]
        /\ \A q \in Providers : provider'[q] # "starting"
        /\ provider'[p] = "new"
    BY <1>1, <1>3 DEF IInv, ProviderInv, StartingUnderLock
  <2>2. StartingUnderLock'
    BY <2>1 DEF StartingUnderLock
  <2>3. MixerWhileStarted'
    BY <1>1, <1>6, <2>1 DEF IInv, ProviderInv, MixerWhileStarted
  <2> QED BY <1>1, <2>2, <2>3 DEF IInv, ProviderInv
<1> QED BY <1>8, <1>9, <1>10, <1>11, <1>12, <1>13 DEF IInv, ManagerInv

LEMMA DeleteMixerStep ==
  ASSUME IInv, ~destroyed, MixerDeleted
  PROVE  IInv'
<1> DEFINE gone == lock.key
           s == mixers[gone].mixer
<1>1. /\ lock.pc = "deleting" /\ MM!SC!StopReleased(s)
      /\ mixers' = [k \in DOMAIN mixers \ {gone} |-> mixers[k]]
      /\ root' \in MM!Shrunk(gone)
      /\ lock' = MM!Free /\ UNCHANGED input /\ UNCHANGED provider_vars
  BY DEF MixerDeleted, MM!DeleteMixer
<1>2. /\ gone \in DOMAIN mixers /\ mixers[gone].ref_count = 0 /\ s \in DOMAIN sinks
      /\ \A l \in DOMAIN mixers \ {gone} : lock # MM!Deleting(l)
  <2>1. /\ gone \in DOMAIN mixers /\ mixers[gone].ref_count = 0
        /\ \A l \in DOMAIN mixers \ {gone} : lock # MM!Deleting(l)
    BY <1>1, LockFacts DEF IInv
  <2> QED BY <2>1, ManagerFacts DEF IInv
<1>3. Holders(input, s) = {}
  <2>1. Cardinality(Holders(input, s)) = 0
    BY <1>2, ManagerFacts DEF IInv
  <2> HIDE DEF s
  <2> QED BY <2>1, HoldersFinite, FS_EmptySet
<1>4. \A l \in DOMAIN mixers \ {gone} :
        Runs(mixers[l].mixer) /\ mixers[l].mixer # s /\ mixers[l].mixer \in DOMAIN sinks
  BY <1>2, ManagerFacts DEF IInv, ManagerInv, MixersRun, MixersDistinct
<1> HIDE DEF s
<1>5. /\ SinkInv' /\ UNCHANGED destroyed /\ DOMAIN sinks' = DOMAIN sinks
      /\ \A r \in DOMAIN sinks \ {s} : sinks'[r] = sinks[r]
  BY <1>1, <1>2, StopReleasedStep DEF IInv
<1> HIDE DEF gone
<1>6. /\ DOMAIN mixers' = DOMAIN mixers \ {gone}
      /\ \A l \in DOMAIN mixers' : mixers'[l] = mixers[l]
      /\ lock'.pc = "free"
  BY <1>1 DEF MM!Free
<1>7. MapTypeOK'
  <2>1. \A l \in DOMAIN mixers' : mixers'[l] \in [mixer : DOMAIN sinks', ref_count : Nat]
    BY <1>5, <1>6, ManagerFacts DEF IInv
  <2>2. root' \subseteq DOMAIN mixers' /\ (root' = {} <=> DOMAIN mixers' = {})
    <3>1. root \subseteq DOMAIN mixers /\ root # {}
      BY <1>2 DEF IInv, ManagerInv, MapTypeOK
    <3>2. CASE DOMAIN mixers \ {gone} = {} /\ root' = {}
      BY <1>6, <3>2
    <3>3. CASE DOMAIN mixers \ {gone} # {} /\ gone \notin root /\ root' = root
      BY <1>6, <3>1, <3>3
    <3>4. CASE DOMAIN mixers \ {gone} # {} /\ \E k \in DOMAIN mixers \ {gone} : root' = {k}
      BY <1>6, <3>4
    <3> QED BY <1>1, <3>2, <3>3, <3>4 DEF MM!Shrunk
  <2> QED BY <1>1, <1>5, <1>6, <2>1, <2>2 DEF IInv, ManagerInv, MapTypeOK, MM!MixerKey
<1>8. LockInv'
  BY <1>1 DEF LockInv, MM!Free
<1>9. MixersRun' /\ MixersDistinct'
  <2>1. \A l \in DOMAIN mixers' : Runs(mixers[l].mixer)'
    BY <1>4, <1>5, <1>6 DEF Runs
  <2> QED BY <1>6, <2>1 DEF IInv, ManagerInv, MixersRun, MixersDistinct, Runs
<1>10. RefCountsInputs'
  <2>1. \A l \in DOMAIN mixers' :
          /\ mixers'[l].ref_count = Cardinality(Holders(input', mixers'[l].mixer))
          /\ mixers'[l].ref_count # 0
    BY <1>1, <1>2, <1>6, ManagerFacts DEF IInv
  <2>2. \A q \in Providers : input'[q] # 0 => \E l \in DOMAIN mixers' : mixers'[l].mixer = input'[q]
    <3> SUFFICES ASSUME NEW q \in Providers, input[q] # 0
                 PROVE  \E l \in DOMAIN mixers' : mixers'[l].mixer = input[q]
      BY <1>1
    <3>1. PICK l \in DOMAIN mixers : mixers[l].mixer = input[q]
      BY ManagerFacts DEF IInv
    <3>2. l # gone
      BY <1>3, <3>1 DEF Holders, s
    <3> QED BY <1>6, <3>1, <3>2
  <2> QED BY <2>1, <2>2, RefCountsNext
<1>11. ProviderInv'
  <2>1. UNCHANGED <<key, provider, null_sink>> /\ \A q \in Providers : provider[q] # "starting"
    BY <1>1 DEF IInv, ProviderInv, StartingUnderLock, provider_vars
  <2>2. StartingUnderLock'
    BY <2>1 DEF StartingUnderLock
  <2>3. MixerWhileStarted'
    BY <1>1, <2>1 DEF IInv, ProviderInv, MixerWhileStarted
  <2> QED BY <2>1, <2>2, <2>3 DEF IInv, ProviderInv
<1> QED BY <1>5, <1>7, <1>8, <1>9, <1>10, <1>11 DEF IInv, ManagerInv

\* The cache's own tasks, and the end of it all.
LEMMA TaskStep ==
  ASSUME IInv, ~destroyed, Deletions \/ Destroy
  PROVE  IInv'
<1>1. UNCHANGED <<manager_vars, provider_vars>>
  BY DEF Deletions, Destroy
<1>2. /\ SinkInv' /\ DOMAIN sinks \subseteq DOMAIN sinks'
      /\ destroyed' \/ \A s \in DOMAIN sinks : Runs(s) => Runs(s)'
  <2>1. CASE \E s \in DOMAIN sinks : MM!SC!DeleteTask(s)
    BY <2>1, DeleteTaskStep DEF IInv, Runs
  <2>2. CASE MM!SC!StopDeleted
    BY <2>2, StopDeletedStep DEF IInv, Runs
  <2>3. CASE MM!SC!Destroy
    BY <2>3, DestroyStep DEF IInv
  <2> QED BY <2>1, <2>2, <2>3 DEF Deletions, Destroy
<1>3. ManagerInv'
  <2>1. destroyed \in BOOLEAN
    BY SinkFacts DEF IInv
  <2> QED BY <1>1, <1>2, <2>1, ManagerFrame DEF IInv, provider_vars
<1>4. ProviderInv'
  BY <1>1, ProviderFrame DEF IInv, manager_vars
<1> QED BY <1>2, <1>3, <1>4 DEF IInv
-----------------------------------------------------------------------------
(* The theorems *)

LEMMA InitIInv == Init => IInv
<1> SUFFICES ASSUME Init PROVE IInv
  OBVIOUS
<1> USE DEF Init, MM!Init, MM!SC!Init
<1>1. SinkInv
  <2>1. MM!SC!TypeOK
    <3>1. \A S : << >> \in Seq(S)
      OBVIOUS
    <3>2. calls \in [Providers -> CallStates]
      BY DEF CallStates
    <3>3. /\ sinks \in Seq(Sink) /\ cache \in Seq(CacheEntry)
          /\ delete_tasks \subseteq DOMAIN sinks /\ sink_to_stop = 0 /\ destroyed \in BOOLEAN
      BY <3>1
    <3> QED BY <3>2, <3>3 DEF MM!SC!TypeOK, MM!SC!SinkIds, Sink, CacheEntry, CallStates
  <2>2. DOMAIN sinks = {} /\ DOMAIN cache = {}
    OBVIOUS
  <2> QED BY <2>1, <2>2 DEF SinkInv, MM!SC!UsedMeansAcquired, MM!SC!SinksAreStopped,
              MM!SC!SinkIds, CachedSinksUntouched, StopsUnused
<1>2. ManagerInv
  <2>1. DOMAIN mixers = {} /\ lock.pc = "free"
    BY DEF MM!Free
  <2>2. MapTypeOK /\ LockInv /\ MixersRun /\ MixersDistinct
    BY <2>1 DEF MapTypeOK, LockInv, MixersRun, MixersDistinct
  <2>3. RefCountsInputs
    BY <2>1 DEF RefCountsInputs, MM!RefCountsInputs
  <2> QED BY <2>2, <2>3 DEF ManagerInv
<1>3. ProviderInv
  BY DEF ProviderInv, MixerWhileStarted, StartingUnderLock
<1> QED BY <1>1, <1>2, <1>3 DEF IInv

LEMMA NextIInv == IInv /\ [Next]_vars => IInv'
<1> SUFFICES ASSUME IInv, [Next]_vars PROVE IInv'
  OBVIOUS
<1>1. CASE UNCHANGED vars
  <2>1. UNCHANGED <<cache_vars, manager_vars, provider_vars>>
    BY <1>1 DEF vars
  <2>2. SinkInv' /\ \A s \in DOMAIN sinks : Runs(s) => Runs(s)'
    BY <2>1, SinkFrame DEF IInv, cache_vars, Runs
  <2>3. UNCHANGED <<sinks, destroyed, provider, input, lock>>
    BY <2>1 DEF cache_vars, manager_vars, provider_vars
  <2>4. ManagerInv'
    <3>1. destroyed \in BOOLEAN
      BY SinkFacts DEF IInv
    <3> QED BY <2>1, <2>2, <2>3, <3>1, ManagerFrame DEF IInv
  <2>5. ProviderInv'
    BY <2>1, <2>3, ProviderFrame DEF IInv
  <2> QED BY <2>2, <2>4, <2>5 DEF IInv
<1>2. CASE Next
  <2>1. ~destroyed
    BY <1>2 DEF Next
  <2>2. ASSUME NEW p \in Providers, InitializeCall(p) \/ StartCall(p) \/ Stop(p)
        PROVE  IInv'
    BY <2>1, <2>2, InitializeStep, StartNullSinkStep, ReuseMixerStep, GetSinkForMixerStep,
       CreateMixerStep, StopRefusedStep, StopWithoutMixerStep, ReturnMixerStep DEF StartCall
  <2>3. CASE GotNoMixer \/ MixerDeleted \/ Deletions \/ Destroy
    BY <2>1, <2>3, RefuseMixerStep, DeleteMixerStep, TaskStep
  <2> QED BY <1>2, <2>2, <2>3 DEF Next
<1> QED BY <1>1, <1>2

LEMMA AlwaysIInv == Spec => []IInv
BY InitIInv, NextIInv, PTL DEF Spec

\* The cache, the map and the lock only ever hold what their types say; no sink is
\* ever got by two clients at once.
THEOREM TypeCorrect == Spec => []TypeOK
<1>1. IInv => TypeOK
  <2> SUFFICES ASSUME IInv PROVE TypeOK
    OBVIOUS
  <2>1. lock.pc \in {"free", "got sink", "refused", "deleting"}
    BY LockFacts DEF IInv
  <2>2. (root = {}) = (DOMAIN mixers = {})
    BY DEF IInv, ManagerInv, MapTypeOK
  <2>3. MM!TypeOK
    BY <2>1, <2>2 DEF IInv, SinkInv, ManagerInv, MapTypeOK, MM!TypeOK
  <2> QED BY <2>3 DEF IInv, ProviderInv, TypeOK
<1> QED BY <1>1, AlwaysIInv, PTL

\* A provider holds a mixer exactly while it is started on a device that is OK.
THEOREM MixerIffStarted == Spec => []MixerWhileStarted
<1>1. IInv => MixerWhileStarted
  BY DEF IInv, ProviderInv
<1> QED BY <1>1, AlwaysIInv, PTL

\* The cache's "used" marks are the sinks its clients hold, whatever GetSinkInfo in
\* other threads and the delayed deletions do in between.
THEOREM UsedMarksRight == Spec => []UsedMeansAcquired
<1>1. IInv => UsedMeansAcquired
  BY DEF IInv, SinkInv, UsedMeansAcquired
<1> QED BY <1>1, AlwaysIInv, PTL

\* No healthy sink is let go of before it has been stopped.
THEOREM DroppedSinksAreStopped == Spec => []SinksAreStopped
<1>1. IInv => SinksAreStopped
  BY DEF IInv, SinkInv, SinksAreStopped
<1> QED BY <1>1, AlwaysIInv, PTL

\* ref_count is the number of providers that hold the mixer, and ReturnMixer finds
\* the mixer it is given.
THEOREM RefCountsRight == Spec => []RefCountsInputs
<1>1. IInv => RefCountsInputs
  BY DEF IInv, ManagerInv
<1> QED BY <1>1, AlwaysIInv, PTL

\* A mixer that a provider holds plays into a sink of its own, which runs.
THEOREM HeldMixersPlay == Spec => []MixersOwnRunningSinks
<1>1. IInv => MixersOwnRunningSinks
  <2> SUFFICES ASSUME IInv PROVE MixersOwnRunningSinks
    OBVIOUS
  <2>1. \A k, l \in DOMAIN mixers : mixers[k].mixer = mixers[l].mixer => k = l
    BY DEF IInv, ManagerInv, MixersDistinct
  <2>2. ASSUME ~destroyed, NEW p \in Providers, input[p] # 0
        PROVE  sinks[input[p]].users = 1 /\ ~sinks[input[p]].stopped
    <3>1. PICK k \in DOMAIN mixers : mixers[k].mixer = input[p]
      BY <2>2, ManagerFacts DEF IInv
    <3>2. mixers[k].ref_count # 0
      <4>1. p \in Holders(input, mixers[k].mixer)
        BY <3>1 DEF Holders
      <4>2. Cardinality(Holders(input, mixers[k].mixer)) # 0
        BY <4>1, HoldersFinite, FS_EmptySet
      <4> QED BY <4>2, ManagerFacts DEF IInv
    <3>3. lock # MM!Deleting(k)
      BY <3>2, LockFacts DEF IInv
    <3> QED BY <2>2, <3>1, <3>3 DEF IInv, ManagerInv, MixersRun, Runs
  <2> QED BY <2>1, <2>2 DEF MixersOwnRunningSinks, MM!MixersOwnRunningSinks
<1> QED BY <1>1, AlwaysIInv, PTL
-----------------------------------------------------------------------------
(* The map finds the mixer of a configuration from whatever root it searches,  *)
(* unless there is one of a device whose id lies between two names of the      *)
(* default device: there MixerKeyCompare is not an order.                      *)

LEMMA KeyFields ==
  \A k \in MM!MixerKey :
    k.frame \in Nat /\ k.params \in Nat /\ k.device \in Nat /\ k.origin \in Nat /\ k.device \in Devices
<1>1. Frames \subseteq Nat /\ Params \subseteq Nat /\ Devices \subseteq Nat /\ Origins \subseteq Nat
  BY ProviderAssumption
<1> QED BY <1>1 DEF MM!MixerKey

\* A node of the tree hides a key of the same configuration only if its device's
\* id lies between theirs.
LEMMA HiddenIsSplit ==
  ASSUME NEW k \in MM!MixerKey, NEW l \in MM!MixerKey, NEW e \in MM!MixerKey,
         MM!SameConfiguration(k, l)
  PROVE  (MM!Hides(e, k, l) => MM!Splits(e, k, l)) /\ MM!Equivalent(k, l)
<1>1. /\ k.frame \in Nat /\ k.params \in Nat /\ k.device \in Nat /\ k.origin \in Nat
      /\ l.frame \in Nat /\ l.params \in Nat /\ l.device \in Nat /\ l.origin \in Nat
      /\ e.frame \in Nat /\ e.params \in Nat /\ e.device \in Nat /\ e.origin \in Nat
  BY KeyFields
<1>2. k.frame = l.frame /\ k.params = l.params
  BY DEF MM!SameConfiguration
<1>3. CASE k.device = l.device /\ k.origin = l.origin
  <2>1. \A a, b \in {k, e} : ~(MM!Less(a, b) /\ MM!Less(b, a))
    BY <1>1 DEF MM!Less
  <2>2. (MM!Less(l, e) <=> MM!Less(k, e)) /\ (MM!Less(e, l) <=> MM!Less(e, k))
    BY <1>2, <1>3 DEF MM!Less
  <2>3. MM!Equivalent(k, l)
    BY <1>1, <1>2, <1>3 DEF MM!Equivalent, MM!Less
  <2> QED BY <2>1, <2>2, <2>3 DEF MM!Hides
<1>4. CASE {k.device, l.device} \subseteq DefaultDevices
  <2>1. MM!Equivalent(k, l)
    BY <1>1, <1>2, <1>4 DEF MM!Equivalent, MM!Less
  <2>2. CASE e.device \in DefaultDevices
    <3>1. \A a \in {k, l} :
            /\ MM!Less(a, e) => a.frame < e.frame \/ (a.frame = e.frame /\ a.params < e.params)
            /\ MM!Less(e, a) => e.frame < a.frame \/ (a.frame = e.frame /\ e.params < a.params)
      BY <1>4, <2>2 DEF MM!Less
    <3>2. ~(MM!Less(k, e) /\ MM!Less(e, l))
      BY <1>1, <1>2, <3>1
    <3>3. ~(MM!Less(l, e) /\ MM!Less(e, k))
      BY <1>1, <1>2, <3>1
    <3> QED BY <2>1, <3>2, <3>3 DEF MM!Hides
  <2>3. CASE e.device \notin DefaultDevices
    <3>1. e.device # k.device /\ e.device # l.device
      BY <1>4, <2>3
    <3>2. \A a \in {k, l} :
            /\ MM!Less(a, e) =>
                 \/ a.frame < e.frame
                 \/ a.frame = e.frame /\ a.params < e.params
                 \/ a.frame = e.frame /\ a.params = e.params /\ a.device < e.device
            /\ MM!Less(e, a) =>
                 \/ e.frame < a.frame
                 \/ a.frame = e.frame /\ e.params < a.params
                 \/ a.frame = e.frame /\ a.params = e.params /\ e.device < a.device
      BY <3>1 DEF MM!Less
    <3>3. MM!Less(k, e) /\ MM!Less(e, l) => MM!Splits(e, k, l)
      BY <1>1, <1>2, <3>2 DEF MM!Splits
    <3>4. MM!Less(l, e) /\ MM!Less(e, k) => MM!Splits(e, k, l)
      BY <1>1, <1>2, <3>2 DEF MM!Splits
    <3> QED BY <2>1, <3>3, <3>4 DEF MM!Hides
  <2> QED BY <2>2, <2>3
<1> QED BY <1>3, <1>4 DEF MM!SameConfiguration

\* How a step changes the map: a mixer is added under the key that is in the lock,
\* and a key is put there only after it has been searched for in vain.
LEMMA MapStep ==
  ASSUME Next
  PROVE  \/ DOMAIN mixers' = DOMAIN mixers /\ lock' = lock
         \/ DOMAIN mixers' \subseteq DOMAIN mixers /\ lock'.pc # "got sink"
         \/ /\ lock.pc = "got sink" /\ lock'.pc = "free"
            /\ DOMAIN mixers' = DOMAIN mixers \cup {lock.key}
         \/ /\ UNCHANGED mixers
            /\ \E p \in Providers : lock'.key = key[p] /\ MM!Missed(key[p])
<1> USE DEF MM!Free, MM!GotSink, MM!Refused, MM!Deleting, manager_vars
<1>1. ASSUME NEW p \in Providers, InitializeCall(p) PROVE UNCHANGED <<mixers, lock>>
  BY <1>1 DEF InitializeCall, InitializeKnown, AskDevice, GetOutputDeviceInfo, DeviceOk,
     DeviceNotOk, DeviceAsked
<1>2. ASSUME NEW p \in Providers, StartNullSink(p) PROVE UNCHANGED <<mixers, lock>>
  BY <1>2 DEF StartNullSink
<1>3. ASSUME NEW p \in Providers, StartWithMixer(p)
      PROVE  DOMAIN mixers' = DOMAIN mixers /\ lock' = lock
  BY <1>3 DEF StartWithMixer, MM!ReuseMixer
<1>4. ASSUME NEW p \in Providers, StartWithoutMixer(p)
      PROVE  UNCHANGED mixers /\ lock'.key = key[p] /\ MM!Missed(key[p])
  <2>1. PICK s : lock' = MM!GotSink(p, key[p], s)
    BY <1>4 DEF StartWithoutMixer, MM!GetSinkForMixer
  <2> QED BY <1>4, <2>1 DEF StartWithoutMixer, MM!GetSinkForMixer
<1>5. ASSUME NEW p \in Providers, GotMixer(p)
      PROVE  /\ lock.pc = "got sink" /\ lock'.pc = "free"
             /\ DOMAIN mixers' = DOMAIN mixers \cup {lock.key}
  BY <1>5 DEF GotMixer, MM!CreateMixer
<1>6. ASSUME NEW p \in Providers, StartFailed(p)
      PROVE  UNCHANGED mixers /\ lock'.pc # "got sink"
  BY <1>6 DEF StartFailed, MM!StopRefused
<1>7. ASSUME NEW p \in Providers, Stop(p)
      PROVE  DOMAIN mixers' = DOMAIN mixers /\ (lock' = lock \/ lock'.pc # "got sink")
  <2>1. CASE input[p] = 0
    BY <1>7, <2>1 DEF Stop
  <2>2. CASE MM!ReturnMixer(p)
    <3>1. PICK k \in DOMAIN mixers :
            /\ mixers' = [mixers EXCEPT ![k].ref_count = @ - 1]
            /\ lock' = MM!Deleting(k) \/ lock' = lock
      BY <2>2 DEF MM!ReturnMixer
    <3>2. \A l : MM!Deleting(l).pc # "got sink"
      OBVIOUS
    <3> QED BY <3>1, <3>2
  <2> QED BY <1>7, <2>1, <2>2 DEF Stop
<1>8. CASE GotNoMixer
  BY <1>8 DEF GotNoMixer, MM!RefuseMixer
<1>9. CASE MixerDeleted
  BY <1>9 DEF MixerDeleted, MM!DeleteMixer
<1>10. CASE Deletions \/ Destroy
  BY <1>10 DEF Deletions, Destroy
<1> QED BY <1>1, <1>2, <1>3, <1>4, <1>5, <1>6, <1>7, <1>8, <1>9, <1>10 DEF Next, StartCall

LEMMA NextMissedIsSplit ==
  ASSUME IInv, MissedIsSplit, [Next]_vars
  PROVE  MissedIsSplit'
<1>1. CASE DOMAIN mixers' = DOMAIN mixers /\ lock' = lock
  BY <1>1 DEF MissedIsSplit, MM!SameConfiguration, MM!Splits
<1>2. CASE lock'.pc # "got sink"
  BY <1>2 DEF MissedIsSplit
<1>3. ASSUME UNCHANGED mixers, NEW p \in Providers, lock'.key = key[p], MM!Missed(key[p])
      PROVE  MissedIsSplit'
  <2>1. ASSUME \A k \in DOMAIN mixers :
                 MM!SameConfiguration(k, key[p])
                   => \E e \in DOMAIN mixers : MM!Splits(e, k, key[p])
        PROVE  MissedIsSplit'
    <3>1. mixers' = mixers /\ lock'.key = key[p]
      BY <1>3
    <3>2. \A k \in DOMAIN mixers' :
            MM!SameConfiguration(k, lock'.key)
              => \E e \in DOMAIN mixers' : MM!Splits(e, k, lock'.key)
      BY <2>1, <3>1
    <3> QED BY <3>2 DEF MissedIsSplit, MM!SameConfiguration, MM!Splits
  <2> SUFFICES ASSUME NEW k \in DOMAIN mixers, MM!SameConfiguration(k, key[p])
               PROVE  \E e \in DOMAIN mixers : MM!Splits(e, k, key[p])
    BY <2>1
  <2>2. /\ k \in MM!MixerKey /\ key[p] \in MM!MixerKey
        /\ root \subseteq MM!MixerKey /\ root \subseteq DOMAIN mixers
    BY KeyTypes DEF IInv, ManagerInv, MapTypeOK
  <2>3. k \in MM!Matching(key[p])
    BY <2>2, HiddenIsSplit DEF MM!Matching
  <2>4. PICK e \in root : MM!Hides(e, k, key[p])
    BY <1>3, <2>3 DEF MM!Missed
  <2>5. MM!Splits(e, k, key[p])
    BY <2>2, <2>4, HiddenIsSplit
  <2> QED BY <2>2, <2>5
<1>4. CASE UNCHANGED vars
  BY <1>1, <1>4 DEF vars, manager_vars
<1>5. CASE Next
  BY <1>1, <1>2, <1>3, <1>5, MapStep
<1> QED BY <1>4, <1>5

\* Providers with the same configuration share a mixer, also under the two names of
\* the default device.  A second one is made only while the map holds the mixer of
\* a device whose id lies between those names (mixers_.find in GetMixer).
THEOREM ConfigurationsShareMixers == Spec => SharedUnlessSplit
<1>1. Init => MissedIsSplit
  BY DEF Init, MM!Init, MissedIsSplit, MM!Free
<1>2. IInv /\ MissedIsSplit /\ [Next]_vars => MissedIsSplit'
  BY NextMissedIsSplit
<1>3. ASSUME IInv, MissedIsSplit, [Next]_vars
      PROVE  [MM!NewMixersSplit]_mixers
  <2> SUFFICES ASSUME mixers' # mixers, NEW l \in DOMAIN mixers' \ DOMAIN mixers,
                      NEW k \in DOMAIN mixers, MM!SameConfiguration(k, l)
               PROVE  \E e \in DOMAIN mixers : MM!Splits(e, k, l)
    BY DEF MM!NewMixersSplit
  <2>1. Next
    BY <1>3 DEF vars, manager_vars
  <2>2. lock.pc = "got sink" /\ l = lock.key
    BY <2>1, MapStep
  <2> QED BY <1>3, <2>2 DEF MissedIsSplit
<1>4. IInv /\ MissedIsSplit /\ [Next]_vars => [MM!NewMixersSplit]_mixers
  BY <1>3
<1> QED BY <1>1, <1>2, <1>4, AlwaysIInv, PTL DEF Spec, SharedUnlessSplit, MM!SharedUnlessSplit
=============================================================================
