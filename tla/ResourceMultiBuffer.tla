------------------------- MODULE ResourceMultiBuffer -------------------------
(***************************************************************************)
(* ResourceMultiBuffer: a block cache filled by one URL fetch at a time.   *)
(*                                                                         *)
(* Threads.  The reader's thread calls Start and Seek (Fill and GetSize    *)
(* change nothing and are operators).  The io thread creates the fetchers  *)
(* and runs the writer callbacks DidInitialize, OnWrite and OnFinish.      *)
(* lock_ makes Start, Seek, Fill and the body of OnWrite exclude each      *)
(* other.  Seek does not replace the fetcher: it moves the write position  *)
(* at once and POSTS CreateFetcherFrom to the io thread, and until that    *)
(* task runs the old fetcher keeps delivering.                             *)
(*                                                                         *)
(* Bytes are named by their position in the resource, so a cached byte     *)
(* tells where it came from.                                               *)
(***************************************************************************)
EXTENDS BlockCache

CONSTANTS
  Length,                    \* bytes in the resource
  MaxWaitForReaderOffset,    \* kMaxWaitForReaderOffset
  MaxLookAheadIndex,         \* kMaxLookAheadIndex
  MaxLookBehindIndex,        \* kMaxLookBehindIndex
  MaxChunk,                  \* bound: bytes in one OnWrite
  ResponseCodes,             \* what the server may answer a range request with
  FetchMayFail,              \* whether a fetch may end before the resource does
  MaxPosition,               \* bound: where the last read starts, also behind the end
  MaxTasks                   \* bound: CreateFetcherFrom tasks in the io queue

ASSUME SizeAssumption ==
  /\ {Length, MaxChunk} \subseteq Nat \ {0}
  /\ {MaxWaitForReaderOffset, MaxLookAheadIndex, MaxLookBehindIndex} \subseteq Nat
  /\ {MaxPosition, MaxTasks} \subseteq Nat
  /\ ResponseCodes \subseteq {200, 206, 404}
  /\ FetchMayFail \in BOOLEAN

\* The cache is larger than the pinned range: 1000 > 5 + 1 + 50 in the code.
ASSUME CacheAssumption ==
  /\ MaxCacheSize \in Nat
  /\ MaxCacheSize > MaxLookAheadIndex + 1 + MaxLookBehindIndex

VARIABLES
  write_start_pos,    \* write_start_pos_
  write_offset,       \* write_offset_
  total_bytes,        \* total_bytes_, -1 while unknown
  cache,              \* cache_
  lru,                \* lru_
  pinned_range,       \* pinned_range_
  fetcher,            \* fetcher_: its state, response code and next body byte
  io_tasks,           \* positions of the posted CreateFetcherFrom tasks
  writing,            \* bytes OnWrite has still to store; lock_ is held meanwhile
  stale               \* history: bytes came for a position that is not theirs, from
                      \*   a replaced fetcher or from a server that ignores Range

buffer_vars == <<write_start_pos, write_offset, total_bytes, cache, lru,
                 pinned_range, fetcher, io_tasks, writing, stale>>

\* A byte of a DataBuffer that nothing was ever written to.
Garbage == -1

Positions == 0 .. Length - 1

\* Nothing keeps a reader from the end and what is behind it: while the size is
\* unknown it cannot know where that is.
ReadPositions == 0 .. MaxPosition
WritePos == write_start_pos + write_offset
Unlocked == writing = 0

Fetcher(state, code, next) == [state |-> state, code |-> code, next |-> next]
NoFetcher == Fetcher("none", 0, 0)

BufferInit ==
  /\ write_start_pos = 0
  /\ write_offset = 0
  /\ total_bytes = -1
  /\ cache = [b \in {} |-> << >>]
  /\ lru = << >>
  /\ pinned_range = [first |-> 0, second |-> 0]
  /\ fetcher = NoFetcher
  /\ io_tasks = << >>
  /\ writing = 0
  /\ stale = FALSE

\* GetSize(): -1 before there is a fetcher.
BufferSize == IF fetcher.state = "none" THEN -1 ELSE total_bytes
-----------------------------------------------------------------------------
(* The reader's thread *)

Start ==
  /\ Unlocked
  /\ fetcher.state = "none" /\ io_tasks = << >>
  /\ write_start_pos' = 0
  /\ write_offset' = 0
  /\ io_tasks' = << 0 >>
  /\ UNCHANGED <<total_bytes, cache, lru, pinned_range, fetcher, writing, stale>>

\* Mutant of PinnedAround: std::max(..., 0) is forgotten.
PinnedUnclamped(id) ==
  [first |-> id - MaxLookAheadIndex, second |-> id + MaxLookBehindIndex]

\* Mutant of PinnedAround: everything in front of the reader is pinned.
PinnedFromStart(id) == [first |-> 0, second |-> id + MaxLookBehindIndex]

PinnedAround(id) ==
  [first  |-> IF id > MaxLookAheadIndex THEN id - MaxLookAheadIndex ELSE 0,
   second |-> id + MaxLookBehindIndex]

\* Mutant of NeedsFetch: Seek does not ask CheckCacheMiss.
NeedsFetchUnchecked(position) ==
  position < write_start_pos \/ position - MaxWaitForReaderOffset > WritePos

\* Waiting for the writer would not bring the position, or not soon.
NeedsFetch(position) ==
  \/ position < write_start_pos
  \/ position - MaxWaitForReaderOffset > WritePos
  \/ CacheMiss(cache, position, WritePos)

\* Mutant of FetchStart: a fetch starts at the position, inside a block.
FetchStartExact(position) == position

\* A new fetch starts one block before the position.
FetchStart(position) ==
  IF ToBlockId(position) > 0 THEN BlockStart(ToBlockId(position) - 1) ELSE 0

\* Mutant of Refetch: write_offset_ is not reset.
RefetchKeepsOffset(position) ==
  /\ write_start_pos' = FetchStart(position)
  /\ io_tasks' = Append(io_tasks, FetchStart(position))
  /\ UNCHANGED write_offset

Refetch(position) ==
  /\ write_start_pos' = FetchStart(position)
  /\ write_offset' = 0
  /\ io_tasks' = Append(io_tasks, FetchStart(position))

\* The client reads only after DidInitialize, when there is a fetcher.
Seek(position) ==
  /\ Unlocked
  /\ fetcher.state # "none"
  /\ pinned_range' = PinnedAround(ToBlockId(position))
  /\ \/ ~NeedsFetch(position) /\ UNCHANGED <<write_start_pos, write_offset, io_tasks>>
     \/ NeedsFetch(position) /\ Len(io_tasks) < MaxTasks /\ Refetch(position)
  /\ UNCHANGED <<total_bytes, cache, lru, fetcher, writing, stale>>
-----------------------------------------------------------------------------
(* The io thread *)

\* The posted CreateFetcherFrom: replacing fetcher_ destroys the old fetcher,
\* which cancels its request, so it calls no more.
CreateFetcherFrom ==
  /\ Unlocked
  /\ io_tasks # << >>
  /\ fetcher' = Fetcher("created", 0, Head(io_tasks))
  /\ io_tasks' = Tail(io_tasks)
  /\ UNCHANGED <<write_start_pos, write_offset, total_bytes, cache, lru,
                 pinned_range, writing, stale>>

\* 206 sends the range that was asked for, 200 the whole resource, 404 an error
\* page; which also stands for what is sent instead of a range behind the end.
Answers ==
  IF fetcher.next < Length THEN ResponseCodes ELSE (ResponseCodes \ {206}) \cup {404}

Codes == ResponseCodes \cup {0, 404}

\* The request goes out, and the server answers it.
DidInitialize ==
  /\ Unlocked
  /\ fetcher.state = "created"
  /\ \E code \in Answers :
       /\ fetcher' = Fetcher("open", code, IF code = 206 THEN fetcher.next ELSE 0)
       /\ stale' = (stale \/ (code = 200 /\ fetcher.next # 0))
  /\ UNCHANGED <<write_start_pos, write_offset, total_bytes, cache, lru,
                 pinned_range, io_tasks, writing>>

\* A Content-Range that cannot be parsed leaves total_bytes_ as it is; without
\* one, what counts is the content length the fetcher has received.
ReportedSizes(n) ==
  IF fetcher.code = 206 THEN {Length, total_bytes} ELSE {0, fetcher.next + n}

\* Mutant of OnWrite: the response code is not checked.
OnWriteAnyCode ==
  /\ Unlocked
  /\ fetcher.state = "open"
  /\ \E n \in 1 .. MaxChunk :
       /\ fetcher.next + n <= Length
       /\ total_bytes' \in ReportedSizes(n)
       /\ writing' = n
  /\ stale' = (stale \/ io_tasks # << >>)
  /\ UNCHANGED <<write_start_pos, write_offset, cache, lru, pinned_range, fetcher, io_tasks>>

\* OnWrite up to its loop.  A body that is not 2xx is read and dropped.
OnWrite ==
  /\ Unlocked
  /\ fetcher.state = "open"
  /\ \E n \in 1 .. MaxChunk :
       /\ fetcher.next + n <= Length
       /\ \/ /\ fetcher.code \in {200, 206}
             /\ total_bytes' \in ReportedSizes(n)
             /\ writing' = n
             /\ stale' = (stale \/ io_tasks # << >>)
             /\ UNCHANGED fetcher
          \/ /\ fetcher.code = 404
             /\ fetcher' = [fetcher EXCEPT !.next = @ + n]
             /\ UNCHANGED <<total_bytes, writing, stale>>
  /\ UNCHANGED <<write_start_pos, write_offset, cache, lru, pinned_range, io_tasks>>

\* The bytes of a block after n more were stored at offset at.
Written(entry, at, n) ==
  [i \in 1 .. at + n |->
     IF i > at THEN fetcher.next + (i - at) - 1
     ELSE IF i <= Len(entry) THEN entry[i] ELSE Garbage]

\* One turn of OnWrite's loop: the part of the chunk that falls into one block.
\* Storing into a cached block sets its size to where the write ended.
WriteBlock ==
  LET id == ToBlockId(WritePos)
      at == Offset(WritePos)
      n == IF writing < BlockSize - at THEN writing ELSE BlockSize - at
      listed == IF id \in DOMAIN cache THEN Used(lru, id) ELSE Pushed(lru, id)
      purge == id \notin DOMAIN cache /\ Len(listed) > MaxCacheSize
      entry == IF id \in DOMAIN cache THEN cache[id] ELSE << >>
      kept == (DOMAIN cache \cup {id}) \
              (IF purge THEN {Victim(listed, pinned_range)} ELSE {})
  IN  /\ ~Unlocked
      /\ purge => CanPurge(listed, pinned_range)
      /\ lru' = IF purge THEN Purged(listed, pinned_range) ELSE listed
      /\ cache' = [b \in kept |-> IF b = id THEN Written(entry, at, n) ELSE cache[b]]
      /\ write_offset' = write_offset + n
      /\ fetcher' = [fetcher EXCEPT !.next = @ + n]
      /\ writing' = writing - n
      /\ UNCHANGED <<write_start_pos, total_bytes, pinned_range, io_tasks, stale>>

\* The body ends, or the connection does.
OnFinish ==
  /\ Unlocked
  /\ fetcher.state = "open"
  /\ fetcher.next = Length \/ fetcher.code = 404 \/ FetchMayFail
  /\ fetcher' = [fetcher EXCEPT !.state = "done"]
  /\ UNCHANGED <<write_start_pos, write_offset, total_bytes, cache, lru,
                 pinned_range, io_tasks, writing, stale>>
-----------------------------------------------------------------------------
Reader == Start \/ \E position \in ReadPositions : Seek(position)
IoThread == CreateFetcherFrom \/ DidInitialize \/ OnWrite \/ WriteBlock \/ OnFinish

BufferNext == Reader \/ IoThread

BufferSpec == BufferInit /\ [][BufferNext]_buffer_vars
-----------------------------------------------------------------------------
BufferTypeOK ==
  /\ {write_start_pos, write_offset, writing} \subseteq Nat
  /\ total_bytes \in Nat \cup {-1}
  /\ cache \in [DOMAIN cache -> Seq(Nat \cup {Garbage})]
  /\ lru \in Seq(Nat)
  /\ pinned_range \in [first : Nat, second : Nat]
  /\ fetcher \in [state : {"none", "created", "open", "done"},
                  code : Codes, next : Nat]
  /\ io_tasks \in Seq(Nat)
  /\ stale \in BOOLEAN

\* cache_ and lru_ hold the same blocks, each once, and no more of them than
\* kMaxCacheSize between two turns of the loop of OnWrite: an id missing in one
\* of them would be found by neither PurgeIfNecessary's DCHECK nor Insert's.
CacheMirrorsLru ==
  /\ DOMAIN cache = ToSet(lru)
  /\ IsInjective(lru)
  /\ Len(lru) <= MaxCacheSize

\* PurgeIfNecessary loops until it pops a block that is not pinned, with lock_
\* held.  When the cache is full there is one, and it is not the block being
\* written: the pinned range never covers a whole cache.
PurgeTerminates ==
  Len(lru) = MaxCacheSize => CanPurge(lru, pinned_range)

\* A write that begins inside a block finds that block, filled up to there; so
\* no cached byte is one that was never written.  Purging, re-listing and
\* refetching in between must not have thrown out the half-written block.
NoHoleInBlock ==
  /\ Offset(WritePos) > 0 =>
       /\ ToBlockId(WritePos) \in DOMAIN cache
       /\ Len(cache[ToBlockId(WritePos)]) = Offset(WritePos)
  /\ \A b \in DOMAIN cache : Garbage \notin ToSet(cache[b])

\* The fetch in force delivers the byte at the write position: a queued fetch
\* begins where Seek put the writer, and from its creation on fetcher and writer
\* advance together.  It is why the cached bytes are right.
FetchTracksWriter ==
  ~stale =>
    /\ io_tasks # << >> =>
         write_offset = 0 /\ writing = 0 /\ Last(io_tasks) = write_start_pos
    /\ io_tasks = << >> /\ fetcher.state # "none" /\ fetcher.code # 404 =>
         fetcher.next = WritePos

RightBlock(b) == \A i \in DOMAIN cache[b] : cache[b][i] = BlockStart(b) + i - 1

\* "Use URLFetcher to buffer network resource": what is cached is the resource.
BufferHoldsResource == \A b \in DOMAIN cache : RightBlock(b)

\* Every cached byte is the byte of the resource its place stands for, across
\* seeks, refetches, failures and purges, as long as no replaced fetcher wrote
\* and no server ignored the Range header (see stale).
ContentRight == ~stale => \A b \in DOMAIN cache : RightBlock(b)

\* The last fetch ended before the resource did; only a Seek starts another.
FetchFailed == fetcher.state = "done" /\ (fetcher.code = 404 \/ fetcher.next < Length)

\* "otherwise it is ok to acces data or wait data received": when Seek lets the
\* reader wait for a position in the resource, the byte is in front of the writer, and a fetcher
\* that brings it is at work or in the queue unless the last fetch has failed.
WaitIsJustified ==
  Unlocked /\ ~stale /\ fetcher.state # "none" =>
    \A position \in Positions :
      ~NeedsFetch(position) /\ ~Available(cache, position) =>
        /\ WritePos <= position
        /\ io_tasks # << >> \/ fetcher.state # "done" \/ FetchFailed

\* "it is ok to ... wait data received", also after a fetch has failed.
WaitIsServed ==
  Unlocked /\ ~stale /\ fetcher.state # "none" =>
    \A position \in Positions :
      ~NeedsFetch(position) /\ ~Available(cache, position) =>
        io_tasks # << >> \/ fetcher.state # "done"

\* The reader's window is not evicted under it: a block leaves the cache only
\* while it is outside the pinned range, and never to make room for itself.
EvictionSparesReader ==
  [][/\ \A b \in DOMAIN cache \ DOMAIN cache' : ~Pinned(pinned_range, b)
     /\ writing' < writing => ToBlockId(WritePos) \in DOMAIN cache']_buffer_vars

\* "This is the size of the look-behind region" and "region which should not be
\* pruned by LRU": of the kMaxLookBehindIndex blocks before the one the reader
\* is at, none is evicted.
ReaderId == pinned_range.second - MaxLookBehindIndex
LookBehindKept ==
  [][\A b \in DOMAIN cache \ DOMAIN cache' :
       ~(ReaderId - MaxLookBehindIndex <= b /\ b <= ReaderId)]_buffer_vars
=============================================================================
