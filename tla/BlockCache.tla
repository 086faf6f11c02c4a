----------------------------- MODULE BlockCache -----------------------------
(***************************************************************************)
(* The read side of the cache of ResourceMultiBuffer, as operators: block  *)
(* numbers, what Fill finds, when a position counts as a miss, and what    *)
(* PurgeIfNecessary throws out.                                            *)
(*                                                                         *)
(* A cache is a function from the ids of the cached blocks to the bytes of *)
(* the block that were written so far, DataBuffer::data_size() of them.    *)
(* The code searches it with iterators and loops; these are the closed     *)
(* forms, and BlockCacheLoops compares the two.                            *)
(***************************************************************************)
EXTENDS Integers, LRUList

CONSTANTS
  BlockSize,      \* 1 << block_size_shift_
  MaxCacheSize    \* kMaxCacheSize

ASSUME BlockSizeAssumption == BlockSize \in Nat \ {0}

ToBlockId(position) == position \div BlockSize
Offset(position) == position % BlockSize
BlockStart(id) == id * BlockSize

Available(cache, position) ==
  /\ ToBlockId(position) \in DOMAIN cache
  /\ Offset(position) < Len(cache[ToBlockId(position)])

ByteAt(cache, position) == cache[ToBlockId(position)][Offset(position) + 1]

\* Fill copies the longest run of available bytes that starts at position; no
\* byte at all is ERR_IO_PENDING.
FillSize(cache, position, size) ==
  Max({n \in 0 .. size : \A k \in 0 .. n - 1 : Available(cache, position + k)})

FillBytes(cache, position, size) ==
  [k \in 1 .. FillSize(cache, position, size) |-> ByteAt(cache, position + k - 1)]

\* The writer has passed the position, yet it is not there to read.
CacheMiss(cache, position, write_pos) ==
  position < write_pos /\ ~Available(cache, position)

Pinned(range, id) == range.first <= id /\ id <= range.second

\* PurgeIfNecessary pops blocks off the back of the list and pushes the pinned
\* ones in front again until it pops one that is not pinned.  That one goes;
\* the blocks that were behind it are now the youngest, in the same order.
CanPurge(lru, range) == \E i \in DOMAIN lru : ~Pinned(range, lru[i])

\* Mutant of VictimPlace: the pinned range is not looked at.
OldestPlace(lru, range) == Len(lru)

VictimPlace(lru, range) ==
  CHOOSE i \in DOMAIN lru :
    /\ ~Pinned(range, lru[i])
    /\ \A j \in i + 1 .. Len(lru) : Pinned(range, lru[j])

Victim(lru, range) == lru[VictimPlace(lru, range)]

\* Mutant of Purged: what was popped is not pushed again.
PurgedWithoutReinsert(lru, range) == SubSeq(lru, 1, VictimPlace(lru, range) - 1)

Purged(lru, range) ==
  LET i == VictimPlace(lru, range)
  IN  SubSeq(lru, i + 1, Len(lru)) \o SubSeq(lru, 1, i - 1)
=============================================================================
