--------------------------- MODULE BlockCacheLoops ---------------------------
(***************************************************************************)
(* The loops of ResourceMultiBuffer as they are written, one step for each *)
(* turn, and their comparison with the closed forms of BlockCache.  A      *)
(* behavior is one call, of Fill or of PurgeIfNecessary: each is made with *)
(* lock_ held, so that nothing changes the cache between two turns.        *)
(***************************************************************************)
EXTENDS BlockCache

CONSTANTS
  Blocks,          \* bound: ids a cache may hold
  Questions        \* bound: positions and sizes that are asked for

ASSUME LoopsAssumption ==
  /\ Blocks \subseteq Nat /\ Questions \subseteq Nat
  /\ MaxCacheSize \in Nat

VARIABLES
  blocks,    \* cache_, each block a run of bytes
  list,      \* lru_
  pinned,    \* pinned_range_
  pc,        \* the loop that is at work, or that has come to its end
  call       \* the call's parameters, Fill's local variables; history: its turns

loop_vars == <<blocks, list, pinned, pc, call>>

\* begin() after the decrement, and end().
NoEntry == -1

\* upper_bound(id), decremented: the last entry at or before id.
EntryAtOrBefore(id) == Max({b \in DOMAIN blocks : b <= id} \cup {NoEntry})

\* Mutant of NextEntry: the iterator stays where it is.
SameEntry(b) == b

\* ++it
NextEntry(b) ==
  IF \E c \in DOMAIN blocks : c > b THEN Min({c \in DOMAIN blocks : c > b}) ELSE NoEntry

EntryEnd(b) == BlockStart(b) + Len(blocks[b])
-----------------------------------------------------------------------------
(* Fill *)

\* Any blocks, full or cut off behind any byte, and any question.
FillCalled ==
  /\ pc = "Fill"
  /\ \E ids \in SUBSET Blocks, filled \in [Blocks -> 1 .. BlockSize] :
       blocks = [b \in ids |-> [i \in 1 .. filled[b] |-> BlockStart(b) + i - 1]]
  /\ list = << >>
  /\ pinned = [first |-> 0, second |-> 0]
  /\ \E p \in Questions, s \in Questions \ {0} :
       call = [asked_position |-> p, asked_size |-> s, position |-> p, size |-> s,
               it |-> NoEntry, index |-> NoEntry, copied |-> << >>, turns |-> 0]

\* Up to the loop: it stands on the last entry at or before the position's block.
EnterFill ==
  /\ pc = "Fill"
  /\ LET it == EntryAtOrBefore(ToBlockId(call.position))
     IN  /\ pc' = IF it = NoEntry THEN "Filled" ELSE "FillLoop"
         /\ call' = [call EXCEPT !.it = it, !.index = it]
  /\ UNCHANGED <<blocks, list, pinned>>

\* The condition of Fill's while loop.
FillGoesOn ==
  /\ call.it \in DOMAIN blocks
  /\ call.size > 0
  /\ EntryEnd(call.it) >= call.position
  /\ call.it = call.index

\* One turn copies what it can from one entry; an entry that is not full is the
\* last one.
FillTurn ==
  /\ pc = "FillLoop" /\ FillGoesOn
  /\ LET start == call.position - BlockStart(call.it)
         room == Len(blocks[call.it]) - start
         n == IF room < call.size THEN room ELSE call.size
         full == Len(blocks[call.it]) = BlockSize
     IN  /\ call' = [call EXCEPT
                       !.copied = @ \o SubSeq(blocks[call.it], start + 1, start + n),
                       !.position = @ + n, !.size = @ - n,
                       !.it = IF full THEN NextEntry(@) ELSE @,
                       !.index = IF full THEN @ + 1 ELSE @,
                       !.turns = @ + 1]
         /\ pc' = IF full THEN "FillLoop" ELSE "Filled"
  /\ UNCHANGED <<blocks, list, pinned>>

LeaveFill ==
  /\ pc = "FillLoop" /\ ~FillGoesOn
  /\ pc' = "Filled"
  /\ UNCHANGED <<blocks, list, pinned, call>>
-----------------------------------------------------------------------------
(* CheckCacheMiss, which has no loop *)

\* Mutant of CheckCacheMiss: the byte after the end of a block counts as there.
CheckCacheMissAtEnd(position, write_pos) ==
  LET it == EntryAtOrBefore(ToBlockId(position))
  IN  write_pos > position /\ (it = NoEntry \/ EntryEnd(it) < position)

\* CheckCacheMiss with its early returns.
CheckCacheMiss(position, write_pos) ==
  LET it == EntryAtOrBefore(ToBlockId(position))
      write_behind == write_pos > position
  IN  IF ~write_behind THEN FALSE
      ELSE IF it = NoEntry THEN TRUE
      ELSE ~(EntryEnd(it) > position) /\ write_behind
-----------------------------------------------------------------------------
(* PurgeIfNecessary *)

\* As OnWrite calls it, with one block too many.  That one of them is not pinned
\* is PurgeTerminates of ResourceMultiBuffer.
PurgeCalled ==
  /\ pc = "PurgeLoop"
  /\ list \in [1 .. MaxCacheSize + 1 -> Blocks] /\ IsInjective(list)
  /\ blocks = [b \in ToSet(list) |-> << >>]
  /\ pinned \in [first : Blocks, second : Blocks] /\ CanPurge(list, pinned)
  /\ call = [listed |-> list, turns |-> 0]

\* Mutant of PurgeTurn: the end of pinned_range_ is taken as exclusive.
PurgeTurnHalfOpen ==
  /\ pc = "PurgeLoop" /\ Len(list) > MaxCacheSize
  /\ LET id == Oldest(list)
     IN  IF id >= pinned.first /\ id < pinned.second
         THEN list' = Pushed(Popped(list), id) /\ UNCHANGED blocks
         ELSE /\ list' = Popped(list)
              /\ blocks' = [b \in DOMAIN blocks \ {id} |-> blocks[b]]
  /\ call' = [call EXCEPT !.turns = @ + 1]
  /\ UNCHANGED <<pinned, pc>>

\* The oldest block is popped, and pushed again if it is pinned.
PurgeTurn ==
  /\ pc = "PurgeLoop" /\ Len(list) > MaxCacheSize
  /\ LET id == Oldest(list)
     IN  \/ /\ Pinned(pinned, id)
            /\ list' = Pushed(Popped(list), id)
            /\ UNCHANGED blocks
         \/ /\ ~Pinned(pinned, id)
            /\ list' = Popped(list)
            /\ blocks' = [b \in DOMAIN blocks \ {id} |-> blocks[b]]
  /\ call' = [call EXCEPT !.turns = @ + 1]
  /\ UNCHANGED <<pinned, pc>>

LeavePurge ==
  /\ pc = "PurgeLoop" /\ ~(Len(list) > MaxCacheSize)
  /\ pc' = "Purged"
  /\ UNCHANGED <<blocks, list, pinned, call>>
-----------------------------------------------------------------------------
LoopsInit == FillCalled \/ PurgeCalled

LoopsNext == EnterFill \/ FillTurn \/ LeaveFill \/ PurgeTurn \/ LeavePurge

LoopsSpec == LoopsInit /\ [][LoopsNext]_loop_vars
-----------------------------------------------------------------------------
\* Fill's walk over neighbouring map entries copies exactly the longest run of
\* available bytes: it neither stops early at a block boundary nor runs past a
\* gap or a half-filled block.  All turns but one copy something, so it ends.
FillLoopRight ==
  /\ pc = "Filled" =>
       call.copied = FillBytes(blocks, call.asked_position, call.asked_size)
  /\ pc = "FillLoop" => call.turns <= Len(call.copied) + 1

\* CheckCacheMiss looks at the nearest block at or before the position, which
\* may be another block; it answers TRUE exactly when the writer has passed the
\* position and its byte is not there.
MissCheckRight ==
  pc = "Fill" =>
    \A position, write_pos \in Questions :
      CheckCacheMiss(position, write_pos) <=> CacheMiss(blocks, position, write_pos)

\* One block over the limit and one of them not pinned: when the purging loop
\* ends it has evicted the oldest block that is not pinned, and no other, and
\* has rotated the pinned ones behind it to the front; and it does end, as no
\* block is popped twice.
PurgeLoopRight ==
  /\ pc = "Purged" =>
       /\ list = Purged(call.listed, pinned)
       /\ DOMAIN blocks = ToSet(call.listed) \ {Victim(call.listed, pinned)}
  /\ pc = "PurgeLoop" => call.turns <= MaxCacheSize + 1
=============================================================================
